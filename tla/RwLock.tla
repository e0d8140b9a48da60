-------------------------------- MODULE RwLock --------------------------------
(***************************************************************************)
(* The asynchronous read-write lock of library/async_locks (src/rwlock.rs):*)
(* the semaphore of module Semaphore with Total permits (usize::MAX in the *)
(* code), of which a reader takes one and a writer all, around a value.    *)
(* With Total = 1 it is the Mutex of src/mutex.rs.                         *)
(***************************************************************************)
EXTENDS Semaphore

CONSTANT Values    \* what the protected data can be

ASSUME RwLockAssumption ==
  /\ Total > 0 /\ {1, Total} \subseteq Requests
  /\ Values # {}

VARIABLES
  data,   \* RwLock.data
  seen    \* per future: data as of its guard's creation or its last write

rwVars == <<vars, data, seen>>

(* The semaphore is well-formed, the data and every view of it are values. *)
RwTypeOK == TypeOK /\ data \in Values /\ seen \in [Futures -> Values]

RwInit ==
  /\ Init
  /\ data \in Values
  /\ seen = [f \in Futures |-> data]

(* try_read, try_write and the first poll of read() and write() that       *)
(* succeeds at once.                                                       *)
TryLock(f, n) ==
  /\ TryAcquire(f, n)
  /\ seen' = [seen EXCEPT ![f] = data]
  /\ UNCHANGED data

(* The poll that finds the future granted.                                 *)
PollLock(f) ==
  /\ PollReady(f)
  /\ seen' = [seen EXCEPT ![f] = data]
  /\ UNCHANGED data

(* Waiting, cancelling and unlocking are the semaphore's.                  *)
WaitOrUnlock(f) ==
  /\ \/ \E n \in {1, Total} : PollFails(f, n)
     \/ Queue(f) \/ DropFuture(f) \/ ReleaseStep(f) \/ DropGuard(f)
     \/ Acquire(f)
  /\ UNCHANGED <<data, seen>>

(* Variant: downgrade releases one permit too many.                        *)
DowngradeAll(f) ==
  /\ pc[f] = "held" /\ guard[f] = Total /\ Total > 1
  /\ CallRelease(f, Total, "held")
  /\ guard' = [guard EXCEPT ![f] = 1]
  /\ UNCHANGED <<permits, queueVars, need, status, woken, forgotten, data, seen>>

(* WriteLockGuard::downgrade keeps one permit and releases the others.     *)
Downgrade(f) ==
  /\ guard[f] = Total /\ Total > 1
  /\ ReleasePart(f, Total - 1)
  /\ UNCHANGED <<data, seen>>

(* Variant: a guard that shares the lock may write.                        *)
WriteShared(f, v) ==
  /\ pc[f] = "held" /\ guard[f] > 0
  /\ data' = v
  /\ seen' = [seen EXCEPT ![f] = v]
  /\ UNCHANGED vars

(* DerefMut of a WriteLockGuard.                                           *)
Write(f, v) ==
  /\ pc[f] = "held" /\ guard[f] = Total
  /\ data' = v
  /\ seen' = [seen EXCEPT ![f] = v]
  /\ UNCHANGED vars

RwNext ==
  \E f \in Futures :
    \/ \E n \in {1, Total} : TryLock(f, n)
    \/ PollLock(f)
    \/ WaitOrUnlock(f)
    \/ Downgrade(f)
    \/ \E v \in Values : Write(f, v)

RwSpec == RwInit /\ [][RwNext]_rwVars

-----------------------------------------------------------------------------
(* A write guard excludes every other guard, however locks were waited     *)
(* for, cancelled, dropped or downgraded.                                  *)
Exclusion ==
  \A f, g \in Futures : f # g /\ guard[f] = Total => guard[g] = 0

(* What a guard shows does not change under it except by its own writes;   *)
(* in particular downgrade() lets no other writer in between.              *)
StableUnderGuard ==
  \A f \in Futures : guard[f] > 0 => seen[f] = data

(* What the guards of the lock promise: a write guard is alone, and no guard   *)
(* sees the data change under it, through waits, cancellations and downgrades. *)
RwLockSafe == RwTypeOK /\ Exclusion /\ StableUnderGuard

(* How each future holds the lock: a guard of all permits writes.          *)
Kind(n) == IF n = 0 THEN "none" ELSE IF n = Total THEN "write" ELSE "read"
Mode == [f \in Futures |-> Kind(guard[f])]

Promise == INSTANCE LockPromise WITH mode <- Mode, value <- data, view <- seen

(* The permits, the queue and the wakers together are a lock: every step   *)
(* is one that a caller of RwLock may expect, or none it can see.          *)
ImplementsLock == Promise!Spec
=============================================================================
