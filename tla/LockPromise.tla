----------------------------- MODULE LockPromise -----------------------------
(***************************************************************************)
(* What library/async_locks/src/rwlock.rs promises to its callers, with no *)
(* permits, no queue and no wakers: who holds the lock in which mode, the  *)
(* value it protects, and the value each holder sees.  The mutex of        *)
(* src/mutex.rs is the lock that is only ever taken to write.              *)
(***************************************************************************)
CONSTANTS Futures, Values

VARIABLES mode,    \* per future: "none", "read" or "write"
          value,   \* the protected value
          view     \* per future: the value its guard shows

promiseVars == <<mode, value, view>>

Start ==
  /\ mode = [f \in Futures |-> "none"]
  /\ value \in Values
  /\ view = [f \in Futures |-> value]

(* A read guard is given while nobody writes.                              *)
LockRead(f) ==
  /\ mode[f] = "none"
  /\ \A g \in Futures : mode[g] # "write"
  /\ mode' = [mode EXCEPT ![f] = "read"]
  /\ view' = [view EXCEPT ![f] = value]
  /\ UNCHANGED value

(* A write guard is given while nobody holds the lock.                     *)
LockWrite(f) ==
  /\ \A g \in Futures : mode[g] = "none"
  /\ mode' = [mode EXCEPT ![f] = "write"]
  /\ view' = [view EXCEPT ![f] = value]
  /\ UNCHANGED value

Unlock(f) ==
  /\ mode[f] # "none"
  /\ mode' = [mode EXCEPT ![f] = "none"]
  /\ UNCHANGED <<value, view>>

(* A writer becomes a reader without letting go.                           *)
Downgrade(f) ==
  /\ mode[f] = "write"
  /\ mode' = [mode EXCEPT ![f] = "read"]
  /\ UNCHANGED <<value, view>>

Assign(f) ==
  /\ mode[f] = "write"
  /\ value' \in Values
  /\ view' = [view EXCEPT ![f] = value']
  /\ UNCHANGED mode

Step ==
  \E f \in Futures :
    LockRead(f) \/ LockWrite(f) \/ Unlock(f) \/ Downgrade(f) \/ Assign(f)

Spec == Start /\ [][Step]_promiseVars
=============================================================================
