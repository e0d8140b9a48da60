------------------------------ MODULE Semaphore ------------------------------
(***************************************************************************)
(* The asynchronous fair counting semaphore of library/async_locks         *)
(* (src/semaphore.rs), on which Mutex, RwLock and the spsc channel stand.   *)
(*                                                                         *)
(* A member of Futures stands for one acquire() future together with the   *)
(* task that polls it and the guard it may obtain; its task is sequential, *)
(* tasks interleave freely (the SyncLock inside is a plain spin lock that  *)
(* leaves interrupts on, so a task may be preempted between any two steps). *)
(* What the spin lock protects is only visible to its holder; the steps    *)
(* below are split where shared state NOT under the lock is touched: the   *)
(* atomic `permits` and the atomic status of each waker.                   *)
(***************************************************************************)
EXTENDS Integers, Sequences, FiniteSets

CONSTANTS Futures,    \* acquire() futures, each with its task and its guard
          Total,      \* the argument of Semaphore::new
          Requests,   \* the amounts acquire() is called with
          NoOne       \* "the spin lock is free"

ASSUME SemaphoreAssumption ==
  /\ IsFiniteSet(Futures)
  /\ Total \in Nat
  /\ Requests \subseteq Nat \ {0}
  /\ NoOne \notin Futures

VARIABLES
  permits,    \* Semaphore.permits, the lock-free counter
  pool,       \* queue.0: permits kept back for the waiters
  waiters,    \* queue.1: the wakers in arrival order
  lock,       \* holder of the spin lock around (queue.0, queue.1)
  pc,         \* where the task of each future is
  ret,        \* where it continues after the release() it is executing
  need,       \* the future's `permits` field (also its waker's)
  status,     \* its SemaphoreWaker.status; "none" before it is queued
  woken,      \* its Waker has been called
  guard,      \* permits of the SemaphoreGuard it returned
  rel,        \* argument of a release() that does not hold the lock yet
  forgotten   \* permits of guards given to core::mem::forget

vars == <<permits, pool, waiters, lock, pc, ret, need, status, woken, guard,
          rel, forgotten>>

queueVars == <<pool, waiters, lock>>

PcNames == {"new", "queue", "rel", "loop", "cas", "wait", "ready", "held",
            "done"}

(* The subtractions of permits never go below 0; the queue holds futures.  *)
TypeOK ==
  /\ permits \in Nat /\ pool \in Nat /\ forgotten \in Nat
  /\ waiters \in Seq(Futures)
  /\ lock \in Futures \cup {NoOne}
  /\ pc \in [Futures -> PcNames]
  /\ ret \in [Futures -> {"wait", "held", "done"}]
  /\ need \in [Futures -> Nat]
  /\ status \in [Futures -> {"none", "WAITING", "ACQUIRED", "GIVEUP"}]
  /\ woken \in [Futures -> BOOLEAN]
  /\ guard \in [Futures -> Nat]
  /\ rel \in [Futures -> Nat]

Init ==
  /\ permits = Total /\ pool = 0 /\ waiters = <<>> /\ lock = NoOne
  /\ pc = [f \in Futures |-> "new"]
  /\ ret = [f \in Futures |-> "done"]
  /\ need = [f \in Futures |-> 0]
  /\ status = [f \in Futures |-> "none"]
  /\ woken = [f \in Futures |-> FALSE]
  /\ guard = [f \in Futures |-> 0]
  /\ rel = [f \in Futures |-> 0]
  /\ forgotten = 0

Goto(f, l) == pc' = [pc EXCEPT ![f] = l]

(* Entering release(n): the task will contend for the lock and, when       *)
(* release() returns, continue at l.                                       *)
CallRelease(f, n, l) ==
  /\ rel' = [rel EXCEPT ![f] = n]
  /\ ret' = [ret EXCEPT ![f] = l]
  /\ Goto(f, "rel")

-----------------------------------------------------------------------------
(* try_acquire, called directly or by the first poll of acquire(n).  Its   *)
(* load/compare_exchange loop takes effect at the successful exchange.     *)
TryAcquire(f, n) ==
  /\ pc[f] = "new"
  /\ permits >= n
  /\ permits' = permits - n
  /\ guard' = [guard EXCEPT ![f] = n]
  /\ Goto(f, "held")
  /\ UNCHANGED <<queueVars, ret, need, status, woken, rel, forgotten>>

(* The first poll finds too few permits and builds its waker.              *)
PollFails(f, n) ==
  /\ pc[f] = "new"
  /\ permits < n
  /\ need' = [need EXCEPT ![f] = n]
  /\ Goto(f, "queue")
  /\ UNCHANGED <<permits, queueVars, ret, status, woken, guard, rel, forgotten>>

(* Variant: poll returns Pending without the release(0) after queue().     *)
QueueNoRelease(f) ==
  /\ pc[f] = "queue" /\ lock = NoOne
  /\ pool' = pool + permits /\ permits' = 0
  /\ waiters' = Append(waiters, f)
  /\ status' = [status EXCEPT ![f] = "WAITING"]
  /\ Goto(f, "wait")
  /\ UNCHANGED <<lock, ret, need, woken, guard, rel, forgotten>>

(* queue(): moves every free permit to the waiters' pool and lines up, one *)
(* critical section; poll then goes on to release(0) and returns Pending.  *)
Queue(f) ==
  /\ pc[f] = "queue"
  /\ lock = NoOne
  /\ pool' = pool + permits
  /\ permits' = 0
  /\ waiters' = Append(waiters, f)
  /\ status' = [status EXCEPT ![f] = "WAITING"]
  /\ CallRelease(f, 0, "wait")
  /\ UNCHANGED <<lock, need, woken, guard, forgotten>>

(* A later poll that finds the status ACQUIRED hands out the guard and     *)
(* zeroes the future's own permits.  Any other poll changes nothing.       *)
PollReady(f) ==
  /\ pc[f] = "wait"
  /\ status[f] = "ACQUIRED"
  /\ guard' = [guard EXCEPT ![f] = need[f]]
  /\ need' = [need EXCEPT ![f] = 0]
  /\ Goto(f, "ready")
  /\ UNCHANGED <<permits, queueVars, ret, status, woken, rel, forgotten>>

(* Variant: a granted future that is dropped keeps its permits.            *)
DropFutureLeaks(f) ==
  /\ pc[f] \in {"wait", "ready"}
  /\ status' = [status EXCEPT ![f] = "GIVEUP"]
  /\ CallRelease(f, 0, IF pc[f] = "ready" THEN "held" ELSE "done")
  /\ UNCHANGED <<permits, queueVars, need, woken, guard, forgotten>>

(* Drop of the future: after Ready (it owns 0 permits then) or as a        *)
(* cancellation while it waits.  A granted future gives its permits back.  *)
DropFuture(f) ==
  /\ pc[f] \in {"wait", "ready"}
  /\ status' = [status EXCEPT ![f] = "GIVEUP"]
  /\ CallRelease(f, IF status[f] = "ACQUIRED" THEN need[f] ELSE 0,
                 IF pc[f] = "ready" THEN "held" ELSE "done")
  /\ UNCHANGED <<permits, queueVars, need, woken, guard, forgotten>>

-----------------------------------------------------------------------------
(* release(n), line by line.  It locks the queue and adds n to the pool.   *)
ReleaseLock(f) ==
  /\ pc[f] = "rel"
  /\ lock = NoOne
  /\ lock' = f
  /\ pool' = pool + rel[f]
  /\ rel' = [rel EXCEPT ![f] = 0]
  /\ Goto(f, "loop")
  /\ UNCHANGED <<permits, waiters, ret, need, status, woken, guard, forgotten>>

(* A popped waker that gave up is dropped; the loop goes on.               *)
ReleaseSkip(f) ==
  /\ pc[f] = "loop"
  /\ waiters # <<>>
  /\ status[Head(waiters)] = "GIVEUP"
  /\ waiters' = Tail(waiters)
  /\ UNCHANGED <<permits, pool, lock, pc, ret, need, status, woken, guard, rel,
                 forgotten>>

ReleaseReturn(f) ==
  /\ lock' = NoOne
  /\ Goto(f, ret[f])

(* Variant: the first waiter is pushed back behind the others.             *)
ReleaseShortToBack(f) ==
  /\ pc[f] = "loop" /\ waiters # <<>>
  /\ status[Head(waiters)] # "GIVEUP" /\ pool < need[Head(waiters)]
  /\ waiters' = Append(Tail(waiters), Head(waiters))
  /\ ReleaseReturn(f)
  /\ UNCHANGED <<permits, pool, ret, need, status, woken, guard, rel, forgotten>>

(* The pool is too small for the first waiter: it is pushed back to the    *)
(* front and release() returns, keeping the permits in the pool.           *)
ReleaseShort(f) ==
  /\ pc[f] = "loop"
  /\ waiters # <<>>
  /\ status[Head(waiters)] # "GIVEUP"
  /\ pool < need[Head(waiters)]
  /\ ReleaseReturn(f)
  /\ UNCHANGED <<permits, pool, waiters, ret, need, status, woken, guard, rel,
                 forgotten>>

(* The pool is large enough: the compare_exchange on its status is next.   *)
ReleaseTry(f) ==
  /\ pc[f] = "loop"
  /\ waiters # <<>>
  /\ status[Head(waiters)] # "GIVEUP"
  /\ pool >= need[Head(waiters)]
  /\ Goto(f, "cas")
  /\ UNCHANGED <<permits, queueVars, ret, need, status, woken, guard, rel,
                 forgotten>>

(* Variant: the granted waiter is not woken.                               *)
ReleaseGrantSilent(f) ==
  /\ pc[f] = "cas"
  /\ status[Head(waiters)] = "WAITING"
  /\ status' = [status EXCEPT ![Head(waiters)] = "ACQUIRED"]
  /\ pool' = pool - need[Head(waiters)]
  /\ waiters' = Tail(waiters)
  /\ Goto(f, "loop")
  /\ UNCHANGED <<permits, lock, ret, need, woken, guard, rel, forgotten>>

(* compare_exchange WAITING -> ACQUIRED succeeds: the waiter is granted    *)
(* its permits and woken, and the loop goes on.                            *)
ReleaseGrant(f) ==
  /\ pc[f] = "cas"
  /\ LET w == Head(waiters) IN
       /\ status[w] = "WAITING"
       /\ status' = [status EXCEPT ![w] = "ACQUIRED"]
       /\ woken' = [woken EXCEPT ![w] = TRUE]
       /\ pool' = pool - need[w]
  /\ waiters' = Tail(waiters)
  /\ Goto(f, "loop")
  /\ UNCHANGED <<permits, lock, ret, need, guard, rel, forgotten>>

(* The exchange fails because the waiter gave up after it was loaded: it   *)
(* is pushed back to the front and release() returns.                      *)
ReleaseLost(f) ==
  /\ pc[f] = "cas"
  /\ status[Head(waiters)] # "WAITING"
  /\ ReleaseReturn(f)
  /\ UNCHANGED <<permits, pool, waiters, ret, need, status, woken, guard, rel,
                 forgotten>>

(* Nobody waits: the pool goes back to the lock-free counter.              *)
ReleaseFlush(f) ==
  /\ pc[f] = "loop"
  /\ waiters = <<>>
  /\ permits' = permits + pool
  /\ pool' = 0
  /\ ReleaseReturn(f)
  /\ UNCHANGED <<waiters, ret, need, status, woken, guard, rel, forgotten>>

-----------------------------------------------------------------------------
(* Drop of a SemaphoreGuard.                                               *)
DropGuard(f) ==
  /\ pc[f] = "held"
  /\ CallRelease(f, guard[f], "done")
  /\ guard' = [guard EXCEPT ![f] = 0]
  /\ UNCHANGED <<permits, queueVars, need, status, woken, forgotten>>

(* SemaphoreGuard::release_part(n).  The guard's own count is private, so  *)
(* decreasing it before instead of after the release is not observable.    *)
ReleasePart(f, n) ==
  /\ pc[f] = "held"
  /\ n <= guard[f]
  /\ CallRelease(f, n, "held")
  /\ guard' = [guard EXCEPT ![f] = @ - n]
  /\ UNCHANGED <<permits, queueVars, need, status, woken, forgotten>>

(* core::mem::forget of a guard: its permits are never given back by it.   *)
Forget(f) ==
  /\ pc[f] = "held"
  /\ forgotten' = forgotten + guard[f]
  /\ guard' = [guard EXCEPT ![f] = 0]
  /\ Goto(f, "done")
  /\ UNCHANGED <<permits, queueVars, ret, need, status, woken, rel>>

(* Semaphore::release(n) called directly, as the spsc channel does to give *)
(* back permits whose guard was forgotten.                                 *)
Release(f, n) ==
  /\ pc[f] = "new"
  /\ n <= forgotten
  /\ forgotten' = forgotten - n
  /\ CallRelease(f, n, "done")
  /\ UNCHANGED <<permits, queueVars, need, status, woken, guard>>

(* The task starts another acquire(): a new future with a new waker.  The  *)
(* name is reused only once no abandoned waker of it is left in the queue. *)
Acquire(f) ==
  /\ pc[f] = "done"
  /\ \A i \in 1..Len(waiters) : waiters[i] # f
  /\ Goto(f, "new")
  /\ need' = [need EXCEPT ![f] = 0]
  /\ status' = [status EXCEPT ![f] = "none"]
  /\ woken' = [woken EXCEPT ![f] = FALSE]
  /\ UNCHANGED <<permits, queueVars, ret, guard, rel, forgotten>>

-----------------------------------------------------------------------------
ReleaseStep(f) ==
  \/ ReleaseLock(f) \/ ReleaseSkip(f) \/ ReleaseShort(f) \/ ReleaseTry(f)
  \/ ReleaseGrant(f) \/ ReleaseLost(f) \/ ReleaseFlush(f)

(* What the task of f does by itself: first poll, release(), drops.        *)
OwnStep(f) ==
  \/ \E n \in Requests : TryAcquire(f, n) \/ PollFails(f, n)
  \/ Queue(f) \/ PollReady(f) \/ DropFuture(f)
  \/ ReleaseStep(f)
  \/ DropGuard(f)
  \/ \E n \in 1..guard[f] : ReleasePart(f, n)

Next ==
  \E f \in Futures :
    \/ OwnStep(f)
    \/ Forget(f)
    \/ \E n \in 1..forgotten : Release(f, n)
    \/ Acquire(f)

Spec == Init /\ [][Next]_vars

(* Fairness, for one round of acquires and no forgotten guard: a task that *)
(* is inside the library keeps running (the scheduler is round robin), a   *)
(* woken task is polled again, and a guard is eventually dropped.  Every   *)
(* future takes the spin lock finitely often in a round, so weak fairness  *)
(* is enough for it.  Nothing obliges a first poll or a cancellation.      *)
LiveNext == \E f \in Futures : OwnStep(f)

LiveSpec ==
  /\ Init /\ [][LiveNext]_vars
  /\ \A f \in Futures :
       /\ WF_vars(ReleaseStep(f) \/ Queue(f))
       /\ WF_vars(pc[f] = "ready" /\ DropFuture(f))
       /\ WF_vars(woken[f] /\ PollReady(f))
       /\ WF_vars(DropGuard(f))

-----------------------------------------------------------------------------
(* Permits a future answers for: in its guard, granted and not yet polled, *)
(* or on their way back through release().                                 *)
Share(f) ==
  guard[f] + rel[f] + (IF status[f] = "ACQUIRED" THEN need[f] ELSE 0)

(* The permits out of the semaphore, counted one by one.                   *)
Units == {u \in Futures \X (1..Total) : u[2] <= Share(u[1])}

(* No permit is lost or invented, whatever is cancelled and whenever: the  *)
(* free ones, the pool's, those somebody answers for and the forgotten     *)
(* ones always add up to the initial number.  (cancel safety, and no       *)
(* overflow of queue.0 += n or permits.fetch_add)                          *)
Conservation ==
  /\ \A f \in Futures : Share(f) <= Total
  /\ permits + pool + forgotten + Cardinality(Units) = Total

(* try_acquire cannot overtake the queue: while any waker is in the queue  *)
(* the lock-free counter is empty ("strict queue fairness").               *)
NoBarging == waiters # <<>> => permits = 0

Releasing(f) == pc[f] \in {"rel", "loop", "cas"}

(* No lost wake-up: whenever no release() is under way, the first waiter   *)
(* is still waiting and really lacks permits -- nobody sleeps in front of  *)
(* enough permits, and no abandoned waker blocks the queue.                *)
NoStall ==
  (\A f \in Futures : ~Releasing(f)) /\ waiters # <<>> =>
    /\ status[Head(waiters)] = "WAITING"
    /\ pool < need[Head(waiters)]

(* A future is granted permits only when it is the first in line that has  *)
(* not given up; a first poll succeeds only when nobody waits.  (FIFO)     *)
FirstInLine ==
  [][\A f \in Futures :
       /\ status[f] = "WAITING" /\ status'[f] = "ACQUIRED" =>
            \A i \in 1..Len(waiters) :
              waiters[i] = f => \A j \in 1..(i-1) :
                                  status[waiters[j]] = "GIVEUP"
       /\ pc[f] = "new" /\ pc'[f] = "held" => waiters = <<>>]_vars

(* Under LiveSpec everyone who lines up and does not cancel gets through,  *)
(* big requests included, when no request exceeds the total.               *)
EveryoneServed ==
  \A f \in Futures : pc[f] = "queue" ~> pc[f] \in {"held", "done"}

-----------------------------------------------------------------------------
(* The strengthening of Conservation, NoBarging and NoStall that every     *)
(* step preserves.                                                         *)

(* The spin lock is held exactly inside release().                         *)
LockInv == \A f \in Futures : lock = f <=> pc[f] \in {"loop", "cas"}

(* A future owns a guard, an amount to release and a status only where its *)
(* task can have one.                                                      *)
TaskInv ==
  \A f \in Futures :
    /\ pc[f] # "rel" => rel[f] = 0
    /\ pc[f] \in {"new", "queue", "wait", "done"} => guard[f] = 0
    /\ Releasing(f) /\ ret[f] # "held" => guard[f] = 0
    /\ pc[f] \in {"new", "queue"} => status[f] = "none"
    /\ pc[f] = "wait" => status[f] \in {"WAITING", "ACQUIRED"}
    /\ Releasing(f) /\ ret[f] = "wait" => status[f] \in {"WAITING", "ACQUIRED"}
    /\ pc[f] = "ready" => status[f] = "ACQUIRED" /\ need[f] = 0
    /\ pc[f] \in {"held", "done"} => status[f] \in {"none", "GIVEUP"}
    /\ Releasing(f) /\ ret[f] # "wait" => status[f] \in {"none", "GIVEUP"}

(* Every future is in the queue at most once, and not any more when it is  *)
(* granted.                                                                *)
QueueInv ==
  /\ \A i \in 1..Len(waiters) : status[waiters[i]] \in {"WAITING", "GIVEUP"}
  /\ \A i, j \in 1..Len(waiters) : waiters[i] = waiters[j] => i = j

(* Between the load and the compare_exchange the waiter can only give up,  *)
(* and then its own release() is still to come.                            *)
CasInv ==
  \A f \in Futures : pc[f] = "cas" =>
    /\ waiters # <<>>
    /\ pool >= need[Head(waiters)]
    /\ status[Head(waiters)] = "GIVEUP" => pc[Head(waiters)] = "rel"

IndInv ==
  TypeOK /\ LockInv /\ TaskInv /\ QueueInv /\ CasInv /\ NoBarging /\ NoStall
         /\ Conservation

(* The promises of the semaphore's queue together: no subtraction underflows, *)
(* try_acquire does not overtake the queue, and once every release() has      *)
(* ended nobody sleeps in front of enough permits.                            *)
SemaphoreSafe == TypeOK /\ NoBarging /\ NoStall
-----------------------------------------------------------------------------
(* What the semaphore shows of itself: who stands in the line, that is, is *)
(* queued and has neither been granted nor given up, for how many permits  *)
(* and behind whom; and who answers for how many.                          *)
Lined ==
  {f \in Futures : status[f] = "WAITING" /\ \E i \in 1..Len(waiters) : waiters[i] = f}

Before(g, f) ==
  \E i, j \in 1..Len(waiters) : i < j /\ waiters[i] = g /\ waiters[j] = f

Line == [f \in Lined |-> [n |-> need[f], ahead |-> {g \in Lined : Before(g, f)}]]

Owns == [f \in Futures |-> Share(f)]

Fifo ==
  INSTANCE FifoSemaphore
    WITH avail <- permits + pool, line <- Line, own <- Owns, lost <- forgotten

(* The lock-free counter, the pool, the spin lock and the per-waker status *)
(* together behave as one counter with a strict FIFO line.                 *)
ImplementsFifo == Fifo!Spec
=============================================================================
