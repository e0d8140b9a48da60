------------------------------- MODULE BlockOn -------------------------------
(***************************************************************************)
(* block_on() and its waker (kernel/src/multitask/async_rt.rs): a user     *)
(* thread polls a future inside a system call and is suspended while the   *)
(* future is pending.  The waker clears `pending' under a spin lock and    *)
(* then calls wake_thread; block_on() holds that lock from its test of     *)
(* `pending' until the scheduler has marked the thread Suspend.            *)
(*                                                                         *)
(* One CPU: block_on() runs when its thread has it, other threads when it  *)
(* has not; the timer interrupt comes in either case, because interrupts   *)
(* are on wherever the spin lock is taken.                                 *)
(***************************************************************************)
EXTENDS Integers, FiniteSets

CONSTANTS Wakers,   \* threads that hold a clone of the waker
          Self,     \* the thread inside block_on()
          NoOne     \* "the spin lock is free"

ASSUME BlockOnAssumption ==
  /\ Self \notin Wakers
  /\ NoOne \notin Wakers \cup {Self}

VARIABLES
  status,    \* ThreadStatus of the thread in block_on()
  cpu,       \* it has the CPU
  claimed,   \* a yield has popped it from READY_THREADS
  point,        \* where it is in block_on()
  pending,   \* BlockOnWakerInner.pending
  lock,      \* holder of the spin lock around `pending'
  ripe,     \* the future can complete
  shared,    \* the future was polled: others hold clones of the waker
  waker,     \* per waking thread: its step in wake_by_ref
  spinning       \* the timer interrupt spins on the lock, for ever

blockVars == <<status, cpu, claimed, point, pending, lock, ripe, shared, waker,
          spinning>>

(* The thread and its wakers are at points of the code, the lock is free   *)
(* or with one of them.                                                    *)
BlockTypeOK ==
  /\ status \in {"Running", "Ready", "Suspend", "Terminating", "Terminated"}
  /\ cpu \in BOOLEAN /\ claimed \in BOOLEAN
  /\ cpu => status \in {"Running", "Terminating"}
  /\ point \in {"mark", "store", "check", "poll", "test", "tested", "ready",
             "stopped"}
  /\ pending \in BOOLEAN
  /\ lock \in Wakers \cup {Self, NoOne}
  /\ ripe \in BOOLEAN /\ shared \in BOOLEAN
  /\ waker \in [Wakers -> {"idle", "lock", "store", "thread"}]
  /\ spinning \in BOOLEAN

BlockInit ==
  /\ status = "Running" /\ cpu = TRUE /\ claimed = FALSE
  /\ point = "mark" /\ pending = FALSE /\ lock = NoOne
  /\ ripe = FALSE /\ shared = FALSE
  /\ waker = [w \in Wakers |-> "idle"]
  /\ spinning = FALSE

threadVars == <<status, cpu, claimed>>

At(l) == ~spinning /\ cpu /\ point = l

-----------------------------------------------------------------------------
(* `*waker_inner.pending.lock() = true', with interrupts on.               *)
MarkLock ==
  /\ At("mark")
  /\ lock = NoOne
  /\ lock' = Self
  /\ point' = "store"
  /\ UNCHANGED <<threadVars, pending, ripe, shared, waker, spinning>>

MarkStore ==
  /\ At("store")
  /\ pending' = TRUE
  /\ lock' = NoOne
  /\ point' = "check"
  /\ UNCHANGED <<threadVars, ripe, shared, waker, spinning>>

(* thread_boundry_check: a thread that is being stopped gives up.          *)
Check ==
  /\ At("check")
  /\ point' = IF status = "Terminating" THEN "stopped" ELSE "poll"
  /\ UNCHANGED <<threadVars, pending, lock, ripe, shared, waker, spinning>>

(* A pending future keeps a clone of the waker where its event will come   *)
(* from.                                                                   *)
Poll ==
  /\ At("poll")
  /\ IF ripe THEN point' = "ready" /\ UNCHANGED shared
              ELSE point' = "test" /\ shared' = TRUE
  /\ UNCHANGED <<threadVars, pending, lock, ripe, waker, spinning>>

TestLock ==
  /\ At("test")
  /\ lock = NoOne
  /\ lock' = Self
  /\ point' = "tested"
  /\ UNCHANGED <<threadVars, pending, ripe, shared, waker, spinning>>

(* Woken since the mark: poll again at once.                               *)
Continue ==
  /\ At("tested")
  /\ ~pending
  /\ lock' = NoOne
  /\ point' = "mark"
  /\ UNCHANGED <<threadVars, pending, ripe, shared, waker, spinning>>

(* Variant: `pending' is not tested before the thread is suspended.        *)
YieldUntested ==
  /\ At("tested")
  /\ status' = IF status = "Terminating" THEN "Terminated" ELSE "Suspend"
  /\ cpu' = FALSE
  /\ lock' = NoOne
  /\ point' = "mark"
  /\ UNCHANGED <<claimed, pending, ripe, shared, waker, spinning>>

(* thread_yield_with: the switch marks the thread and only then releases   *)
(* the lock.  When it is resumed, block_on() goes round its loop.          *)
Yield ==
  /\ At("tested")
  /\ pending
  /\ status' = IF status = "Terminating" THEN "Terminated" ELSE "Suspend"
  /\ cpu' = FALSE
  /\ lock' = NoOne
  /\ point' = "mark"
  /\ UNCHANGED <<claimed, pending, ripe, shared, waker, spinning>>

-----------------------------------------------------------------------------
(* The scheduler (module Scheduler): the timer preempts the thread, another*)
(* thread's yield pops it -- skipping it when it is not Ready -- and then  *)
(* switches to it.                                                         *)
Preempted ==
  /\ ~spinning /\ cpu
  /\ cpu' = FALSE
  /\ status' = IF status = "Terminating" THEN "Terminated" ELSE "Ready"
  /\ UNCHANGED <<claimed, point, pending, lock, ripe, shared, waker, spinning>>

Claim ==
  /\ ~spinning /\ ~cpu /\ ~claimed
  /\ status = "Ready"
  /\ claimed' = TRUE
  /\ UNCHANGED <<status, cpu, point, pending, lock, ripe, shared, waker, spinning>>

Resume ==
  /\ ~spinning /\ ~cpu /\ claimed
  /\ cpu' = TRUE
  /\ claimed' = FALSE
  /\ status' = IF status = "Ready" THEN "Running" ELSE status
  /\ UNCHANGED <<point, pending, lock, ripe, shared, waker, spinning>>

(* Variant: nobody is woken.                                               *)
WokenNever == status

(* wake_thread: only a suspended thread becomes Ready.                     *)
Woken == IF status = "Suspend" THEN "Ready" ELSE status

-----------------------------------------------------------------------------
(* Another thread makes the future ready and calls its waker, if it has it.*)
Ripen(w) ==
  /\ ~spinning /\ ~cpu
  /\ waker[w] = "idle"
  /\ ~ripe
  /\ ripe' = TRUE
  /\ waker' = IF shared THEN [waker EXCEPT ![w] = "lock"] ELSE waker
  /\ UNCHANGED <<threadVars, point, pending, lock, spinning, shared>>

(* A waker called without reason (wake_by_ref may always be).              *)
Spurious(w) ==
  /\ ~spinning /\ ~cpu /\ shared
  /\ waker[w] = "idle"
  /\ waker' = [waker EXCEPT ![w] = "lock"]
  /\ UNCHANGED <<threadVars, point, pending, lock, ripe, shared, spinning>>

(* wake_by_ref: pending.lock(), clear, unlock; then wake_thread.           *)
WakeLock(w) ==
  /\ ~spinning /\ ~cpu
  /\ waker[w] = "lock"
  /\ lock = NoOne
  /\ lock' = w
  /\ waker' = [waker EXCEPT ![w] = "store"]
  /\ UNCHANGED <<threadVars, point, pending, ripe, shared, spinning>>

WakeStore(w) ==
  /\ ~spinning /\ ~cpu
  /\ waker[w] = "store"
  /\ pending' = FALSE
  /\ lock' = NoOne
  /\ waker' = [waker EXCEPT ![w] = "thread"]
  /\ UNCHANGED <<threadVars, point, ripe, shared, spinning>>

WakeThread(w) ==
  /\ ~spinning /\ ~cpu
  /\ waker[w] = "thread"
  /\ status' = Woken
  /\ waker' = [waker EXCEPT ![w] = "idle"]
  /\ UNCHANGED <<cpu, claimed, point, pending, lock, ripe, shared, spinning>>

(* The waker is in SLEEP_WAKE_QUEUE and tick() calls it in the timer       *)
(* interrupt, which nothing preempts: with the lock taken it spins forever.*)
TickWakes ==
  /\ ~spinning /\ ~ripe /\ shared
  /\ ripe' = TRUE
  /\ lock = NoOne
  /\ pending' = FALSE
  /\ status' = Woken
  /\ UNCHANGED <<cpu, claimed, point, lock, waker, spinning, shared>>

TickSpins ==
  /\ ~spinning /\ ~ripe /\ shared
  /\ ripe' = TRUE
  /\ lock # NoOne
  /\ spinning' = TRUE
  /\ UNCHANGED <<threadVars, point, pending, lock, waker, shared>>

(* stop_thread on the thread in block_on().  Its registered waker is       *)
(* called, but finds the thread Terminating, not Suspend.                  *)
Stop(w) ==
  /\ ~spinning /\ ~cpu
  /\ waker[w] = "idle"
  /\ status \in {"Ready", "Suspend"}
  /\ status' = "Terminating"
  /\ waker' = [waker EXCEPT ![w] = "lock"]
  /\ UNCHANGED <<cpu, claimed, point, pending, lock, ripe, shared, spinning>>

-----------------------------------------------------------------------------
BlockOnStep == MarkLock \/ MarkStore \/ Check \/ Poll \/ TestLock \/ Continue
                 \/ Yield

WakerStep(w) == WakeLock(w) \/ WakeStore(w) \/ WakeThread(w)

SchedulerStep == Preempted \/ Claim \/ Resume

ThreadsOnly ==
  \/ BlockOnStep \/ SchedulerStep
  \/ \E w \in Wakers : Ripen(w) \/ Spurious(w) \/ WakerStep(w)

Tick == TickWakes \/ TickSpins

BlockNext ==
  \/ ThreadsOnly
  \/ Tick
  \/ \E w \in Wakers : Stop(w)

BlockSpec == BlockInit /\ [][BlockNext]_blockVars

(* Fairness: every thread that can run gets the CPU again and again, and   *)
(* uses it to get on; and a waker is called finitely often.                *)
BlockFairness ==
  /\ SF_blockVars(BlockOnStep) /\ SF_blockVars(Preempted) /\ SF_blockVars(Claim)
  /\ SF_blockVars(Resume)
  /\ \A w \in Wakers : SF_blockVars(WakerStep(w)) /\ <>[][~Spurious(w)]_blockVars

-----------------------------------------------------------------------------
(* No wake-up falls between the test of `pending' and the suspension: a    *)
(* suspended thread whose future can complete, or whose `pending' is       *)
(* cleared, has a waker on its way to wake_thread.                         *)
WakeNotLost ==
  /\ status = "Suspend" /\ ripe =>
       spinning \/ \E w \in Wakers : waker[w] # "idle"
  /\ status = "Suspend" /\ ~pending =>
       \E w \in Wakers : waker[w] = "thread"

(* Yield's promise (thread.rs:554): the lock is held until the thread is   *)
(* marked suspended, and no longer -- no suspended thread blocks a waker.  *)
SuspendedHoldsNothing ==
  status = "Suspend" => lock # Self

(* block_on() returns once its future can complete, unless its thread is   *)
(* stopped or the timer interrupt spins on the lock of `pending'.          *)
WakeReturnsUnless ==
  ripe ~> point = "ready" \/ spinning \/ status \in {"Terminating", "Terminated"}

-----------------------------------------------------------------------------
(* The strengthening of WakeNotLost and SuspendedHoldsNothing that every    *)
(* step preserves.                                                         *)

(* Who holds the spin lock, and where a thread with this status can be.    *)
PlaceInv ==
  /\ lock = Self <=> point \in {"store", "tested"}
  /\ \A w \in Wakers : lock = w <=> waker[w] = "store"
  /\ cpu => status \in {"Running", "Terminating"} /\ ~claimed
  /\ status = "Running" => cpu
  /\ claimed => status \in {"Ready", "Terminating"}
  /\ point \in {"test", "tested"} => shared
  /\ status = "Suspend" => point = "mark" /\ shared

(* From the poll that found the future pending to the wake-up, an event is *)
(* known to `pending' or to a waker that is about to clear it.             *)
EventInv ==
  (point \in {"test", "tested"} \/ status = "Suspend") /\ ripe /\ pending =>
    spinning \/ \E w \in Wakers : waker[w] \in {"lock", "store"}

(* A suspended thread that is not pending is about to be woken.            *)
WokenInv ==
  status = "Suspend" /\ ~pending => \E w \in Wakers : waker[w] = "thread"

BlockIndInv == BlockTypeOK /\ PlaceInv /\ EventInv /\ WokenInv

(* block_on() and its waker: no wake-up falls between the test of `pending' *)
(* and the suspension, and a suspended thread does not hold the lock.       *)
BlockOnSafe == BlockTypeOK /\ WakeNotLost /\ SuspendedHoldsNothing
=============================================================================
