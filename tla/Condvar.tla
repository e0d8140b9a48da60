------------------------------ MODULE Condvar -------------------------------
(***************************************************************************)
(* library/async_locks/src/condvar.rs over mutex.rs, used the way its doc  *)
(* comment asks: a task that finds no item waits and looks again, a task   *)
(* that adds one unlocks and calls wake (or wake_all).  Waiters may be     *)
(* cancelled in every state of CondvarWait.  The mutex is a semaphore with *)
(* one permit, a strict FIFO line (Semaphore.tla): releasing it hands it   *)
(* to the head of the line.                                                *)
(***************************************************************************)
EXTENDS Integers, Sequences, FiniteSets

CONSTANTS Tasks, NoTask,
          MaxWaits, \* bound: wait() futures ever polled
          MaxPuts   \* bound: items ever added

ASSUME CondvarAssumption ==
  NoTask \notin Tasks /\ IsFiniteSet(Tasks) /\ MaxWaits \in Nat /\ MaxPuts \in Nat

VARIABLES
  items,    \* the data under the mutex
  puts,     \* items added so far
  holder,   \* the task owning the mutex, polled or not
  mline,    \* the tasks in line for it
  queue,    \* Condvar.queue: waker numbers
  wstat,    \* wstat[w]: status of the w-th CondvarWaker created
  mine,     \* mine[t]: the waker of t's CondvarWait
  popped,   \* popped[t]: the waker t's wake() has popped and not yet marked
  mode,     \* mode[t]: "one", "all", or "relock": a wake() run by a drop in Relock
  tpc

cvVars == <<items, puts, holder, mline, queue, wstat, mine, popped, mode, tpc>>

Places == {"out", "locking", "in", "queued", "wait", "relock", "again", "wake", "mark", "dropLock"}

(* Items are taken only when there are some; queued wakers were created.   *)
CondvarTypeOK ==
  /\ items \in 0..MaxPuts /\ puts \in 0..MaxPuts
  /\ holder \in Tasks \union {NoTask}
  /\ mline \in Seq(Tasks)
  /\ wstat \in Seq({"WAITING", "ACQUIRED", "GIVEUP"})
  /\ queue \in Seq(1..Len(wstat))
  /\ mine \in [Tasks -> 0..Len(wstat)]
  /\ popped \in [Tasks -> 0..Len(wstat)]
  /\ mode \in [Tasks -> {"one", "all", "relock"}]
  /\ tpc \in [Tasks -> Places]

cvInit ==
  /\ items = 0 /\ puts = 0
  /\ holder = NoTask /\ mline = <<>>
  /\ queue = <<>> /\ wstat = <<>>
  /\ mine = [t \in Tasks |-> 0]
  /\ popped = [t \in Tasks |-> 0]
  /\ mode = [t \in Tasks |-> "one"]
  /\ tpc = [t \in Tasks |-> "out"]

Jump(t, step) == tpc' = [tpc EXCEPT ![t] = step]

(* First poll of a MutexLockFuture: the lock is free, or t joins the line. *)
LockPoll(t, owning, waiting) ==
  IF holder = NoTask
  THEN holder' = t /\ Jump(t, owning) /\ UNCHANGED mline
  ELSE mline' = Append(mline, t) /\ Jump(t, waiting) /\ UNCHANGED holder

(* Drop of a MutexGuard. *)
Unlock ==
  IF mline = <<>>
  THEN holder' = NoTask /\ UNCHANGED mline
  ELSE holder' = Head(mline) /\ mline' = Tail(mline)

Without(s, k) == [j \in 1..(Len(s) - 1) |-> IF j < k THEN s[j] ELSE s[j + 1]]

(* Drop of a MutexLockFuture: give a granted lock back or leave the line. *)
DropLocking(t) ==
  IF holder = t THEN Unlock
  ELSE /\ \E k \in DOMAIN mline : mline[k] = t /\ mline' = Without(mline, k)
       /\ UNCHANGED holder

Lock(t) ==
  /\ tpc[t] = "out"
  /\ LockPoll(t, "in", "locking")
  /\ UNCHANGED <<items, puts, queue, wstat, mine, popped, mode>>

Locked(t) ==
  /\ tpc[t] \in {"locking", "relock"} /\ holder = t
  /\ Jump(t, IF tpc[t] = "relock" THEN "again" ELSE "in")
  /\ UNCHANGED <<items, puts, holder, mline, queue, wstat, mine, popped, mode>>

CancelLock(t) ==
  /\ tpc[t] = "locking"
  /\ DropLocking(t)
  /\ Jump(t, "out")
  /\ UNCHANGED <<items, puts, queue, wstat, mine, popped, mode>>

(* Client code under the guard: a task that comes back from a wait ("again") *)
(* looks for an item again, it has nothing to add.                           *)
Take(t) ==
  /\ tpc[t] \in {"in", "again"} /\ items > 0
  /\ items' = items - 1
  /\ Unlock /\ Jump(t, "out")
  /\ UNCHANGED <<puts, queue, wstat, mine, popped, mode>>

Put(t) ==
  /\ tpc[t] = "in" /\ puts < MaxPuts
  /\ items' = items + 1 /\ puts' = puts + 1
  /\ Unlock /\ Jump(t, "wake")
  /\ mode' \in {[mode EXCEPT ![t] = m] : m \in {"one", "all"}}
  /\ UNCHANGED <<queue, wstat, mine, popped>>

(* Poll of CondvarWait in Init: push a new waker ... *)
WaitInit(t) ==
  /\ tpc[t] \in {"in", "again"} /\ items = 0 /\ Len(wstat) < MaxWaits
  /\ wstat' = Append(wstat, "WAITING")
  /\ queue' = Append(queue, Len(wstat'))
  /\ mine' = [mine EXCEPT ![t] = Len(wstat')]
  /\ Jump(t, "queued")
  /\ UNCHANGED <<items, puts, holder, mline, popped, mode>>

(* ... and only then overwrite Init, which drops the guard. *)
WaitUnlock(t) ==
  /\ tpc[t] = "queued"
  /\ Unlock /\ Jump(t, "wait")
  /\ UNCHANGED <<items, puts, queue, wstat, mine, popped, mode>>

(* Poll in Wait after the wake: lock again. *)
WaitPoll(t) ==
  /\ tpc[t] = "wait" /\ wstat[mine[t]] = "ACQUIRED"
  /\ LockPoll(t, "again", "relock")
  /\ mine' = [mine EXCEPT ![t] = 0]
  /\ UNCHANGED <<items, puts, queue, wstat, popped, mode>>

(* Variant: a cancelled waiter keeps the wake it was given. *)
CancelWaitKeep(t) ==
  /\ tpc[t] = "wait"
  /\ wstat' = [wstat EXCEPT ![mine[t]] = "GIVEUP"]
  /\ mode' = [mode EXCEPT ![t] = "one"]
  /\ mine' = [mine EXCEPT ![t] = 0]
  /\ Jump(t, "out")
  /\ UNCHANGED <<items, puts, holder, mline, queue, popped>>

(* Drop of CondvarWait in Wait: pass the wake on if it has arrived. *)
CancelWait(t) ==
  /\ tpc[t] = "wait"
  /\ wstat' = [wstat EXCEPT ![mine[t]] = "GIVEUP"]
  /\ mode' = [mode EXCEPT ![t] = "one"]
  /\ mine' = [mine EXCEPT ![t] = 0]
  /\ Jump(t, IF wstat[mine[t]] = "ACQUIRED" THEN "wake" ELSE "out")
  /\ UNCHANGED <<items, puts, holder, mline, queue, popped>>

(* Drop in Relock: wake another one, then drop the MutexLockFuture. *)
CancelRelock(t) ==
  /\ tpc[t] = "relock"
  /\ mode' = [mode EXCEPT ![t] = "relock"]
  /\ Jump(t, "wake")
  /\ UNCHANGED <<items, puts, holder, mline, queue, wstat, mine, popped>>

DropLock(t) ==
  /\ tpc[t] = "dropLock"
  /\ DropLocking(t)
  /\ Jump(t, "out")
  /\ UNCHANGED <<items, puts, queue, wstat, mine, popped, mode>>

WakeDone(t) == Jump(t, IF mode[t] = "relock" THEN "dropLock" ELSE "out")

(* wake and wake_all: pop under the spin lock ... *)
WakePop(t) ==
  /\ tpc[t] = "wake"
  /\ IF queue = <<>>
     THEN WakeDone(t) /\ UNCHANGED <<queue, popped>>
     ELSE /\ popped' = [popped EXCEPT ![t] = Head(queue)]
          /\ queue' = Tail(queue)
          /\ Jump(t, "mark")
  /\ UNCHANGED <<items, puts, holder, mline, wstat, mine, mode>>

(* ... then mark and wake the waiter, unless it has given up. *)
WakeMark(t) ==
  /\ tpc[t] = "mark"
  /\ IF wstat[popped[t]] = "WAITING"
     THEN /\ wstat' = [wstat EXCEPT ![popped[t]] = "ACQUIRED"]
          /\ IF mode[t] = "all" THEN Jump(t, "wake") ELSE WakeDone(t)
     ELSE Jump(t, "wake") /\ UNCHANGED wstat
  /\ popped' = [popped EXCEPT ![t] = 0]
  /\ UNCHANGED <<items, puts, holder, mline, queue, mine, mode>>

cvNext ==
  \E t \in Tasks :
    \/ Lock(t) \/ Locked(t) \/ CancelLock(t) \/ Take(t) \/ Put(t)
    \/ WaitInit(t) \/ WaitUnlock(t) \/ WaitPoll(t)
    \/ CancelWait(t) \/ CancelRelock(t) \/ DropLock(t)
    \/ WakePop(t) \/ WakeMark(t)

cvSpec == cvInit /\ [][cvNext]_cvVars
-----------------------------------------------------------------------------
(* Every task is outside or asleep in a wait nobody has woken. *)
Quiet ==
  \A t \in Tasks : tpc[t] = "out" \/ (tpc[t] = "wait" /\ wstat[mine[t]] = "WAITING")

(* No wake is lost, whichever waiters are cancelled and whenever: when all  *)
(* calls have run out, nobody sleeps while an item is there to be taken     *)
(* ("a woken CondvarWait tries to wake another one from the queue").        *)
NoSleepOnItems ==
  Quiet /\ items > 0 => \A t \in Tasks : tpc[t] = "out"

(* Under the guard is the owner of the mutex, also after a wait that was    *)
(* raced for by fresh lockers; everyone else who asked for it is in line.   *)
Asking(t) ==
  \/ tpc[t] \in {"locking", "relock", "dropLock"}
  \/ tpc[t] \in {"wake", "mark"} /\ mode[t] = "relock"

Under(t) == tpc[t] \in {"in", "again", "queued"}

GuardOwned ==
  \A t \in Tasks :
    /\ Under(t) => holder = t
    /\ Asking(t) => holder = t \/ \E k \in DOMAIN mline : mline[k] = t

-----------------------------------------------------------------------------
(* The inductive invariant behind them.                                     *)

(* In line is who asks, once.                                               *)
MutexInv ==
  /\ \A k \in DOMAIN mline : Asking(mline[k]) /\ mline[k] # holder
  /\ \A j, k \in DOMAIN mline : mline[j] = mline[k] => j = k
  /\ holder \in Tasks => Asking(holder) \/ Under(holder)
  /\ holder = NoTask => mline = <<>>

(* Every waker that waits belongs to one wait() and is queued, or in the    *)
(* hands of a wake() that will look at it.                                  *)
WakerInv ==
  /\ \A t \in Tasks : mine[t] # 0 <=> tpc[t] \in {"queued", "wait"}
  /\ \A t \in Tasks : popped[t] # 0 <=> tpc[t] = "mark"
  /\ \A t, u \in Tasks : mine[t] # 0 /\ mine[t] = mine[u] => t = u
  /\ \A w \in DOMAIN wstat : wstat[w] = "WAITING" =>
       /\ \E t \in Tasks : mine[t] = w
       /\ \/ \E i \in DOMAIN queue : queue[i] = w
          \/ \E t \in Tasks : popped[t] = w

(* The tasks that carry a wake: they will look for an item or wake another. *)
Carriers ==
  {t \in Tasks : \/ tpc[t] \in {"wake", "mark", "relock", "again"}
                 \/ tpc[t] \in {"queued", "wait"} /\ wstat[mine[t]] = "ACQUIRED"}

(* As long as somebody sleeps, there is a carrier for every item.           *)
ItemsCarried ==
  (\E i \in DOMAIN queue : wstat[queue[i]] = "WAITING") => items <= Cardinality(Carriers)

CondvarInv ==
  /\ CondvarTypeOK /\ items <= puts
  /\ GuardOwned /\ MutexInv /\ WakerInv /\ ItemsCarried

(* CondvarWait in all its states: items are not taken twice, the guard is  *)
(* back when the wait is over, and no wake is lost, whichever waiters are  *)
(* cancelled and whenever.                                                 *)
CondvarSafe == CondvarTypeOK /\ NoSleepOnItems /\ GuardOwned
=============================================================================
