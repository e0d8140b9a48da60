----------------------------- MODULE AsyncRuntime -----------------------------
(***************************************************************************)
(* The kernel's asynchronous runtime (kernel/src/multitask/async_rt.rs):   *)
(* run(), the loop of the kernel thread that polls the tasks; spawn(); and *)
(* WakerInner::wake_by_ref, called by interrupt handlers and by other      *)
(* threads.  Critical sections under IrqGuard::cli() and the RUNTIME lock  *)
(* are single actions.  The lock itself is visible at one point only: run()*)
(* drops its IrqGuard before the lock when it has popped a task, so the    *)
(* kernel thread can be interrupted while it holds it.                     *)
(***************************************************************************)
EXTENDS Integers, Sequences, FiniteSets

CONSTANTS Tasks,     \* the futures given to spawn()
          Callers,   \* contexts that spawn and wake: handlers, threads
          NoTask     \* "no task"

ASSUME RuntimeAssumption == NoTask \notin Tasks

VARIABLES
  life,      \* of each task: "unborn", "alive", or "done" (its Arc is gone)
  flag,      \* Task.status: woken since it was last polled
  event,     \* what the task's future waits for has happened
  ready,     \* Runtimer.ready
  suspend,   \* Runtimer.suspend
  pc,        \* where the kernel thread is in run()
  task,      \* the task run() has popped
  kernel,    \* ThreadStatus of the kernel thread, off or on the CPU
  caller,    \* per caller: what it still has to do
  hung       \* a caller spins on RUNTIME with interrupts off, for ever

vars == <<life, flag, event, ready, suspend, pc, task, kernel, caller, hung>>

(* The queues hold tasks, and the kernel thread and the callers are at a   *)
(* point of the code.                                                      *)
TypeOK ==
  /\ life \in [Tasks -> {"unborn", "alive", "done"}]
  /\ flag \in [Tasks -> BOOLEAN]
  /\ event \in [Tasks -> BOOLEAN]
  /\ ready \in Seq(Tasks)
  /\ suspend \subseteq Tasks
  /\ pc \in {"pop", "unlock", "clear", "poll", "put"}
  /\ task \in Tasks \cup {NoTask}
  /\ kernel \in {"Running", "Ready", "Suspend"}
  /\ caller \in [Callers -> [do : {"idle", "wake", "thread"},
                             task : Tasks \cup {NoTask}]]
  /\ hung \in BOOLEAN

Idle == [do |-> "idle", task |-> NoTask]

Init ==
  /\ life = [t \in Tasks |-> "unborn"]
  /\ flag = [t \in Tasks |-> TRUE]
  /\ event = [t \in Tasks |-> FALSE]
  /\ ready = <<>>
  /\ suspend = {}
  /\ pc = "pop"
  /\ task = NoTask
  /\ kernel = "Running"
  /\ caller = [c \in Callers |-> Idle]
  /\ hung = FALSE

(* RUNTIME is locked while its holder can be interrupted.                  *)
Locked == pc = "unlock"

-----------------------------------------------------------------------------
(* spawn(): the task goes to the ready queue, then the kernel thread is    *)
(* woken.                                                                  *)
Spawn(c, t) ==
  /\ caller[c].do = "idle"
  /\ life[t] = "unborn"
  /\ ~Locked
  /\ life' = [life EXCEPT ![t] = "alive"]
  /\ ready' = Append(ready, t)
  /\ caller' = [caller EXCEPT ![c] = [do |-> "thread", task |-> NoTask]]
  /\ UNCHANGED <<flag, event, suspend, pc, task, kernel, hung>>

(* What a task waits for happens; its waker is about to be called.  A      *)
(* waker can be called at any time, also without reason or after the task  *)
(* is done.                                                                *)
Happen(c, t) ==
  /\ caller[c].do = "idle"
  /\ life[t] # "unborn"
  /\ event' = [event EXCEPT ![t] = TRUE]
  /\ caller' = [caller EXCEPT ![c] = [do |-> "wake", task |-> t]]
  /\ UNCHANGED <<life, flag, ready, suspend, pc, task, kernel, hung>>

(* wake_by_ref: marks the task and moves it from suspend to ready.  Only   *)
(* then is the kernel thread woken.                                        *)
WakeByRef(c) ==
  LET t == caller[c].task
      moves == life[t] = "alive" /\ t \in suspend
  IN /\ caller[c].do = "wake"
     /\ ~Locked
     /\ flag' = IF life[t] = "alive" THEN [flag EXCEPT ![t] = TRUE] ELSE flag
     /\ suspend' = suspend \ {t}
     /\ ready' = IF moves THEN Append(ready, t) ELSE ready
     /\ caller' = [caller EXCEPT
                     ![c] = IF moves THEN [do |-> "thread", task |-> NoTask]
                                     ELSE Idle]
     /\ UNCHANGED <<life, event, pc, task, kernel, hung>>

(* Variant: the status of the kernel thread is left as it is.              *)
WakeKernelThreadNot(c) ==
  /\ caller[c].do = "thread"
  /\ caller' = [caller EXCEPT ![c] = Idle]
  /\ UNCHANGED <<life, flag, event, ready, suspend, pc, task, kernel, hung>>

(* wake_kernel_thread: Suspend becomes Ready, anything else stays.         *)
WakeKernelThread(c) ==
  /\ caller[c].do = "thread"
  /\ kernel' = IF kernel = "Suspend" THEN "Ready" ELSE kernel
  /\ caller' = [caller EXCEPT ![c] = Idle]
  /\ UNCHANGED <<life, flag, event, ready, suspend, pc, task, hung>>

(* A caller that needs RUNTIME while the interrupted kernel thread holds   *)
(* it: it has masked interrupts, so the holder never runs again.           *)
Spin(c) ==
  /\ Locked
  /\ \/ caller[c].do = "wake"
     \/ caller[c].do = "idle" /\ \E t \in Tasks : life[t] = "unborn"
  /\ hung' = TRUE
  /\ UNCHANGED <<life, flag, event, ready, suspend, pc, task, kernel, caller>>

-----------------------------------------------------------------------------
(* run(): pops a task under the lock ...                                   *)
Pop ==
  /\ kernel = "Running" /\ pc = "pop"
  /\ ready # <<>>
  /\ task' = Head(ready)
  /\ ready' = Tail(ready)
  /\ pc' = "unlock"
  /\ UNCHANGED <<life, flag, event, suspend, kernel, caller, hung>>

(* ... or, finding none, yields with the lock held and interrupts masked;  *)
(* the Yield callback releases the lock once the thread is Suspend.        *)
Sleep ==
  /\ kernel = "Running" /\ pc = "pop"
  /\ ready = <<>>
  /\ kernel' = "Suspend"
  /\ UNCHANGED <<life, flag, event, ready, suspend, pc, task, caller, hung>>

(* drop((guard, rt)): interrupts are back on, now the lock is released.    *)
Unlock ==
  /\ kernel = "Running" /\ pc = "unlock"
  /\ pc' = "clear"
  /\ UNCHANGED <<life, flag, event, ready, suspend, task, kernel, caller, hung>>

(* The task's status is cleared outside the lock.                          *)
Clear ==
  /\ kernel = "Running" /\ pc = "clear"
  /\ flag' = [flag EXCEPT ![task] = FALSE]
  /\ pc' = "poll"
  /\ UNCHANGED <<life, event, ready, suspend, task, kernel, caller, hung>>

(* poll: Pending when nothing has happened, or with the event consumed and *)
(* another one to wait for; or Ready, and the task is dropped.             *)
PollPending ==
  /\ kernel = "Running" /\ pc = "poll"
  /\ ~event[task]
  /\ pc' = "put"
  /\ UNCHANGED <<life, flag, event, ready, suspend, task, kernel, caller, hung>>

PollAgain ==
  /\ kernel = "Running" /\ pc = "poll"
  /\ event[task]
  /\ event' = [event EXCEPT ![task] = FALSE]
  /\ pc' = "put"
  /\ UNCHANGED <<life, flag, ready, suspend, task, kernel, caller, hung>>

PollReady ==
  /\ kernel = "Running" /\ pc = "poll"
  /\ life' = [life EXCEPT ![task] = "done"]
  /\ task' = NoTask
  /\ pc' = "pop"
  /\ UNCHANGED <<flag, event, ready, suspend, kernel, caller, hung>>

(* Variant: the status is not loaded again under the lock.                 *)
PutBackBlind ==
  /\ kernel = "Running" /\ pc = "put"
  /\ suspend' = suspend \cup {task}
  /\ task' = NoTask
  /\ pc' = "pop"
  /\ UNCHANGED <<life, flag, event, ready, kernel, caller, hung>>

(* A pending task that was woken meanwhile is ready again, else suspended. *)
PutBack ==
  /\ kernel = "Running" /\ pc = "put"
  /\ IF flag[task]
       THEN ready' = Append(ready, task) /\ UNCHANGED suspend
       ELSE suspend' = suspend \cup {task} /\ UNCHANGED ready
  /\ task' = NoTask
  /\ pc' = "pop"
  /\ UNCHANGED <<life, flag, event, kernel, caller, hung>>

(* The scheduler takes the CPU from the kernel thread, which holds it with *)
(* interrupts on, and gives it the CPU when it is Ready (module Scheduler).*)
Preempt ==
  /\ kernel = "Running"
  /\ kernel' = "Ready"
  /\ UNCHANGED <<life, flag, event, ready, suspend, pc, task, caller, hung>>

Dispatch ==
  /\ kernel = "Ready"
  /\ kernel' = "Running"
  /\ UNCHANGED <<life, flag, event, ready, suspend, pc, task, caller, hung>>

-----------------------------------------------------------------------------
RunStep == Pop \/ Sleep \/ Unlock \/ Clear \/ PollPending \/ PollAgain
             \/ PollReady \/ PutBack

CallerStep(c) == WakeByRef(c) \/ WakeKernelThread(c)

Next ==
  /\ ~hung
  /\ \/ RunStep \/ Preempt \/ Dispatch
     \/ \E c \in Callers :
          \/ CallerStep(c) \/ Spin(c)
          \/ \E t \in Tasks : Spawn(c, t) \/ Happen(c, t)

Spec == Init /\ [][Next]_vars

(* Fairness: callers finish what they do, a Ready kernel thread gets the   *)
(* CPU (module Scheduler) and, though it can be preempted again and again, *)
(* gets on with run().                                                     *)
RuntimeFairness ==
  /\ SF_vars(~hung /\ RunStep)
  /\ WF_vars(~hung /\ Dispatch)
  /\ \A c \in Callers : SF_vars(~hung /\ CallerStep(c))

-----------------------------------------------------------------------------
(* A live task is in exactly one place: in the ready queue, in the suspend *)
(* map, or in the hands of run().  A task in two places would be polled    *)
(* through two &mut references; a task in none would never run again.      *)
OnePlace ==
  /\ \A i, j \in 1..Len(ready) : ready[i] = ready[j] => i = j
  /\ \A i \in 1..Len(ready) : ready[i] \notin suspend \cup {task}
  /\ task \notin suspend
  /\ \A t \in Tasks :
       life[t] = "alive" <=> \/ \E i \in 1..Len(ready) : ready[i] = t
                            \/ t \in suspend
                            \/ t = task

(* No wake-up is lost: a suspended task whose event has happened still has *)
(* a waker on its way, although run() clears the status outside the lock.  *)
NoLostWake ==
  \A t \in suspend :
    event[t] => \E c \in Callers : caller[c] = [do |-> "wake", task |-> t]

(* The kernel thread does not sleep on work: when it is suspended and a    *)
(* task is ready, somebody is about to wake it.                            *)
KernelNotAsleep ==
  kernel = "Suspend" /\ ready # <<>> =>
    \E c \in Callers : caller[c].do = "thread"

(* Every event reaches its task: it is consumed by a poll or the task is   *)
(* done, unless run() is interrupted with RUNTIME locked and it hangs.     *)
EventsArrive ==
  \A t \in Tasks :
    event[t] /\ life[t] = "alive" ~> ~event[t] \/ life[t] = "done" \/ hung

-----------------------------------------------------------------------------
(* The strengthening of OnePlace, NoLostWake and KernelNotAsleep that every*)
(* step preserves.                                                         *)
RunInv ==
  /\ task = NoTask <=> pc = "pop"
  /\ kernel = "Suspend" => pc = "pop"
  /\ pc = "put" /\ event[task] /\ ~flag[task] =>
       \E c \in Callers : caller[c] = [do |-> "wake", task |-> task]

CallerInv ==
  \A c \in Callers : caller[c].do = "wake" => caller[c].task \in Tasks

IndInv == TypeOK /\ RunInv /\ CallerInv /\ OnePlace /\ NoLostWake
            /\ KernelNotAsleep

(* run() and its wakers: a live task is in exactly one place, a suspended  *)
(* task whose event has happened has a waker on its way, and the kernel    *)
(* thread does not sleep on work.                                          *)
RuntimeSafe == TypeOK /\ OnePlace /\ NoLostWake /\ KernelNotAsleep
=============================================================================
