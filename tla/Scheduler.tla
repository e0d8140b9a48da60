------------------------------ MODULE Scheduler ------------------------------
(***************************************************************************)
(* The thread scheduler of the kernel (kernel/src/multitask/thread.rs) on  *)
(* its single CPU, with the timer interrupt that preempts it               *)
(* (kernel/src/trap/hard.rs).                                              *)
(*                                                                         *)
(* Code between IrqGuard::cli() and the guard's drop runs undisturbed: one *)
(* action.  thread_yield_internal drops its first guard after it has taken *)
(* the next thread out of READY_THREADS and masks interrupts again only to *)
(* switch, so the timer may come in between and run a yield of its own on  *)
(* top of the interrupted one.  frames[t] is the stack of yields thread t  *)
(* is inside of, innermost last; `next' is the thread that yield has       *)
(* claimed and not yet switched to.                                        *)
(***************************************************************************)
EXTENDS Integers, Sequences, FiniteSets

CONSTANTS Threads,    \* every thread but the idle one
          Kernel,     \* the thread of the async runtime
          Idle,       \* the idle thread
          None,       \* "no thread"
          MaxDepth    \* how many yields are nested at most on one stack

ASSUME SchedulerAssumption ==
  /\ Kernel \in Threads
  /\ Idle \notin Threads
  /\ None \notin Threads \cup {Idle}
  /\ MaxDepth \in Nat \ {0}

All == Threads \cup {Idle}

VARIABLES
  status,      \* Thread.status; "absent" before create_thread
  registered,  \* the keys of THREADS
  ready,       \* READY_THREADS
  terminated,  \* TERMINATED_THREADS
  current,     \* the per-CPU current thread
  frames       \* the yields in progress on each thread's stack

vars == <<status, registered, ready, terminated, current, frames>>

Statuses == {"absent", "Ready", "Running", "Suspend", "Terminating",
             "Terminated"}

Frame == [suspend : BOOLEAN, next : All \cup {None}]

(* Threads have a status, yields that are nested hold threads or none.     *)
TypeOK ==
  /\ status \in [All -> Statuses]
  /\ registered \subseteq All
  /\ ready \in Seq(Threads)
  /\ terminated \in Seq(Threads)
  /\ current \in All
  /\ frames \in [All -> Seq(Frame)]

(* kmain: the running code becomes the kernel thread, the idle thread is   *)
(* created next to it (as Running, though it is not on the CPU).           *)
Init ==
  /\ status = [t \in All |-> IF t \in {Kernel, Idle} THEN "Running"
                                                     ELSE "absent"]
  /\ registered = {Kernel, Idle}
  /\ ready = <<>>
  /\ terminated = <<>>
  /\ current = Kernel
  /\ frames = [t \in All |-> <<>>]

Top(t) == frames[t][Len(frames[t])]

(* run() calls thread_yield_with while its own IrqGuard is alive.          *)
Masked == current = Kernel /\ frames[Kernel] # <<>> /\ Top(Kernel).suspend

(* Code of the current thread outside any yield.                           *)
Executing(t) == current = t /\ frames[t] = <<>>

-----------------------------------------------------------------------------
(* create_thread: registered, and queued unless it is created suspended.   *)
CreateThread(x, initialSuspend) ==
  /\ \E t \in Threads : Executing(t)
  /\ status[x] = "absent"
  /\ status' = [status EXCEPT ![x] = IF initialSuspend THEN "Suspend"
                                                       ELSE "Ready"]
  /\ registered' = registered \cup {x}
  /\ ready' = IF initialSuspend THEN ready ELSE Append(ready, x)
  /\ UNCHANGED <<terminated, current, frames>>

(* Variant: a thread that is already Ready is queued once more.            *)
WakeThreadTwice(x) ==
  /\ ~Masked
  /\ status[x] \in {"Suspend", "Ready"}
  /\ status' = [status EXCEPT ![x] = "Ready"]
  /\ ready' = Append(ready, x)
  /\ UNCHANGED <<registered, terminated, current, frames>>

(* Variant: the woken thread is not queued.                                *)
WakeThreadUnqueued(x) ==
  /\ ~Masked
  /\ status[x] = "Suspend"
  /\ status' = [status EXCEPT ![x] = "Ready"]
  /\ UNCHANGED <<registered, ready, terminated, current, frames>>

(* wake_thread, from a thread or from an interrupt handler.                *)
WakeThread(x) ==
  /\ ~Masked
  /\ status[x] = "Suspend"
  /\ status' = [status EXCEPT ![x] = "Ready"]
  /\ ready' = Append(ready, x)
  /\ UNCHANGED <<registered, terminated, current, frames>>

(* stop_thread, called by the system calls exit_thread, exit_process,      *)
(* kill_thread and kill_process and by the fault handlers.  The waker it   *)
(* calls ends in wake_thread, which finds the status Terminating and does  *)
(* nothing.                                                                *)
StopThread(x) ==
  /\ \E t \in Threads \ {Kernel} : Executing(t)
  /\ x \in registered
  /\ status[x] \notin {"Terminated", "Terminating"}
  /\ status' = [status EXCEPT ![x] = "Terminating"]
  /\ UNCHANGED <<registered, ready, terminated, current, frames>>

-----------------------------------------------------------------------------
(* The first half of thread_yield_internal and of try_yield_thread: pops   *)
(* READY_THREADS until an entry is Ready.  With no such entry only a       *)
(* suspending yield goes on.                                               *)
PopNext(t, suspend) ==
  \/ \E k \in 1..Len(ready) :
       /\ status[ready[k]] = "Ready"
       /\ \A j \in 1..(k - 1) : status[ready[j]] # "Ready"
       /\ ready' = SubSeq(ready, k + 1, Len(ready))
       /\ frames' = [frames EXCEPT
                       ![t] = Append(@, [suspend |-> suspend,
                                         next    |-> ready[k]])]
  \/ /\ \A j \in 1..Len(ready) : status[ready[j]] # "Ready"
     /\ ready' = <<>>
     /\ frames' = IF suspend
                    THEN [frames EXCEPT
                            ![t] = Append(@, [suspend |-> TRUE,
                                              next    |-> None])]
                    ELSE frames

(* thread_yield(true) or thread_yield_with by the current thread.          *)
ThreadYield(t) ==
  /\ t # Idle
  /\ Executing(t)
  /\ PopNext(t, TRUE)
  /\ UNCHANGED <<status, registered, terminated, current>>

(* The timer interrupt preempts the current thread with thread_yield(false)*)
(* wherever interrupts are on, another yield included.  The loop of the    *)
(* idle thread calls try_yield_thread, which does the same.                *)
TimerYield(t) ==
  /\ current = t
  /\ ~Masked
  /\ Len(frames[t]) < MaxDepth
  /\ PopNext(t, FALSE)
  /\ UNCHANGED <<status, registered, terminated, current>>

(* A suspending yield that found nobody takes the idle thread.             *)
PickIdle(t) ==
  /\ current = t
  /\ frames[t] # <<>>
  /\ Top(t).suspend /\ Top(t).next = None
  /\ frames' = [frames EXCEPT ![t][Len(frames[t])].next = Idle]
  /\ UNCHANGED <<status, registered, ready, terminated, current>>

(* Variant: a thread that is being stopped is not terminated.              *)
StatusOffAlive(t, suspend) == IF suspend THEN "Suspend" ELSE "Ready"

(* deal_old_thread: the status of a thread that leaves the CPU.            *)
StatusOff(t, suspend) ==
  IF status[t] = "Terminating" THEN "Terminated"
  ELSE IF suspend THEN "Suspend" ELSE "Ready"

(* deal_old_thread: a thread that stays Ready is queued, the idle one not. *)
ReadyOff(t, off) ==
  IF off = "Ready" /\ t # Idle THEN Append(ready, t) ELSE ready

(* deal_new_thread: the status of a thread that gets the CPU.              *)
StatusOn(n) == IF status[n] = "Ready" THEN "Running" ELSE status[n]

(* switch_thread: deal_old_thread, deal_new_thread and, when the new       *)
(* thread resumes inside a switch_thread of its own, the clean-up at its   *)
(* end and the return to the code below.  The push to TERMINATED_THREADS   *)
(* is skipped when no memory can be reserved for it.                       *)
SwitchThread(t) ==
  /\ current = t
  /\ frames[t] # <<>>
  /\ Top(t).next # None
  /\ LET n       == Top(t).next
         off     == StatusOff(t, Top(t).suspend)
         resumes == frames[n] # <<>>
     IN /\ status' = [status EXCEPT ![t] = off, ![n] = StatusOn(n)]
        /\ ready' = ReadyOff(t, off)
        /\ \E dead \in (IF off = "Terminated" /\ t # Idle
                          THEN {terminated, Append(terminated, t)}
                          ELSE {terminated}) :
             /\ terminated' = IF resumes THEN <<>> ELSE dead
             /\ registered' = IF resumes
                                THEN registered \ {dead[i] : i \in 1..Len(dead)}
                                ELSE registered
        /\ frames' = [frames EXCEPT
                        ![t][Len(frames[t])].next = None,
                        ![n] = IF resumes THEN SubSeq(@, 1, Len(@) - 1) ELSE @]
        /\ current' = n

-----------------------------------------------------------------------------
YieldStep(t) == PickIdle(t) \/ SwitchThread(t)

Next ==
  \/ \E x \in Threads :
       \/ \E s \in BOOLEAN : CreateThread(x, s)
       \/ WakeThread(x)
       \/ x # Kernel /\ StopThread(x)
  \/ \E t \in All : ThreadYield(t) \/ TimerYield(t) \/ YieldStep(t)

Spec == Init /\ [][Next]_vars

(* Fairness: the CPU finishes the kernel code it is in, and the timer      *)
(* keeps ticking (the idle thread keeps looping).  A yield can be          *)
(* preempted every time it is about to switch, but the window between its  *)
(* pop and its switch is far shorter than a timer period, so that the      *)
(* timer does not hit it each time: strong fairness, at every depth.       *)
(* A thread that is being stopped yields for good at its next return to    *)
(* user mode (boundry_check).                                              *)
Fairness ==
  \A t \in All :
    /\ \A d \in 1..MaxDepth : SF_vars(Len(frames[t]) = d /\ YieldStep(t))
    /\ WF_vars(TimerYield(t))
    /\ WF_vars(status[t] = "Terminating" /\ ThreadYield(t))

LiveSpec == Spec /\ Fairness

-----------------------------------------------------------------------------
(* One CPU, one running thread: the current thread is Running (or being    *)
(* stopped), and no other thread believes it is.                           *)
OneRunning ==
  /\ status[current] \in {"Running", "Terminating"}
  /\ \A t \in Threads : status[t] = "Running" => t = current

(* The places that will make the scheduler switch to t: entries of         *)
(* READY_THREADS, and yields that have popped it.                          *)
Claims(t) ==
  ({None} \X {i \in 1..Len(ready) : ready[i] = t})
    \cup UNION {{u} \X {i \in 1..Len(frames[u]) : frames[u][i].next = t} : u \in All}

(* A Ready thread is queued or claimed exactly once, whatever yields are   *)
(* nested and whoever is woken meanwhile: it can be neither scheduled      *)
(* twice nor forgotten by the queue.  A thread that is running, waiting or *)
(* dead is not about to be switched to.                                    *)
ClaimedOnce ==
  \A t \in Threads :
    /\ status[t] = "Ready" => Claims(t) # {}
    /\ status[t] \in {"Ready", "Terminating"} => \A c, d \in Claims(t) : c = d
    /\ status[t] \in {"absent", "Running", "Suspend", "Terminated"}
         => Claims(t) = {}

(* The obligation of switch_thread's caller: when a yield is about to      *)
(* switch, its target is another thread, still registered in THREADS, off  *)
(* the CPU and not Terminated.                                             *)
SafeSwitch ==
  (frames[current] # <<>> /\ Top(current).next # None) =>
    LET n == Top(current).next
    IN /\ n # current
       /\ n \in registered
       /\ n \in Threads => status[n] \in {"Ready", "Terminating"}

(* A thread is destroyed only after it has left the CPU for good: the      *)
(* current thread, and every thread that can still run, is in THREADS.     *)
OnlyDeadDestroyed ==
  \A t \in All \ registered : status[t] \in {"absent", "Terminated"}

(* The idle thread was preempted between its pop and its switch.  Off the  *)
(* CPU it is in no queue: it returns, and with it the thread it popped,    *)
(* only when some thread suspends and READY_THREADS is empty.              *)
IdleHolds ==
  current # Idle /\ \E i \in 1..Len(frames[Idle]) : frames[Idle][i].next # None

SomeoneStopped ==
  \E u \in Threads : status[u] \in {"Terminating", "Terminated"}

(* While nobody is stopped, every Ready thread gets the CPU, unless the    *)
(* idle thread was preempted with a thread in its hands.                   *)
ReadyRunsUnlessHeld ==
  \A t \in Threads :
    status[t] = "Ready" ~> current = t \/ IdleHolds \/ SomeoneStopped

(* exit_thread works: a thread that is stopped while it has the CPU leaves *)
(* it for good, whatever its yields were interrupted by.                   *)
ExitCompletes ==
  \A t \in Threads :
    status[t] = "Terminating" /\ current = t ~> status[t] = "Terminated"

(* "Whatever the state of the target thread, stop it and reclaim its       *)
(* resources" (kill_thread, cos-sys/src/multitask.rs:70).                  *)
KilledIsReclaimed ==
  \A t \in Threads : status[t] = "Terminating" ~> status[t] = "Terminated"

-----------------------------------------------------------------------------
(* The strengthening of SchedulerSafe that every step preserves.           *)

(* The queue holds each thread once, and only threads that wait for the    *)
(* CPU; nested yields hold threads that are neither queued nor held by     *)
(* another yield.                                                          *)
QueueInv ==
  /\ \A i \in 1..Len(ready) :
       /\ status[ready[i]] \in {"Ready", "Terminating"} /\ ready[i] # current
       /\ \A j \in 1..Len(ready) : ready[i] = ready[j] => i = j
  /\ \A u \in All : \A i \in 1..Len(frames[u]) : frames[u][i].next \in Threads =>
       /\ status[frames[u][i].next] \in {"Ready", "Terminating"}
       /\ frames[u][i].next # current
       /\ \A j \in 1..Len(ready) : ready[j] # frames[u][i].next
       /\ \A v \in All : \A j \in 1..Len(frames[v]) :
            frames[u][i].next = frames[v][j].next => u = v /\ i = j

(* A Ready thread is in the queue or held by a yield.                      *)
ReadyKept ==
  \A t \in Threads : status[t] = "Ready" =>
    \/ \E i \in 1..Len(ready) : ready[i] = t
    \/ \E u \in All : \E i \in 1..Len(frames[u]) : frames[u][i].next = t

(* A yield that was switched away from holds nobody; the idle thread never *)
(* suspends and only a suspending yield takes the idle thread.             *)
FrameInv ==
  /\ \A u \in All \ {current} : frames[u] # <<>> => Top(u).next = None
  /\ \A u \in All : \A i \in 1..Len(frames[u]) :
       /\ u = Idle => ~frames[u][i].suspend
       /\ frames[u][i].next = Idle => frames[u][i].suspend

(* Threads on their way to be destroyed have left the CPU for good.        *)
DeadInv ==
  /\ \A i \in 1..Len(terminated) : status[terminated[i]] = "Terminated"
  /\ Idle \in registered /\ status[Idle] \in {"Running", "Ready"}

IndInv ==
  TypeOK /\ OneRunning /\ QueueInv /\ ReadyKept /\ FrameInv /\ DeadInv /\ OnlyDeadDestroyed

(* What the nested yields must keep together: one thread runs, each Ready  *)
(* thread is queued or claimed once, a switch goes to a live registered    *)
(* thread, and only threads that have left the CPU for good are destroyed. *)
SchedulerSafe ==
    TypeOK /\ OneRunning /\ ClaimedOnce /\ SafeSwitch /\ OnlyDeadDestroyed
=============================================================================
