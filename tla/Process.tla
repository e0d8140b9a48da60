------------------------------- MODULE Process -------------------------------
(***************************************************************************)
(* User processes and their threads (kernel/src/multitask/process.rs, the  *)
(* Drop of Thread and stop_thread in thread.rs) under the system calls of  *)
(* kernel/src/syscall/multitask.rs, on the one CPU.                        *)
(*                                                                         *)
(* A system call is the sequence of its steps, todo[t]; the timer may      *)
(* switch threads between any two.  Code under an IrqGuard is one step.    *)
(* The functions that take a process lock, a thread lock or THREADS with   *)
(* interrupts on are two steps each, the lock being held in between.  A    *)
(* switch to a thread takes the lock of its process and that of both       *)
(* threads with interrupts off: if it is held, the CPU spins for ever.     *)
(* The kernel thread (0) runs the tasks that were spawned, and idles.      *)
(***************************************************************************)
EXTENDS Integers, Sequences, FiniteSets, SequencesExt

CONSTANTS Tids,       \* thread ids, in the order they are handed out
          Pids,       \* process ids, likewise
          MaxCalls    \* bound: system calls issued in a behaviour

ASSUME ProcessAssumption == 1 \in Tids /\ 1 \in Pids /\ Tids \cup Pids \subseteq Nat \ {0}

Kernel == 0
None == 0
EXIT_KILL == 1

VARIABLES
    cpu,      \* the current thread
    hung,     \* what the CPU spins on with interrupts off: none, or a lock
    st,       \* status of a thread; "lost": Terminating, and never run again
    owner,    \* Thread.process_id
    codes,    \* Thread.exit_code
    todo,     \* the steps its system call still takes; none in user mode
    proc,     \* mapped (in PROCESSES), thread_ids, exit code and whether set, handles
    lock,     \* holder of each process lock
    tlocks,   \* thread locks that are held, by thread; -1 is the lock of THREADS
    tasks,    \* tasks spawned on the runtime
    got,      \* answer of create_process (made, -1: none yet) and of the last wait
    first,    \* ghost: the first exit code announced for a process
    calls, failed, shared   \* calls made; creations that failed; ghost: slots two calls work on

procVars == <<cpu, hung, st, owner, codes, todo, proc, lock, tlocks, tasks, got, first, calls, failed, shared>>

NoProc == [mapped |-> FALSE, tids |-> {}, code |-> 0, set |-> FALSE, handles |-> <<>>]
NoHandle == [kind |-> "none", of |-> 0]

St(do, p, x, c) == [do |-> do, p |-> p, x |-> x, c |-> c]
Lock(p) == St("lock", p, 0, 0)
Return(p, x) == St("ret", p, x, 0)   \* drops the Arcs of the call: its process, a thread it stopped

(* Arcs on a thread: its entry in THREADS, and the calls that stop it.     *)
HeldThread(td, x) ==
    \E t \in Tids : \E i \in DOMAIN td[t] : td[t][i].do \in {"grab", "mark", "ret"} /\ td[t][i].x = x
ThreadDropped(x) == st[x] = "dropped"

(* Arcs on a process: PROCESSES, steps that refer to it, the task that     *)
(* creates it and the answer it sent.                                      *)
Referenced(p) ==
    \/ proc[p].mapped
    \/ \E t \in Tids : \E i \in DOMAIN todo[t] :
           todo[t][i].p = p \/ (todo[t][i].do = "putP" /\ todo[t][i].x = p)
    \/ \E k \in tasks : k.kind = "load" /\ k.p = p
    \/ \E t \in Tids : got[t].made = p

(* The publisher of the exit code is lost with the last Arc.               *)
Dropped(kind, x) == IF kind = "thread" THEN ThreadDropped(x) ELSE ~Referenced(x)

-----------------------------------------------------------------------------
(* deal_old_thread and deal_new_thread with the locks they take.           *)
Blocking(u) ==
    IF tlocks \cap {-1, cpu, u} # {} THEN "thread"
    ELSE IF u # Kernel /\ lock[owner[u]] # None THEN "process" ELSE "none"

SwitchTo(u) == IF Blocking(u) = "none" THEN cpu' = u /\ UNCHANGED hung
                                       ELSE hung' = Blocking(u) /\ UNCHANGED cpu

Runnable == {Kernel} \cup {u \in Tids : st[u] \in {"ready", "stopping"}}

(* The timer interrupt: thread_yield(false).  READY_THREADS may hold a     *)
(* thread that was stopped since; one that a yield had popped still runs.  *)
(* A thread that was stopped ends here, wherever its call is: its stack,   *)
(* with the locks and Arcs on it, is never unwound.                        *)
timer_irq(u) ==
    /\ hung = "none" /\ u # cpu /\ u \in Runnable
    /\ SwitchTo(u)
    /\ st' = IF cpu # Kernel /\ st[cpu] = "stopping" /\ Blocking(u) # "thread"
             THEN [st EXCEPT ![cpu] = "terminated"] ELSE st
    /\ UNCHANGED <<owner, codes, todo, proc, lock, tlocks, tasks, got, first, calls, failed, shared>>

(* switch_thread destroys the terminated threads; the last Arc spawns the  *)
(* clean-up.                                                               *)
destroy_thread(x) ==
    /\ hung = "none" /\ cpu # x
    /\ st[x] = "terminated" /\ ~HeldThread(todo, x)
    /\ st' = [st EXCEPT ![x] = "dropped"]
    /\ tasks' = tasks \cup {[kind |-> "cleanup", of |-> x, p |-> 0]}
    /\ UNCHANGED <<cpu, hung, owner, codes, todo, proc, lock, tlocks, got, first, calls, failed, shared>>

-----------------------------------------------------------------------------
set_exit_code(p, c) == IF p.set THEN p ELSE [p EXCEPT !.set = TRUE, !.code = c]

Announce(p, c) == first' = IF first[p] = -1 THEN [first EXCEPT ![p] = c] ELSE first

\* Variant: the process is stopped with any of its threads
Leave_any(q, x, c) == [set_exit_code([q EXCEPT !.tids = @ \ {x}], c) EXCEPT !.mapped = FALSE]
(* The end of a thread for its process; stop_process with the last one.    *)
Leave(q, x, c) ==
    LET r == [q EXCEPT !.tids = @ \ {x}]
    IN  IF r.tids # {} THEN r ELSE [set_exit_code(r, c) EXCEPT !.mapped = FALSE]

(* The task spawned by the Drop of Thread; the process is locked with      *)
(* interrupts off.                                                         *)
ThreadDrop(k) ==
    LET x == k.of  p == owner[x] IN
    /\ cpu = Kernel /\ hung = "none" /\ k \in tasks /\ k.kind = "cleanup"
    /\ IF proc[p].mapped /\ lock[p] # None
       THEN hung' = "process" /\ UNCHANGED <<proc, tasks, first>>
       ELSE /\ proc' = IF proc[p].mapped THEN [proc EXCEPT ![p] = Leave(@, x, codes[x])] ELSE proc
            /\ IF proc[p].mapped /\ proc[p].tids = {x} THEN Announce(p, codes[x]) ELSE UNCHANGED first
            /\ tasks' = tasks \ {k} /\ UNCHANGED hung
    /\ UNCHANGED <<cpu, st, owner, codes, todo, lock, tlocks, got, calls, failed, shared>>

(* create_thread: ids are handed out in order.                             *)
NewTid == {x \in Tids : st[x] = "absent" /\ \A y \in Tids : st[y] = "absent" => x <= y}
NewPid == {p \in Pids : first[p] = -2 /\ \A q \in Pids : first[q] = -2 => p <= q}

create_thread(x, p) ==
    /\ st' = [st EXCEPT ![x] = "ready"] /\ owner' = [owner EXCEPT ![x] = p]
    /\ proc' = [proc EXCEPT ![p].tids = @ \cup {x}]

(* The answer goes to the receiver; if that was dropped, so is the answer. *)
Answer(t, p) == got' = IF todo[t] # <<>> /\ todo[t][1].do = "await" THEN [got EXCEPT ![t].made = p] ELSE got

(* create_user_process, on the runtime: the file may not open, the process *)
(* may not be created; once it is, the image may be bad or memory short.   *)
LoadStart(k) ==
    /\ cpu = Kernel /\ hung = "none" /\ k \in tasks /\ k.kind = "load" /\ k.p = None
    /\ \/ /\ tasks' = tasks \ {k} /\ Answer(k.of, 0)
          /\ UNCHANGED <<proc, first>>
       \/ \E p \in NewPid :
            /\ proc' = [proc EXCEPT ![p] = [NoProc EXCEPT !.mapped = TRUE]]
            /\ first' = [first EXCEPT ![p] = -1]
            /\ tasks' = (tasks \ {k}) \cup {[k EXCEPT !.p = p]} /\ UNCHANGED got
    /\ UNCHANGED <<cpu, hung, st, owner, codes, todo, lock, tlocks, calls, failed, shared>>

LoadEnd(k) ==
    /\ cpu = Kernel /\ hung = "none" /\ k \in tasks /\ k.kind = "load" /\ k.p # None
    /\ tasks' = tasks \ {k}
    /\ \/ /\ Answer(k.of, 0) /\ failed' = failed \cup {k.p}
          /\ UNCHANGED <<st, owner, proc>>
       \/ /\ \E x \in NewTid : create_thread(x, k.p)
          /\ Answer(k.of, k.p) /\ UNCHANGED failed
    /\ UNCHANGED <<cpu, hung, codes, todo, lock, tlocks, first, calls, shared>>

-----------------------------------------------------------------------------
(* The steps of the system calls.                                          *)
Goto(t, steps) == todo' = [todo EXCEPT ![t] = steps]
Rest(t) == Tail(todo[t])
MayRun(t) == cpu = t /\ hung = "none" /\ st[t] \in {"ready", "stopping"}
Now(t) == IF todo[t] = <<>> THEN St("user", 0, 0, 0) ELSE todo[t][1]
At(t, do) == MayRun(t) /\ Now(t).do = do

(* process.lock() with interrupts on; what follows is done with the lock.  *)
LockStep(t) ==
    /\ At(t, "lock") /\ lock[Now(t).p] = None
    /\ lock' = [lock EXCEPT ![Now(t).p] = t] /\ Goto(t, Rest(t))
    /\ UNCHANGED <<cpu, hung, st, owner, codes, proc, tlocks, tasks, got, first, calls, failed, shared>>

Unlocked(p) == lock' = [lock EXCEPT ![p] = None]

SetCode(t) ==
    LET p == Now(t).p IN
    /\ At(t, "code")
    /\ proc' = [proc EXCEPT ![p] = set_exit_code(@, Now(t).c)]
    /\ Announce(p, Now(t).c) /\ Unlocked(p) /\ Goto(t, Rest(t))
    /\ UNCHANGED <<cpu, hung, st, owner, codes, tlocks, tasks, got, calls, failed, shared>>

StopSteps(x, c) == <<St("find", 0, x, 0), St("grab", 0, x, 0), St("mark", 0, x, c)>>

(* stop_all_thread: find and stop each thread, the process locked.         *)
StopAll(t) ==
    LET p == Now(t).p  ids == SetToSortSeq(proc[p].tids, <) IN
    /\ At(t, "all")
    /\ Goto(t, FlattenSeq([i \in DOMAIN ids |-> StopSteps(ids[i], Now(t).c)])
                \o <<St("unlock", p, 0, 0)>> \o Rest(t))
    /\ UNCHANGED <<cpu, hung, st, owner, codes, proc, lock, tlocks, tasks, got, first, calls, failed, shared>>

UnlockStep(t) ==
    /\ At(t, "unlock") /\ Unlocked(Now(t).p) /\ Goto(t, Rest(t))
    /\ UNCHANGED <<cpu, hung, st, owner, codes, proc, tlocks, tasks, got, first, calls, failed, shared>>

get_thread(t) ==
    /\ At(t, "find") /\ -1 \notin tlocks
    /\ tlocks' = tlocks \cup {-1} /\ Goto(t, Rest(t))
    /\ UNCHANGED <<cpu, hung, st, owner, codes, proc, lock, tasks, got, first, calls, failed, shared>>

(* The lookup ends; a thread that is found is locked.                      *)
GrabThread(t) ==
    LET x == Now(t).x IN
    /\ At(t, "grab") /\ x \notin tlocks
    /\ IF ThreadDropped(x) THEN tlocks' = tlocks \ {-1} /\ Goto(t, Tail(Rest(t)))
                           ELSE tlocks' = (tlocks \ {-1}) \cup {x} /\ Goto(t, Rest(t))
    /\ UNCHANGED <<cpu, hung, st, owner, codes, proc, lock, tasks, got, first, calls, failed, shared>>

(* Status after stop_thread: a thread that waits is never made ready       *)
(* again, since wake_thread looks for Suspend.                             *)
Stopped(s) == IF s = "blocked" THEN "lost" ELSE "stopping"

Stop(x, c) ==
    IF st[x] \in {"ready", "blocked"}
    THEN st' = [st EXCEPT ![x] = Stopped(@)] /\ codes' = [codes EXCEPT ![x] = c]
    ELSE UNCHANGED <<st, codes>>

stop_thread(t) ==
    LET x == Now(t).x IN
    /\ At(t, "mark") /\ Stop(x, Now(t).c)
    /\ tlocks' = tlocks \ {x} /\ Goto(t, Rest(t))
    /\ UNCHANGED <<cpu, hung, owner, proc, lock, tasks, got, first, calls, failed, shared>>

(* boundry_check on the way back to user mode: a thread that was stopped   *)
(* yields for good.                                                        *)
boundry_check(t) ==
    /\ At(t, "ret")
    /\ IF st[t] = "stopping"
       THEN /\ st' = [st EXCEPT ![t] = "terminated"]
            /\ \E u \in Runnable \ {t} : SwitchTo(u)
            /\ Goto(t, <<>>)
       ELSE Goto(t, <<>>) /\ UNCHANGED <<st, cpu, hung>>
    /\ UNCHANGED <<owner, codes, proc, lock, tlocks, tasks, got, first, calls, failed, shared>>

-----------------------------------------------------------------------------
(* The handle table: the first free slot, or a new one.                    *)
insert_process_handle(hs, h) ==
    LET free == {i \in DOMAIN hs : hs[i].kind = "none"}
    IN  IF free = {} THEN Append(hs, h)
        ELSE [hs EXCEPT ![CHOOSE i \in free : \A j \in free : i <= j] = h]

PutHandle(t) ==
    LET p == Now(t).p IN
    /\ At(t, "putT") \/ At(t, "putP")
    /\ proc' = [proc EXCEPT ![p].handles = insert_process_handle(@,
                    [kind |-> IF Now(t).do = "putT" THEN "thread" ELSE "process", of |-> Now(t).x])]
    /\ Unlocked(p) /\ Goto(t, Rest(t))
    /\ UNCHANGED <<cpu, hung, st, owner, codes, tlocks, tasks, got, first, calls, failed, shared>>

remove_process_handle(t) ==
    LET p == Now(t).p  i == Now(t).x IN
    /\ At(t, "del")
    /\ proc' = IF i \in DOMAIN proc[p].handles THEN [proc EXCEPT ![p].handles[i] = NoHandle] ELSE proc
    /\ Unlocked(p) /\ Goto(t, Rest(t))
    /\ UNCHANGED <<cpu, hung, st, owner, codes, tlocks, tasks, got, first, calls, failed, shared>>

(* What each call does with the handle it got: another kind of handle is a *)
(* BadArgument, a Weak that cannot be upgraded is left alone.              *)
Found(t, h, i) ==
    CASE Now(t).do = "getK" /\ h.kind = "thread" /\ ~ThreadDropped(h.of) ->
            <<St("grab", 0, h.of, 0), St("mark", 0, h.of, EXIT_KILL), Return(owner[t], h.of)>>
      [] Now(t).do = "getKP" /\ h.kind = "process" /\ ~Dropped("process", h.of) ->
            <<Lock(h.of), St("code", h.of, 0, EXIT_KILL), Lock(h.of), St("all", h.of, 0, EXIT_KILL), Return(owner[t], 0)>>
      [] Now(t).do = "getJ" /\ h.kind = "thread" -> <<St("waitT", 0, h.of, i), Return(owner[t], 0)>>
      [] Now(t).do = "getW" /\ h.kind = "process" -> <<St("waitP", 0, h.of, i), Return(owner[t], 0)>>
      [] OTHER -> <<Return(owner[t], 0)>>

\* Variant: the guard of the process lives as long as the handle
get_process_handle_keep(t) ==
    LET p == owner[t]  i == Now(t).x  hs == proc[p].handles IN
    /\ MayRun(t) /\ Now(t).do \in {"getK", "getKP", "getJ", "getW"}
    /\ Goto(t, Found(t, IF i \in DOMAIN hs THEN hs[i] ELSE NoHandle, i))
    /\ UNCHANGED <<cpu, hung, st, owner, codes, proc, lock, tlocks, tasks, got, first, calls, failed, shared>>
get_process_handle(t) ==
    LET p == owner[t]  i == Now(t).x  hs == proc[p].handles IN
    /\ MayRun(t) /\ Now(t).do \in {"getK", "getKP", "getJ", "getW"}
    /\ Goto(t, Found(t, IF i \in DOMAIN hs THEN hs[i] ELSE NoHandle, i))
    /\ Unlocked(p)
    /\ UNCHANGED <<cpu, hung, st, owner, codes, proc, tlocks, tasks, got, first, calls, failed, shared>>

(* block_on the exit code: until the publisher is lost.  Then the handle   *)
(* is removed by its index, and the code read.                             *)
Suspend(t) ==
    /\ st' = [st EXCEPT ![t] = "blocked"]
    /\ \E u \in Runnable \ {t} : SwitchTo(u)

ExitCode(kind, x) == IF kind = "thread" THEN codes[x] ELSE proc[x].code

WaitStep(t) ==
    LET kind == IF Now(t).do = "waitT" THEN "thread" ELSE "process"
        x == Now(t).x  p == owner[t] IN
    /\ At(t, "waitT") \/ At(t, "waitP")
    /\ IF st[t] = "stopping" THEN Goto(t, Rest(t)) /\ UNCHANGED <<cpu, hung, st, got>>
       ELSE IF Dropped(kind, x)
       THEN /\ Goto(t, <<Lock(p), St("del", p, Now(t).c, x)>> \o Rest(t))
            /\ got' = [got EXCEPT ![t] = [@ EXCEPT !.kind = kind, !.of = x, !.code = ExitCode(kind, x)]]
            /\ UNCHANGED <<cpu, hung, st>>
       ELSE Suspend(t) /\ UNCHANGED <<todo, got>>
    /\ UNCHANGED <<owner, codes, proc, lock, tlocks, tasks, first, calls, failed, shared>>

(* The awaited publisher is dropped, or the answer sent: the waker.        *)
Awaited(t) ==
    CASE Now(t).do = "waitT" -> Dropped("thread", Now(t).x)
      [] Now(t).do = "waitP" -> Dropped("process", Now(t).x)
      [] Now(t).do = "await" -> got[t].made # -1
      [] OTHER -> FALSE

wake_thread(t) ==
    /\ hung = "none" /\ st[t] = "blocked" /\ Awaited(t)
    /\ st' = [st EXCEPT ![t] = "ready"]
    /\ UNCHANGED <<cpu, hung, owner, codes, todo, proc, lock, tlocks, tasks, got, first, calls, failed, shared>>

(* create_process: spawn the loader, wait for its answer, make a handle.   *)
Spawn(t) ==
    /\ At(t, "spawn")
    /\ tasks' = tasks \cup {[kind |-> "load", of |-> t, p |-> None]}
    /\ got' = [got EXCEPT ![t].made = -1] /\ Goto(t, Rest(t))
    /\ UNCHANGED <<cpu, hung, st, owner, codes, proc, lock, tlocks, first, calls, failed, shared>>

AwaitStep(t) ==
    LET q == got[t].made IN
    /\ At(t, "await")
    /\ IF st[t] = "stopping"
       THEN Goto(t, <<Return(owner[t], 0)>>) /\ got' = [got EXCEPT ![t].made = 0] /\ UNCHANGED <<cpu, hung, st>>
       ELSE IF q = -1 THEN Suspend(t) /\ UNCHANGED <<todo, got>>
       ELSE /\ Goto(t, IF q = 0 THEN <<Return(owner[t], 0)>>
                       ELSE <<Lock(q), St("unlock", q, 0, 0), Lock(owner[t]), St("putP", owner[t], q, 0), Return(owner[t], 0)>>)
            /\ got' = [got EXCEPT ![t].made = 0] /\ UNCHANGED <<cpu, hung, st>>
    /\ UNCHANGED <<owner, codes, proc, lock, tlocks, tasks, first, calls, failed, shared>>

-----------------------------------------------------------------------------
(* A system call by a thread in user mode.  Two calls on one slot at the   *)
(* same time are recorded.                                                 *)
Begin(t, steps) ==
    /\ MayRun(t) /\ todo[t] = <<>> /\ calls < MaxCalls
    /\ calls' = calls + 1 /\ Goto(t, steps)
    /\ UNCHANGED <<cpu, hung, st, owner, codes, proc, lock, tlocks, tasks, got, first, failed>>

SlotOf(s) == IF s.do \in {"waitT", "waitP"} THEN s.c
             ELSE IF s.do \in {"getK", "getKP", "getJ", "getW", "del"} THEN s.x ELSE 0

OnSlot(t, i, steps) ==
    /\ Begin(t, steps)
    /\ shared' = IF \E u \in Tids \ {t} : owner[u] = owner[t] /\ todo[u] # <<>>
                        /\ \E j \in DOMAIN todo[u] : SlotOf(todo[u][j]) = i
                 THEN shared \cup {<<owner[t], i>>} ELSE shared

Off(t, steps) == Begin(t, steps) /\ UNCHANGED shared

exit_process(t, c) ==
    LET p == owner[t] IN Off(t, <<Lock(p), St("code", p, 0, c), Lock(p), St("all", p, 0, c), Return(p, 0)>>)
exit_thread(t, c) == Off(t, <<St("grab", 0, t, 0), St("mark", 0, t, c), Return(0, t)>>)
current_thread(t) == Off(t, <<Lock(owner[t]), St("putT", owner[t], t, 0), Return(owner[t], 0)>>)
current_process(t) ==
    LET p == owner[t]
    IN  Off(t, <<Lock(p), St("unlock", p, 0, 0), Lock(p), St("putP", p, p, 0), Return(p, 0)>>)
create_process(t) == Off(t, <<St("spawn", owner[t], 0, 0), St("await", owner[t], 0, 0)>>)

kill_thread(t, i) == OnSlot(t, i, <<Lock(owner[t]), St("getK", owner[t], i, 0)>>)
kill_process(t, i) == OnSlot(t, i, <<Lock(owner[t]), St("getKP", owner[t], i, 0)>>)
join_thread(t, i) == OnSlot(t, i, <<Lock(owner[t]), St("getJ", owner[t], i, 0)>>)
wait_process(t, i) == OnSlot(t, i, <<Lock(owner[t]), St("getW", owner[t], i, 0)>>)
close(t, i) == OnSlot(t, i, <<Lock(owner[t]), St("del", owner[t], i, -1), Return(owner[t], 0)>>)

(* create_user_thread: the thread is made if its stack can be allocated;   *)
(* the call answers OutOfMemory either way.                                *)
create_user_thread(t) ==
    /\ MayRun(t) /\ todo[t] = <<>> /\ calls < MaxCalls
    /\ calls' = calls + 1 /\ Goto(t, <<Return(owner[t], 0)>>)
    /\ UNCHANGED <<st, owner, proc>> \/ \E x \in NewTid : create_thread(x, owner[t])
    /\ UNCHANGED <<cpu, hung, codes, lock, tlocks, tasks, got, first, failed, shared>>

(* A fault in user mode: user_kill_self, inside the interrupt.             *)
user_kill_self(t) ==
    /\ MayRun(t) /\ todo[t] = <<>> /\ calls < MaxCalls
    /\ calls' = calls + 1 /\ Stop(t, EXIT_KILL) /\ Goto(t, <<Return(0, 0)>>)
    /\ UNCHANGED <<cpu, hung, owner, proc, lock, tlocks, tasks, got, first, failed, shared>>

(* The first process runs: with its main thread, or with a second one too, *)
(* both of which have asked for a handle of themselves.                    *)
procInit == \E n \in {1, 2} :
    /\ cpu = 1 /\ hung = "none"
    /\ st = [t \in Tids |-> IF t <= n THEN "ready" ELSE "absent"]
    /\ owner = [t \in Tids |-> IF t <= n THEN 1 ELSE 0]
    /\ codes = [t \in Tids |-> 0] /\ todo = [t \in Tids |-> <<>>]
    /\ proc = [p \in Pids |-> IF p # 1 THEN NoProc
                 ELSE [NoProc EXCEPT !.mapped = TRUE, !.tids = 1 .. n,
                         !.handles = IF n = 1 THEN <<>>
                                     ELSE [t \in 1 .. n |-> [kind |-> "thread", of |-> t]]]]
    /\ lock = [p \in Pids |-> None] /\ tlocks = {} /\ tasks = {}
    /\ got = [t \in Tids |-> [made |-> 0, kind |-> "none", of |-> 0, code |-> 0]]
    /\ first = [p \in Pids |-> IF p = 1 THEN -1 ELSE -2]
    /\ calls = n - 1 /\ failed = {} /\ shared = {}

Calls(t) ==
    \/ exit_process(t, 2) \/ exit_thread(t, 3) \/ user_kill_self(t)
    \/ current_thread(t) \/ current_process(t) \/ create_process(t) \/ create_user_thread(t)
    \/ \E i \in DOMAIN proc[owner[t]].handles :
         kill_thread(t, i) \/ kill_process(t, i) \/ join_thread(t, i) \/ wait_process(t, i) \/ close(t, i)

StepOf(t) ==
    \/ LockStep(t) \/ SetCode(t) \/ StopAll(t) \/ UnlockStep(t)
    \/ get_thread(t) \/ GrabThread(t) \/ stop_thread(t) \/ boundry_check(t)
    \/ PutHandle(t) \/ remove_process_handle(t) \/ get_process_handle(t)
    \/ WaitStep(t) \/ Spawn(t) \/ AwaitStep(t)

RunTask(k) == ThreadDrop(k) \/ LoadStart(k) \/ LoadEnd(k)

procNext ==
    \/ \E t \in Tids : MayRun(t) /\ todo[t] = <<>> /\ Calls(t)
    \/ \E t \in Tids : MayRun(t) /\ todo[t] # <<>> /\ StepOf(t)
    \/ \E t \in Tids : wake_thread(t) \/ destroy_thread(t)
    \/ \E k \in tasks : RunTask(k)
    \/ \E u \in Tids \cup {Kernel} : timer_irq(u)

-----------------------------------------------------------------------------
(* Properties.                                                             *)

Mark(t) == st[t] \notin {"absent", "dropped"}

(* A thread's process outlives it: as long as a thread is known to THREADS *)
(* its process is in PROCESSES and lists it, so that current_process never *)
(* fails, no thread runs on a page table that was released, and the last   *)
(* thread finds the process it has to stop.                                *)
ProcessOutlives ==
    \A t \in Tids : Mark(t) => proc[owner[t]].mapped /\ t \in proc[owner[t]].tids

(* wait_process answers with the exit code announced first, by whichever   *)
(* of exit, kill and the last thread came first, and only when no thread   *)
(* of the process is left; join_thread likewise.                           *)
WaitTellsTruth ==
    \A t \in Tids :
      /\ got[t].kind = "process" => /\ got[t].code = first[got[t].of]
                                    /\ \A x \in Tids : owner[x] = got[t].of => ~Mark(x)
      /\ got[t].kind = "thread" => ThreadDropped(got[t].of)

(* No process is left behind: one without threads is still being created   *)
(* or its creation failed, and a thread it lists still exists or its       *)
(* clean-up, which will stop the process if it was the last, is pending.   *)
ProcessesAccounted ==
    \A p \in Pids : proc[p].mapped =>
      /\ proc[p].tids = {} => p \in failed \/ \E k \in tasks : k.kind = "load" /\ k.p = p
      /\ \A x \in proc[p].tids : Mark(x) \/ [kind |-> "cleanup", of |-> x, p |-> 0] \in tasks

(* As long as no two calls work on one slot, the slot a thread waits on    *)
(* keeps the handle it was asked about, whatever handles come and go: the  *)
(* index used after the wait still names that handle.                      *)
HandleStays ==
    \A t \in Tids : \A i \in DOMAIN todo[t] :
        LET s == todo[t][i]  p == owner[t] IN
        /\ s.do \in {"waitT", "waitP"} /\ <<p, s.c>> \notin shared =>
              proc[p].handles[s.c] = [kind |-> IF s.do = "waitT" THEN "thread" ELSE "process", of |-> s.x]
        /\ s.do = "del" /\ s.c # -1 /\ <<p, s.x>> \notin shared =>
              proc[p].handles[s.x].of = s.c

(* Who gives up the CPU by itself, to wait or for good, holds no lock:     *)
(* block_on and the yields of exit are never reached inside a section that *)
(* took a process lock, a thread lock or THREADS.  A thread that is gone   *)
(* left one locked only if the timer cut off its call after it had been    *)
(* stopped there.  So the CPU can hang only by way of a timer interrupt in *)
(* one of the sections without an IrqGuard.                                *)
SleepsUnlocked ==
    \A t \in Tids : (\E p \in Pids : lock[p] = t) \/ Now(t).do \in {"grab", "mark"} =>
        st[t] \in {"ready", "stopping"} \/ (st[t] \in {"terminated", "dropped"} /\ todo[t] # <<>>)

(* The life of processes: one outlives its threads, is not left behind when *)
(* the last is gone, its waiters read the exit code announced first, and a  *)
(* handle stays in its slot while a call waits on it.                       *)
ProcessSafe ==
    ProcessOutlives /\ WaitTellsTruth /\ ProcessesAccounted /\ HandleStays
==============================================================================
