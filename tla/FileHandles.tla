----------------------------- MODULE FileHandles -----------------------------
(***************************************************************************)
(* The file system calls (kernel/src/syscall/file.rs) and the handle       *)
(* object they share (kernel/src/user/handle.rs), for the threads of one   *)
(* process.  Every call but close spawns a task and blocks on a oneshot    *)
(* for its answer; the task holds an Arc of the handle and the async mutex *)
(* of the file while it works.  The last Arc to go spawns the close.  A    *)
(* thread may be stopped while it waits: its task carries on.              *)
(***************************************************************************)
EXTENDS Naturals, Sequences, FiniteSets, Functions

CONSTANTS Users,         \* threads of the process
          Files,         \* paths of files
          MaxFileCalls,  \* bound: system calls
          MaxKills       \* bound: threads stopped

Objects == 1..MaxFileCalls   \* FileHandleObjects, in the order they are made
NoFile == "nofile"

(* The answers and the marks are not file names.                           *)
ASSUME FileAssumption ==
    /\ MaxFileCalls \in Nat
    /\ \A f \in Files : f \notin {NoFile, "none", "err", "ok"}

VARIABLES
    hst, waits,     \* status of a thread; what it waits for: none, open, op
    reply,          \* the answer its oneshot holds: none, err, ok, or a file handle
    handles,        \* Process.handles, the objects by slot; 0: empty
    live,           \* the process is not dropped yet
    file,           \* the file of an object that was made
    jobs,           \* tasks on the runtime: of (thread), do, f, h
    turns,          \* the mutex of an object: the tasks in line, the holder first
    occupied,       \* occupied_file of the file system
    leaked,         \* ghost: files whose handle was dropped without a close
    ncalls, kills

fileVars == <<hst, waits, reply, handles, live, file, jobs, turns, occupied, leaked, ncalls, kills>>

Free(t) == hst[t] = "ready" /\ waits[t] = "none" /\ ncalls < MaxFileCalls
Job(t, do, f, h) == [of |-> t, do |-> do, f |-> f, h |-> h]
Made == {h \in Objects : file[h] # NoFile}

fileInit ==
    /\ hst = [t \in Users |-> "ready"] /\ waits = [t \in Users |-> "none"]
    /\ reply = [t \in Users |-> "none"] /\ handles = <<>> /\ live = TRUE
    /\ file = [h \in Objects |-> NoFile] /\ jobs = {} /\ turns = [h \in Objects |-> <<>>]
    /\ occupied = {} /\ leaked = {} /\ ncalls = 0 /\ kills = 0

(* A call spawns its task and blocks on the answer.                        *)
SpawnAndWait(t, job) ==
    /\ jobs' = jobs \cup {job} /\ ncalls' = ncalls + 1
    /\ waits' = [waits EXCEPT ![t] = job.do] /\ reply' = [reply EXCEPT ![t] = "none"]

open(t, f) ==
    /\ Free(t) /\ SpawnAndWait(t, Job(t, "open", f, 0))
    /\ UNCHANGED <<hst, handles, live, file, turns, occupied, leaked, kills>>

(* read, write, get_pos and set_pos: the task takes an Arc of the handle.  *)
Operate(t, i) ==
    /\ Free(t) /\ i \in DOMAIN handles /\ handles[i] # 0
    /\ SpawnAndWait(t, Job(t, "op", NoFile, handles[i]))
    /\ UNCHANGED <<hst, handles, live, file, turns, occupied, leaked, kills>>

(* Drop for FileHandleObject, when no slot and no task refers to h.        *)
DropArc(h, slots, rest) ==
    IF h = 0 \/ h \in Range(slots) \/ \E j \in rest : j.do = "op" /\ j.h = h
    THEN rest ELSE rest \cup {Job(0, "close", NoFile, h)}

\* Variant: the syscall closes the file itself, whoever else uses the handle
close_handle_now(t, i) ==
    /\ Free(t) /\ i \in DOMAIN handles /\ handles[i] # 0 /\ ncalls' = ncalls + 1
    /\ handles' = [handles EXCEPT ![i] = 0]
    /\ jobs' = jobs \cup {Job(0, "close", NoFile, handles[i])}
    /\ UNCHANGED <<hst, waits, reply, live, file, turns, occupied, leaked, kills>>
close_handle(t, i) ==
    /\ Free(t) /\ i \in DOMAIN handles /\ handles[i] # 0 /\ ncalls' = ncalls + 1
    /\ handles' = [handles EXCEPT ![i] = 0]
    /\ jobs' = DropArc(handles[i], handles', jobs)
    /\ UNCHANGED <<hst, waits, reply, live, file, turns, occupied, leaked, kills>>

(* oneshot send: an answer nobody waits for is dropped, and so is the file *)
(* handle in it, which does not close itself; a thread that is never run   *)
(* again keeps it for good.                                                *)
SendReply(j, a) ==
    IF waits[j.of] # "none" /\ hst[j.of] # "lost"
    THEN reply' = [reply EXCEPT ![j.of] = a] /\ UNCHANGED leaked
    ELSE leaked' = (IF a \in Files THEN leaked \cup {a} ELSE leaked) /\ UNCHANGED reply

(* The task of open: a file that is occupied, or cannot be opened, is an   *)
(* error.                                                                  *)
OpenJob(j) ==
    /\ j \in jobs /\ j.do = "open" /\ jobs' = jobs \ {j}
    /\ \/ SendReply(j, "err") /\ UNCHANGED occupied
       \/ /\ j.f \notin occupied /\ SendReply(j, j.f)
          /\ occupied' = occupied \cup {j.f}
    /\ UNCHANGED <<hst, waits, handles, live, file, turns, ncalls, kills>>

(* handle.lock().await: tasks queue in order.                              *)
LockFile(j) ==
    /\ j \in jobs /\ j.do \in {"op", "close"} /\ j \notin Range(turns[j.h])
    /\ turns' = [turns EXCEPT ![j.h] = Append(@, j)]
    /\ UNCHANGED <<hst, waits, reply, handles, live, file, jobs, occupied, leaked, ncalls, kills>>

Holds(j) == turns[j.h] # <<>> /\ Head(turns[j.h]) = j

(* The operation ends, well or badly; the guard and the Arc are dropped.   *)
OpEnd(j) ==
    /\ j \in jobs /\ j.do = "op" /\ Holds(j)
    /\ \E a \in {"ok", "err"} : SendReply(j, a)
    /\ turns' = [turns EXCEPT ![j.h] = Tail(@)]
    /\ jobs' = DropArc(j.h, handles, jobs \ {j})
    /\ UNCHANGED <<hst, waits, handles, live, file, occupied, ncalls, kills>>

(* The task of the Drop: the file system releases the file.                *)
CloseEnd(j) ==
    /\ j \in jobs /\ j.do = "close" /\ Holds(j)
    /\ occupied' = occupied \ {file[j.h]}
    /\ file' = [file EXCEPT ![j.h] = NoFile]
    /\ turns' = [turns EXCEPT ![j.h] = Tail(@)] /\ jobs' = jobs \ {j}
    /\ UNCHANGED <<hst, waits, reply, handles, live, leaked, ncalls, kills>>

(* The rest of the call: a thread that was stopped drops the answer, a     *)
(* handle goes to the first free slot.  As many objects as calls (the      *)
(* bound) leave one for each handle.                                       *)
Finish(t) ==
    LET unused == {x \in Objects : x \notin Range(handles) /\ file[x] = NoFile}
        h == CHOOSE x \in unused : TRUE
        free == {i \in DOMAIN handles : handles[i] = 0}
    IN
    /\ hst[t] \in {"ready", "stopping"} /\ waits[t] # "none"
    /\ hst[t] = "stopping" \/ reply[t] # "none"
    /\ waits' = [waits EXCEPT ![t] = "none"] /\ reply' = [reply EXCEPT ![t] = "none"]
    /\ IF reply[t] \notin Files THEN UNCHANGED <<handles, file, leaked>>
       ELSE IF hst[t] = "stopping"
       THEN leaked' = leaked \cup {reply[t]} /\ UNCHANGED <<handles, file>>
       ELSE /\ unused # {} /\ file' = [file EXCEPT ![h] = reply[t]] /\ UNCHANGED leaked
            /\ handles' = IF free = {} THEN Append(handles, h)
                        ELSE [handles EXCEPT ![CHOOSE i \in free : \A k \in free : i <= k] = h]
    /\ UNCHANGED <<hst, live, jobs, turns, occupied, ncalls, kills>>

(* stop_thread: a thread that sleeps in block_on never returns, and keeps  *)
(* the receiver; one that runs leaves its call and ends.                   *)
Kill(t) ==
    /\ hst[t] = "ready" /\ kills < MaxKills /\ kills' = kills + 1
    /\ \E s \in {"stopping"} \cup (IF waits[t] # "none" /\ reply[t] = "none" THEN {"lost"} ELSE {}) :
         hst' = [hst EXCEPT ![t] = s]
    /\ UNCHANGED <<waits, reply, handles, live, file, jobs, turns, occupied, leaked, ncalls>>

ThreadExit(t) ==
    /\ hst[t] \in {"ready", "stopping"} /\ waits[t] = "none"
    /\ hst' = [hst EXCEPT ![t] = "terminated"]
    /\ UNCHANGED <<waits, reply, handles, live, file, jobs, turns, occupied, leaked, ncalls, kills>>

Closing(js) == {Job(0, "close", NoFile, h) : h \in {x \in Range(handles) \ {0} : ~\E j \in js : j.do = "op" /\ j.h = x}}

\* Variant: only the first handle is dropped with the process
ProcessDrop_first ==
    /\ live /\ \A t \in Users : hst[t] = "terminated"
    /\ live' = FALSE /\ jobs' = DropArc(IF handles = <<>> THEN 0 ELSE Head(handles), <<>>, jobs)
    /\ handles' = <<>>
    /\ UNCHANGED <<hst, waits, reply, file, turns, occupied, leaked, ncalls, kills>>
(* Its last thread is gone: the process is dropped, and its handles.       *)
ProcessDrop ==
    /\ live /\ \A t \in Users : hst[t] = "terminated"
    /\ live' = FALSE /\ handles' = <<>> /\ jobs' = jobs \cup Closing(jobs)
    /\ UNCHANGED <<hst, waits, reply, file, turns, occupied, leaked, ncalls, kills>>

Task(j) == OpenJob(j) \/ LockFile(j) \/ OpEnd(j) \/ CloseEnd(j)
RunJob == \E j \in jobs : Task(j)

fileNext ==
    \/ \E t \in Users :
         \/ \E f \in Files : open(t, f)
         \/ \E i \in 1..MaxFileCalls : Operate(t, i) \/ close_handle(t, i)
         \/ Finish(t) \/ Kill(t) \/ ThreadExit(t)
    \/ RunJob \/ ProcessDrop

fileSpec == fileInit /\ [][fileNext]_fileVars

-----------------------------------------------------------------------------
(* A file is not closed under an operation: while a slot or a task refers  *)
(* to a handle, its object exists, its file is occupied and no close of it *)
(* was spawned.                                                            *)
OpenWhileUsed ==
    \A h \in Objects : (h \in Range(handles) \/ \E j \in jobs : j.do = "op" /\ j.h = h) =>
        h \in Made /\ file[h] \in occupied /\ ~\E j \in jobs : j.do = "close" /\ j.h = h

(* Operations on a file exclude each other, through whatever handle they   *)
(* go: the mutex of an object lets one task in, and no file is open in two *)
(* objects, nor in one while its handle is on its way to another.          *)
OneUserPerFile ==
    /\ \A g, h \in Made : file[g] = file[h] => g = h
    /\ \A t \in Users, h \in Made : reply[t] # file[h]

(* An occupied file can be released: it is in a handle, or on its way into *)
(* one.  Otherwise the thread that opened it was stopped before it took    *)
(* the answer: the handle of the file system is then dropped unclosed.     *)
OccupiedOwned ==
    \A f \in occupied :
        \/ \E h \in Made : file[h] = f
        \/ \E t \in Users : reply[t] = f
        \/ f \in leaked

(* When a process has ended, its files are released, but for those that    *)
(* were lost with a stopped open.                                          *)
FilesReleased == ~live ~> occupied \subseteq leaked

(* File handles: a file is not closed under a task, has one user at a time, *)
(* and if occupied can be released again.                                   *)
HandlesSafe == OpenWhileUsed /\ OneUserPerFile /\ OccupiedOwned

-----------------------------------------------------------------------------
(* The inductive invariant.                                                *)

Calls == {"open", "op"}
Jobs == [of : Users \cup {0}, do : Calls \cup {"close"}, f : Files \cup {NoFile}, h : Objects \cup {0}]

FileTypes ==
    /\ hst \in [Users -> {"ready", "stopping", "lost", "terminated"}]
    /\ waits \in [Users -> Calls \cup {"none"}]
    /\ reply \in [Users -> Files \cup {"none", "err", "ok"}]
    /\ handles \in Seq(Objects \cup {0}) /\ file \in [Objects -> Files \cup {NoFile}]
    /\ jobs \subseteq Jobs /\ occupied \subseteq Files
    /\ \A j \in jobs : /\ j.do \in Calls => j.of \in Users
                       /\ j.do = "open" => j.f \in Files
                       /\ j.do # "open" => j.h \in Objects
                       /\ j.do = "close" => j = Job(0, "close", NoFile, j.h)

(* A thread has one task at a time, and no answer before it is done; a     *)
(* task left behind by a stopped thread has nobody to answer.              *)
JobInv ==
    /\ \A j, k \in jobs : j.do \in Calls /\ k.do \in Calls /\ j.of = k.of => j = k
    /\ \A j \in jobs : j.do \in Calls =>
          /\ waits[j.of] = "none" => hst[j.of] # "ready"
          /\ reply[j.of] = "none"
    /\ \A t \in Users : waits[t] = "none" => reply[t] = "none"

(* Whatever an object, an answer or a close refers to is occupied.         *)
OwnedOccupied ==
    /\ \A h \in Made : file[h] \in occupied
    /\ \A j \in jobs : j.do = "close" => j.h \in Made
    /\ \A t \in Users : reply[t] \in Files => reply[t] \in occupied
    /\ \A t, u \in Users : reply[t] \in Files /\ reply[t] = reply[u] => t = u

FileInv == FileTypes /\ JobInv /\ OwnedOccupied /\ HandlesSafe
==============================================================================
