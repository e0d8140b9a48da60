----------------------------- MODULE TaskProofs ------------------------------
(*************************************************************************)
(* Proofs about tasks: the queues of the runtime, a thread blocked on a  *)
(* task, and the jobs of file handles.  For any number of tasks, threads *)
(* and calls.                                                            *)
(*************************************************************************)
EXTENDS AsyncRuntime, BlockOn, FileHandles, TLAPS

(* A leaf names a prover only where the default order, Zenon and then SMT, *)
(* does not find its proof soon.                                           *)
USE ZenonT(5), SMTT(30)

-----------------------------------------------------------------------------
(* The runtime and block_on.                                              *)
-----------------------------------------------------------------------------

(* Everything that can happen in one step, action by action.               *)
Action ==
  \/ Pop \/ Sleep \/ Unlock \/ Clear \/ PollPending \/ PollAgain
  \/ PollReady \/ PutBack \/ Preempt \/ Dispatch
  \/ \E c \in Callers :
       \/ WakeByRef(c) \/ WakeKernelThread(c) \/ Spin(c)
       \/ \E t \in Tasks : Spawn(c, t) \/ Happen(c, t)

(* Types are preserved.                                                    *)
LEMMA TypeStep ==
  ASSUME IndInv, Action
  PROVE  TypeOK'
<1> USE RuntimeAssumption DEF IndInv, Idle
<1>1. ASSUME NEW c \in Callers, NEW t \in Tasks, Spawn(c, t) PROVE TypeOK'
  BY <1>1 DEF Spawn, CallerInv, RunInv, TypeOK
<1>2. ASSUME NEW c \in Callers, NEW t \in Tasks, Happen(c, t) PROVE TypeOK'
  BY <1>2 DEF Happen, CallerInv, RunInv, TypeOK
<1>3. ASSUME NEW c \in Callers, WakeByRef(c) PROVE TypeOK'
  BY <1>3 DEF WakeByRef, CallerInv, RunInv, TypeOK
<1>4. ASSUME NEW c \in Callers, WakeKernelThread(c) PROVE TypeOK'
  BY <1>4 DEF WakeKernelThread, CallerInv, RunInv, TypeOK
<1>5. ASSUME NEW c \in Callers, Spin(c) PROVE TypeOK'
  BY <1>5 DEF Spin, CallerInv, RunInv, TypeOK
<1>6. ASSUME Pop PROVE TypeOK'
  BY <1>6 DEF Pop, CallerInv, RunInv, TypeOK
<1>7. ASSUME Sleep PROVE TypeOK'
  BY <1>7 DEF Sleep, CallerInv, RunInv, TypeOK
<1>8. ASSUME Unlock PROVE TypeOK'
  BY <1>8 DEF Unlock, CallerInv, RunInv, TypeOK
<1>9. ASSUME Clear PROVE TypeOK'
  BY <1>9 DEF Clear, CallerInv, RunInv, TypeOK
<1>10. ASSUME PollPending PROVE TypeOK'
  BY <1>10 DEF PollPending, CallerInv, RunInv, TypeOK
<1>11. ASSUME PollAgain PROVE TypeOK'
  BY <1>11 DEF PollAgain, CallerInv, RunInv, TypeOK
<1>12. ASSUME PollReady PROVE TypeOK'
  BY <1>12 DEF PollReady, CallerInv, RunInv, TypeOK
<1>13. ASSUME PutBack PROVE TypeOK'
  <2>1. task \in Tasks
    BY <1>13 DEF PutBack, TypeOK, RunInv
  <2>2. ready' \in Seq(Tasks) /\ suspend' \subseteq Tasks
    <3>1. CASE flag[task]
      <4>1. ready' = Append(ready, task) /\ suspend' = suspend
        BY <1>13, <3>1 DEF PutBack
      <4>2. ready \in Seq(Tasks) /\ suspend \subseteq Tasks
        BY DEF TypeOK
      <4> QED
        BY <2>1, <4>1, <4>2
    <3>2. CASE ~flag[task]
      BY <1>13, <2>1, <3>2 DEF PutBack, TypeOK
    <3> QED
      BY <3>1, <3>2
  <2> QED
    BY <1>13, <2>2 DEF PutBack, TypeOK
<1>14. ASSUME Preempt PROVE TypeOK'
  BY <1>14 DEF Preempt, CallerInv, RunInv, TypeOK
<1>15. ASSUME Dispatch PROVE TypeOK'
  BY <1>15 DEF Dispatch, CallerInv, RunInv, TypeOK
<1> QED
  BY <1>1, <1>2, <1>3, <1>4, <1>5, <1>6, <1>7, <1>8, <1>9, <1>10, <1>11, <1>12, <1>13, <1>14, <1>15 DEF Action

(* run() has a task in hand exactly between its pop and its put.           *)
LEMMA RunStepInv ==
  ASSUME IndInv, Action, TypeOK'
  PROVE  RunInv' /\ CallerInv'
<1> USE RuntimeAssumption DEF IndInv, Idle
<1>1. ASSUME NEW c \in Callers, NEW t \in Tasks, Spawn(c, t) PROVE RunInv' /\ CallerInv'
  BY <1>1 DEF Spawn, CallerInv, RunInv, TypeOK
<1>2. ASSUME NEW c \in Callers, NEW t \in Tasks, Happen(c, t) PROVE RunInv' /\ CallerInv'
  BY <1>2 DEF Happen, CallerInv, RunInv, TypeOK
<1>3. ASSUME NEW c \in Callers, WakeByRef(c) PROVE RunInv' /\ CallerInv'
  <2> DEFINE t == caller[c].task
  <2>1. t \in Tasks /\ (t = task => life[t] = "alive")
    BY <1>3 DEF WakeByRef, CallerInv, OnePlace
  <2>2. CallerInv'
    BY <1>3 DEF WakeByRef, CallerInv, TypeOK
  <2>3. (task = NoTask <=> pc = "pop")' /\ (kernel = "Suspend" => pc = "pop")'
    BY <1>3 DEF WakeByRef, RunInv
  <2>4. ASSUME pc = "put", event[task], ~flag'[task]
        PROVE  \E d \in Callers : caller'[d] = [do |-> "wake", task |-> task]
    <3>1. task \in Tasks
      BY <2>4 DEF RunInv, TypeOK
    <3>2. t # task /\ ~flag[task]
      BY <1>3, <2>1, <2>4, <3>1 DEF WakeByRef, TypeOK
    <3>3. PICK d \in Callers : caller[d] = [do |-> "wake", task |-> task]
      BY <2>4, <3>2 DEF RunInv
    <3>4. d # c
      BY <3>2, <3>3
    <3>5. caller'[d] = caller[d]
      BY <1>3, <3>4 DEF WakeByRef, TypeOK
    <3> QED
      BY <3>3, <3>5
  <2>5. UNCHANGED <<pc, task, event>>
    BY <1>3 DEF WakeByRef
  <2> QED
    BY <2>2, <2>3, <2>4, <2>5 DEF RunInv
<1>4. ASSUME NEW c \in Callers, WakeKernelThread(c) PROVE RunInv' /\ CallerInv'
  BY <1>4 DEF WakeKernelThread, CallerInv, RunInv, TypeOK
<1>5. ASSUME NEW c \in Callers, Spin(c) PROVE RunInv' /\ CallerInv'
  BY <1>5 DEF Spin, CallerInv, RunInv, TypeOK
<1>6. ASSUME Pop PROVE RunInv' /\ CallerInv'
  BY <1>6 DEF Pop, CallerInv, RunInv, TypeOK
<1>7. ASSUME Sleep PROVE RunInv' /\ CallerInv'
  BY <1>7 DEF Sleep, CallerInv, RunInv, TypeOK
<1>8. ASSUME Unlock PROVE RunInv' /\ CallerInv'
  BY <1>8 DEF Unlock, CallerInv, RunInv, TypeOK
<1>9. ASSUME Clear PROVE RunInv' /\ CallerInv'
  BY <1>9 DEF Clear, CallerInv, RunInv, TypeOK
<1>10. ASSUME PollPending PROVE RunInv' /\ CallerInv'
  BY <1>10 DEF PollPending, CallerInv, RunInv, TypeOK
<1>11. ASSUME PollAgain PROVE RunInv' /\ CallerInv'
  BY <1>11 DEF PollAgain, CallerInv, RunInv, TypeOK
<1>12. ASSUME PollReady PROVE RunInv' /\ CallerInv'
  BY <1>12 DEF PollReady, CallerInv, RunInv, TypeOK
<1>13. ASSUME PutBack PROVE RunInv' /\ CallerInv'
  BY <1>13 DEF PutBack, CallerInv, RunInv, TypeOK
<1>14. ASSUME Preempt PROVE RunInv' /\ CallerInv'
  BY <1>14 DEF Preempt, CallerInv, RunInv, TypeOK
<1>15. ASSUME Dispatch PROVE RunInv' /\ CallerInv'
  BY <1>15 DEF Dispatch, CallerInv, RunInv, TypeOK
<1> QED
  BY <1>1, <1>2, <1>3, <1>4, <1>5, <1>6, <1>7, <1>8, <1>9, <1>10, <1>11, <1>12, <1>13, <1>14, <1>15 DEF Action

(* Tasks move from one place to another.                                   *)
LEMMA PlaceStep ==
  ASSUME IndInv, Action, TypeOK'
  PROVE  OnePlace'
<1> USE RuntimeAssumption DEF IndInv, Idle
<1>1. ASSUME NEW c \in Callers, NEW t \in Tasks, Spawn(c, t) PROVE OnePlace'
  BY <1>1 DEF Spawn, CallerInv, OnePlace, RunInv, TypeOK
<1>2. ASSUME NEW c \in Callers, NEW t \in Tasks, Happen(c, t) PROVE OnePlace'
  BY <1>2 DEF Happen, CallerInv, OnePlace, RunInv, TypeOK
<1>3. ASSUME NEW c \in Callers, WakeByRef(c) PROVE OnePlace'
  BY <1>3 DEF WakeByRef, CallerInv, OnePlace, RunInv, TypeOK
<1>4. ASSUME NEW c \in Callers, WakeKernelThread(c) PROVE OnePlace'
  BY <1>4 DEF WakeKernelThread, CallerInv, OnePlace, RunInv, TypeOK
<1>5. ASSUME NEW c \in Callers, Spin(c) PROVE OnePlace'
  BY <1>5 DEF Spin, CallerInv, OnePlace, RunInv, TypeOK
<1>6. ASSUME Pop PROVE OnePlace'
  <2>1. /\ ready \in Seq(Tasks) /\ ready # <<>>
        /\ task' = ready[1] /\ ready' = Tail(ready)
        /\ task = NoTask
        /\ UNCHANGED <<suspend, life>>
    BY <1>6 DEF Pop, TypeOK, RunInv
  <2>2. /\ Len(ready) \in Nat /\ Len(ready) >= 1
        /\ Len(ready') = Len(ready) - 1
        /\ \A i \in 1..Len(ready') : ready'[i] = ready[i + 1]
    BY <2>1
  <2>3. \A i, j \in 1..Len(ready') : ready'[i] = ready'[j] => i = j
    BY <2>2 DEF OnePlace
  <2>4. \A i \in 1..Len(ready') : ready'[i] \notin suspend' \cup {task'}
    BY <2>1, <2>2 DEF OnePlace
  <2>5. task' \notin suspend'
    BY <2>1, <2>2 DEF OnePlace
  <2>6. ASSUME NEW x \in Tasks
        PROVE  (\E i \in 1..Len(ready) : ready[i] = x)
                 <=> x = task' \/ \E i \in 1..Len(ready') : ready'[i] = x
    <3>1. ASSUME NEW i \in 1..Len(ready), ready[i] = x, x # task'
          PROVE  \E j \in 1..Len(ready') : ready'[j] = x
      <4>1. i - 1 \in 1..Len(ready') /\ (i - 1) + 1 = i
        BY <2>1, <2>2, <3>1
      <4> QED
        BY <2>2, <3>1, <4>1, Zenon
    <3>2. ASSUME NEW i \in 1..Len(ready'), ready'[i] = x
          PROVE  \E j \in 1..Len(ready) : ready[j] = x
      BY <2>2, <3>2
    <3>3. 1 \in 1..Len(ready)
      BY <2>2
    <3> QED
      BY <2>1, <3>1, <3>2, <3>3
  <2>7. \A x \in Tasks : x # task
    BY <2>1
  <2> QED
    BY <2>1, <2>3, <2>4, <2>5, <2>6, <2>7 DEF OnePlace
<1>7. ASSUME Sleep PROVE OnePlace'
  BY <1>7 DEF Sleep, CallerInv, OnePlace, RunInv, TypeOK
<1>8. ASSUME Unlock PROVE OnePlace'
  BY <1>8 DEF Unlock, CallerInv, OnePlace, RunInv, TypeOK
<1>9. ASSUME Clear PROVE OnePlace'
  BY <1>9 DEF Clear, CallerInv, OnePlace, RunInv, TypeOK
<1>10. ASSUME PollPending PROVE OnePlace'
  BY <1>10 DEF PollPending, CallerInv, OnePlace, RunInv, TypeOK
<1>11. ASSUME PollAgain PROVE OnePlace'
  BY <1>11 DEF PollAgain, CallerInv, OnePlace, RunInv, TypeOK
<1>12. ASSUME PollReady PROVE OnePlace'
  BY <1>12 DEF PollReady, CallerInv, OnePlace, RunInv, TypeOK
<1>13. ASSUME PutBack PROVE OnePlace'
  <2>1. /\ task \in Tasks /\ task' = NoTask /\ ready \in Seq(Tasks)
        /\ UNCHANGED life
    BY <1>13 DEF PutBack, TypeOK, RunInv
  <2>2. \A i \in 1..Len(ready) : ready[i] \in Tasks
    BY <2>1
  <2>3. CASE flag[task]
    <3>1. suspend' = suspend /\ ready' = Append(ready, task)
      BY <1>13, <2>3 DEF PutBack
    <3>2. /\ Len(ready) \in Nat /\ Len(ready') = Len(ready) + 1
          /\ \A i \in 1..Len(ready) : ready'[i] = ready[i]
          /\ ready'[Len(ready) + 1] = task
      BY <2>1, <3>1
    <3>3. \A i \in 1..Len(ready') : i \in 1..Len(ready) \/ i = Len(ready) + 1
      BY <3>2
    <3>4. \A i, j \in 1..Len(ready') : ready'[i] = ready'[j] => i = j
      BY <3>2, <3>3 DEF OnePlace
    <3>5. \A i \in 1..Len(ready') : ready'[i] \notin suspend' \cup {task'}
      BY <2>1, <2>2, <3>1, <3>2, <3>3 DEF OnePlace
    <3>6. \A x \in Tasks : (\E i \in 1..Len(ready') : ready'[i] = x)
            <=> x = task \/ \E i \in 1..Len(ready) : ready[i] = x
      BY <3>2, <3>3
    <3>7. \A t \in Tasks :
            life'[t] = "alive" <=> \/ \E i \in 1..Len(ready') : ready'[i] = t
                                  \/ t \in suspend'
                                  \/ t = task'
      <4> TAKE t \in Tasks
      <4>1. life'[t] = "alive" <=> \/ \E i \in 1..Len(ready) : ready[i] = t
                                  \/ t \in suspend
                                  \/ t = task
        BY <2>1 DEF OnePlace
      <4>2. t # task'
        BY <2>1
      <4> QED
        BY <3>1, <3>6, <4>1, <4>2
    <3>8. task' \notin suspend'
      BY <2>1, <3>1 DEF TypeOK
    <3> QED
      BY <3>4, <3>5, <3>7, <3>8 DEF OnePlace
  <2>4. CASE ~flag[task]
    <3>1. suspend' = suspend \cup {task} /\ ready' = ready
      BY <1>13, <2>4 DEF PutBack
    <3> QED
      BY <2>1, <2>2, <3>1 DEF OnePlace, TypeOK
  <2> QED
    BY <2>3, <2>4
<1>14. ASSUME Preempt PROVE OnePlace'
  BY <1>14 DEF Preempt, CallerInv, OnePlace, RunInv, TypeOK
<1>15. ASSUME Dispatch PROVE OnePlace'
  BY <1>15 DEF Dispatch, CallerInv, OnePlace, RunInv, TypeOK
<1> QED
  BY <1>1, <1>2, <1>3, <1>4, <1>5, <1>6, <1>7, <1>8, <1>9, <1>10, <1>11, <1>12, <1>13, <1>14, <1>15 DEF Action

(* A task is suspended only if no event is left unannounced.               *)
LEMMA WakeStep ==
  ASSUME IndInv, Action, TypeOK'
  PROVE  NoLostWake'
<1> USE RuntimeAssumption DEF IndInv, Idle
<1>1. ASSUME NEW c \in Callers, NEW t \in Tasks, Spawn(c, t) PROVE NoLostWake'
  <2>1. caller[c].do # "wake"
    BY <1>1 DEF Spawn
  <2>2. ASSUME NEW x \in suspend', event'[x]
        PROVE  \E d \in Callers : caller'[d] = [do |-> "wake", task |-> x]
    <3>1. x \in suspend /\ event[x]
      BY <1>1, <2>2 DEF Spawn
    <3>2. PICK d \in Callers : caller[d] = [do |-> "wake", task |-> x]
      BY <3>1 DEF NoLostWake
    <3>3. caller'[d] = caller[d]
      BY <1>1, <2>1, <3>2 DEF Spawn, TypeOK
    <3> QED
      BY <3>2, <3>3
  <2> QED
    BY <2>2, Zenon DEF NoLostWake
<1>2. ASSUME NEW c \in Callers, NEW t \in Tasks, Happen(c, t) PROVE NoLostWake'
  <2>1. caller[c].do # "wake" /\ caller'[c] = [do |-> "wake", task |-> t]
    BY <1>2 DEF Happen, TypeOK
  <2>2. ASSUME NEW x \in suspend', event'[x], x # t
        PROVE  \E d \in Callers : caller'[d] = [do |-> "wake", task |-> x]
    <3>1. x \in suspend /\ event[x]
      BY <1>2, <2>2 DEF Happen, TypeOK
    <3>2. PICK d \in Callers : caller[d] = [do |-> "wake", task |-> x]
      BY <3>1 DEF NoLostWake
    <3>3. caller'[d] = caller[d]
      BY <1>2, <2>1, <3>2 DEF Happen, TypeOK
    <3> QED
      BY <3>2, <3>3
  <2> QED
    BY <2>1, <2>2, Zenon DEF NoLostWake
<1>3. ASSUME NEW c \in Callers, WakeByRef(c) PROVE NoLostWake'
  <2>1. ASSUME NEW x \in suspend', event'[x]
        PROVE  \E d \in Callers : caller'[d] = [do |-> "wake", task |-> x]
    <3>1. x \in suspend /\ event[x] /\ x # caller[c].task
      BY <1>3, <2>1 DEF WakeByRef
    <3>2. PICK d \in Callers : caller[d] = [do |-> "wake", task |-> x]
      BY <3>1 DEF NoLostWake
    <3>3. d # c
      BY <3>1, <3>2
    <3>4. caller'[d] = caller[d]
      BY <1>3, <3>3 DEF WakeByRef, TypeOK
    <3> QED
      BY <3>2, <3>4
  <2> QED
    BY <2>1, Zenon DEF NoLostWake
<1>4. ASSUME NEW c \in Callers, WakeKernelThread(c) PROVE NoLostWake'
  <2>1. caller[c].do # "wake"
    BY <1>4 DEF WakeKernelThread
  <2>2. ASSUME NEW x \in suspend', event'[x]
        PROVE  \E d \in Callers : caller'[d] = [do |-> "wake", task |-> x]
    <3>1. x \in suspend /\ event[x]
      BY <1>4, <2>2 DEF WakeKernelThread
    <3>2. PICK d \in Callers : caller[d] = [do |-> "wake", task |-> x]
      BY <3>1 DEF NoLostWake
    <3>3. caller'[d] = caller[d]
      BY <1>4, <2>1, <3>2 DEF WakeKernelThread, TypeOK
    <3> QED
      BY <3>2, <3>3
  <2> QED
    BY <2>2, Zenon DEF NoLostWake
<1>5. ASSUME NEW c \in Callers, Spin(c) PROVE NoLostWake'
  BY <1>5, Zenon DEF Spin, NoLostWake, TypeOK
<1>6. ASSUME Pop PROVE NoLostWake'
  BY <1>6, Zenon DEF Pop, NoLostWake, TypeOK
<1>7. ASSUME Sleep PROVE NoLostWake'
  BY <1>7, Zenon DEF Sleep, NoLostWake, TypeOK
<1>8. ASSUME Unlock PROVE NoLostWake'
  BY <1>8, Zenon DEF Unlock, NoLostWake, TypeOK
<1>9. ASSUME Clear PROVE NoLostWake'
  BY <1>9, Zenon DEF Clear, NoLostWake, TypeOK
<1>10. ASSUME PollPending PROVE NoLostWake'
  BY <1>10, Zenon DEF PollPending, NoLostWake, TypeOK
<1>11. ASSUME PollAgain PROVE NoLostWake'
  BY <1>11, Zenon DEF PollAgain, NoLostWake, TypeOK
<1>12. ASSUME PollReady PROVE NoLostWake'
  BY <1>12, Zenon DEF PollReady, NoLostWake, TypeOK
<1>13. ASSUME PutBack PROVE NoLostWake'
  <2>1. UNCHANGED <<event, caller>> /\ pc = "put"
    BY <1>13 DEF PutBack
  <2>2. suspend' = suspend \/ (~flag[task] /\ suspend' = suspend \cup {task})
    <3>1. CASE flag[task]
      BY <1>13, <3>1 DEF PutBack
    <3>2. CASE ~flag[task]
      BY <1>13, <3>2 DEF PutBack
    <3> QED
      BY <3>1, <3>2
  <2>3. ASSUME event[task], ~flag[task]
        PROVE  \E d \in Callers : caller[d] = [do |-> "wake", task |-> task]
    BY <2>1, <2>3 DEF RunInv
  <2> QED
    BY <2>1, <2>2, <2>3, Zenon DEF NoLostWake
<1>14. ASSUME Preempt PROVE NoLostWake'
  BY <1>14, Zenon DEF Preempt, NoLostWake, TypeOK
<1>15. ASSUME Dispatch PROVE NoLostWake'
  BY <1>15, Zenon DEF Dispatch, NoLostWake, TypeOK
<1> QED
  BY <1>1, <1>2, <1>3, <1>4, <1>5, <1>6, <1>7, <1>8, <1>9, <1>10, <1>11, <1>12, <1>13, <1>14, <1>15 DEF Action

(* Who makes a task ready goes on to wake the kernel thread.               *)
LEMMA SleepStep ==
  ASSUME IndInv, Action, TypeOK'
  PROVE  KernelNotAsleep'
<1> USE RuntimeAssumption DEF IndInv, Idle
<1>1. ASSUME NEW c \in Callers, NEW t \in Tasks, Spawn(c, t) PROVE KernelNotAsleep'
  BY <1>1, ZenonT(30) DEF Spawn, KernelNotAsleep, TypeOK
<1>2. ASSUME NEW c \in Callers, NEW t \in Tasks, Happen(c, t) PROVE KernelNotAsleep'
  BY <1>2 DEF Happen, KernelNotAsleep, TypeOK
<1>3. ASSUME NEW c \in Callers, WakeByRef(c) PROVE KernelNotAsleep'
  BY <1>3 DEF WakeByRef, KernelNotAsleep, TypeOK
<1>4. ASSUME NEW c \in Callers, WakeKernelThread(c) PROVE KernelNotAsleep'
  BY <1>4 DEF WakeKernelThread, KernelNotAsleep, TypeOK
<1>5. ASSUME NEW c \in Callers, Spin(c) PROVE KernelNotAsleep'
  BY <1>5 DEF Spin, KernelNotAsleep, TypeOK
<1>6. ASSUME Pop PROVE KernelNotAsleep'
  BY <1>6 DEF Pop, KernelNotAsleep, TypeOK
<1>7. ASSUME Sleep PROVE KernelNotAsleep'
  BY <1>7 DEF Sleep, KernelNotAsleep, TypeOK
<1>8. ASSUME Unlock PROVE KernelNotAsleep'
  BY <1>8 DEF Unlock, KernelNotAsleep, TypeOK
<1>9. ASSUME Clear PROVE KernelNotAsleep'
  BY <1>9 DEF Clear, KernelNotAsleep, TypeOK
<1>10. ASSUME PollPending PROVE KernelNotAsleep'
  BY <1>10 DEF PollPending, KernelNotAsleep, TypeOK
<1>11. ASSUME PollAgain PROVE KernelNotAsleep'
  BY <1>11 DEF PollAgain, KernelNotAsleep, TypeOK
<1>12. ASSUME PollReady PROVE KernelNotAsleep'
  BY <1>12 DEF PollReady, KernelNotAsleep, TypeOK
<1>13. ASSUME PutBack PROVE KernelNotAsleep'
  BY <1>13 DEF PutBack, KernelNotAsleep, TypeOK
<1>14. ASSUME Preempt PROVE KernelNotAsleep'
  BY <1>14 DEF Preempt, KernelNotAsleep, TypeOK
<1>15. ASSUME Dispatch PROVE KernelNotAsleep'
  BY <1>15 DEF Dispatch, KernelNotAsleep, TypeOK
<1> QED
  BY <1>1, <1>2, <1>3, <1>4, <1>5, <1>6, <1>7, <1>8, <1>9, <1>10, <1>11, <1>12, <1>13, <1>14, <1>15 DEF Action

-----------------------------------------------------------------------------
(* Nothing is spawned at first.                                            *)
LEMMA InitRuntime == Init => IndInv
<1> SUFFICES ASSUME Init PROVE IndInv
  OBVIOUS
<1> USE RuntimeAssumption DEF Init, Idle
<1>1. TypeOK
  <2>1. caller \in [Callers -> [do : {"idle", "wake", "thread"},
                               task : Tasks \cup {NoTask}]]
    OBVIOUS
  <2>2. /\ life \in [Tasks -> {"unborn", "alive", "done"}]
        /\ flag \in [Tasks -> BOOLEAN] /\ event \in [Tasks -> BOOLEAN]
    OBVIOUS
  <2>3. ready \in Seq(Tasks) /\ suspend \subseteq Tasks
    OBVIOUS
  <2> QED
    BY <2>1, <2>2, <2>3, ZenonT(40) DEF TypeOK
<1>2. RunInv /\ CallerInv /\ NoLostWake /\ KernelNotAsleep
  BY DEF RunInv, CallerInv, NoLostWake, KernelNotAsleep
<1>3. OnePlace
  BY DEF OnePlace
<1> QED
  BY <1>1, <1>2, <1>3 DEF IndInv

(* Every step preserves the invariant.                                     *)
LEMMA NextRuntime == IndInv /\ [Next]_vars => IndInv'
<1> SUFFICES ASSUME IndInv, [Next]_vars PROVE IndInv'
  OBVIOUS
<1>1. CASE Next
  <2>1. Action
    BY <1>1 DEF Next, RunStep, CallerStep, Action
  <2>2. TypeOK'
    BY <2>1, TypeStep
  <2>3. RunInv' /\ CallerInv' /\ OnePlace' /\ NoLostWake' /\ KernelNotAsleep'
    BY <2>1, <2>2, RunStepInv, PlaceStep, WakeStep, SleepStep
  <2> QED
    BY <2>2, <2>3 DEF IndInv
<1>2. CASE UNCHANGED vars
  BY <1>2 DEF vars, IndInv, TypeOK, RunInv, CallerInv, OnePlace, NoLostWake,
              KernelNotAsleep
<1> QED
  BY <1>1, <1>2

(* The runtime's inductive invariant.                                      *)
THEOREM RuntimeInvariant == Spec => []IndInv
BY InitRuntime, NextRuntime, PTL DEF Spec

(* Every live task is in exactly one place.                                *)
THEOREM TasksInOnePlace == Spec => []OnePlace
<1>1. IndInv => OnePlace
  BY DEF IndInv
<1> QED
  BY <1>1, RuntimeInvariant, PTL

(* No task sleeps through its event.                                       *)
THEOREM NoTaskForgotten == Spec => []NoLostWake
<1>1. IndInv => NoLostWake
  BY DEF IndInv
<1> QED
  BY <1>1, RuntimeInvariant, PTL

(* The kernel thread does not sleep while a task is ready, unless somebody *)
(* is about to wake it.                                                    *)
THEOREM KernelThreadAwake == Spec => []KernelNotAsleep
<1>1. IndInv => KernelNotAsleep
  BY DEF IndInv
<1> QED
  BY <1>1, RuntimeInvariant, PTL

(* Every task is in one place, none that was woken is forgotten, and the   *)
(* kernel thread is awake, or about to be, while a task is ready.          *)
THEOREM RuntimeIsSafe == Spec => []RuntimeSafe
<1>1. IndInv => TypeOK
  BY DEF IndInv
<1>2. Spec => []TypeOK
  BY <1>1, RuntimeInvariant, PTL
<1> QED
  BY <1>2, TasksInOnePlace, NoTaskForgotten, KernelThreadAwake, PTL
  DEF RuntimeSafe
-----------------------------------------------------------------------------
(* block_on().                                                             *)

(* Everything that can happen in one step, action by action.               *)
BlockAction ==
  \/ MarkLock \/ MarkStore \/ Check \/ Poll \/ TestLock \/ Continue \/ Yield
  \/ Preempted \/ Claim \/ Resume \/ TickWakes \/ TickSpins
  \/ \E w \in Wakers : \/ Ripen(w) \/ Spurious(w) \/ WakeLock(w)
                       \/ WakeStore(w) \/ WakeThread(w) \/ Stop(w)

(* Types are preserved.                                                    *)
LEMMA BlockTypeStep ==
  ASSUME BlockIndInv, BlockAction
  PROVE  BlockTypeOK'
<1> USE BlockOnAssumption DEF BlockIndInv, At, threadVars, Woken
<1>1. ASSUME MarkLock PROVE BlockTypeOK'
  BY <1>1 DEF MarkLock, BlockTypeOK, PlaceInv
<1>2. ASSUME MarkStore PROVE BlockTypeOK'
  BY <1>2 DEF MarkStore, BlockTypeOK, PlaceInv
<1>3. ASSUME Check PROVE BlockTypeOK'
  BY <1>3 DEF Check, BlockTypeOK, PlaceInv
<1>4. ASSUME Poll PROVE BlockTypeOK'
  BY <1>4, Zenon DEF Poll, BlockTypeOK, PlaceInv
<1>5. ASSUME TestLock PROVE BlockTypeOK'
  BY <1>5 DEF TestLock, BlockTypeOK, PlaceInv
<1>6. ASSUME Continue PROVE BlockTypeOK'
  BY <1>6 DEF Continue, BlockTypeOK, PlaceInv
<1>7. ASSUME Yield PROVE BlockTypeOK'
  BY <1>7, Zenon DEF Yield, BlockTypeOK, PlaceInv
<1>8. ASSUME Preempted PROVE BlockTypeOK'
  BY <1>8, Zenon DEF Preempted, BlockTypeOK, PlaceInv
<1>9. ASSUME Claim PROVE BlockTypeOK'
  BY <1>9 DEF Claim, BlockTypeOK, PlaceInv
<1>10. ASSUME Resume PROVE BlockTypeOK'
  BY <1>10, Zenon DEF Resume, BlockTypeOK, PlaceInv
<1>11. ASSUME TickWakes PROVE BlockTypeOK'
  BY <1>11, Zenon DEF TickWakes, BlockTypeOK, PlaceInv
<1>12. ASSUME TickSpins PROVE BlockTypeOK'
  BY <1>12 DEF TickSpins, BlockTypeOK, PlaceInv
<1>13. ASSUME NEW w \in Wakers, Ripen(w) PROVE BlockTypeOK'
  BY <1>13 DEF Ripen, BlockTypeOK, PlaceInv
<1>14. ASSUME NEW w \in Wakers, Spurious(w) PROVE BlockTypeOK'
  BY <1>14 DEF Spurious, BlockTypeOK, PlaceInv
<1>15. ASSUME NEW w \in Wakers, WakeLock(w) PROVE BlockTypeOK'
  BY <1>15 DEF WakeLock, BlockTypeOK, PlaceInv
<1>16. ASSUME NEW w \in Wakers, WakeStore(w) PROVE BlockTypeOK'
  BY <1>16, ZenonT(40) DEF WakeStore, BlockTypeOK, PlaceInv
<1>17. ASSUME NEW w \in Wakers, WakeThread(w) PROVE BlockTypeOK'
  BY <1>17 DEF WakeThread, BlockTypeOK, PlaceInv
<1>18. ASSUME NEW w \in Wakers, Stop(w) PROVE BlockTypeOK'
  BY <1>18 DEF Stop, BlockTypeOK, PlaceInv
<1> QED
  BY <1>1, <1>2, <1>3, <1>4, <1>5, <1>6, <1>7, <1>8, <1>9,
     <1>10, <1>11, <1>12, <1>13, <1>14, <1>15, <1>16, <1>17, <1>18 DEF BlockAction

(* The lock is where the code is.                                          *)
LEMMA BlockPlaceStep ==
  ASSUME BlockIndInv, BlockAction, BlockTypeOK'
  PROVE  PlaceInv'
<1> USE BlockOnAssumption DEF BlockIndInv, At, threadVars, Woken
<1>1. ASSUME MarkLock PROVE PlaceInv'
  BY <1>1 DEF MarkLock, BlockTypeOK, PlaceInv
<1>2. ASSUME MarkStore PROVE PlaceInv'
  BY <1>2 DEF MarkStore, BlockTypeOK, PlaceInv
<1>3. ASSUME Check PROVE PlaceInv'
  BY <1>3 DEF Check, BlockTypeOK, PlaceInv
<1>4. ASSUME Poll PROVE PlaceInv'
  BY <1>4 DEF Poll, BlockTypeOK, PlaceInv
<1>5. ASSUME TestLock PROVE PlaceInv'
  BY <1>5 DEF TestLock, BlockTypeOK, PlaceInv
<1>6. ASSUME Continue PROVE PlaceInv'
  BY <1>6 DEF Continue, BlockTypeOK, PlaceInv
<1>7. ASSUME Yield PROVE PlaceInv'
  BY <1>7 DEF Yield, BlockTypeOK, PlaceInv
<1>8. ASSUME Preempted PROVE PlaceInv'
  BY <1>8 DEF Preempted, BlockTypeOK, PlaceInv
<1>9. ASSUME Claim PROVE PlaceInv'
  BY <1>9 DEF Claim, BlockTypeOK, PlaceInv
<1>10. ASSUME Resume PROVE PlaceInv'
  BY <1>10 DEF Resume, BlockTypeOK, PlaceInv
<1>11. ASSUME TickWakes PROVE PlaceInv'
  BY <1>11 DEF TickWakes, BlockTypeOK, PlaceInv
<1>12. ASSUME TickSpins PROVE PlaceInv'
  BY <1>12 DEF TickSpins, BlockTypeOK, PlaceInv
<1>13. ASSUME NEW w \in Wakers, Ripen(w) PROVE PlaceInv'
  BY <1>13 DEF Ripen, BlockTypeOK, PlaceInv
<1>14. ASSUME NEW w \in Wakers, Spurious(w) PROVE PlaceInv'
  BY <1>14 DEF Spurious, BlockTypeOK, PlaceInv
<1>15. ASSUME NEW w \in Wakers, WakeLock(w) PROVE PlaceInv'
  BY <1>15 DEF WakeLock, BlockTypeOK, PlaceInv
<1>16. ASSUME NEW w \in Wakers, WakeStore(w) PROVE PlaceInv'
  BY <1>16 DEF WakeStore, BlockTypeOK, PlaceInv
<1>17. ASSUME NEW w \in Wakers, WakeThread(w) PROVE PlaceInv'
  BY <1>17 DEF WakeThread, BlockTypeOK, PlaceInv
<1>18. ASSUME NEW w \in Wakers, Stop(w) PROVE PlaceInv'
  BY <1>18 DEF Stop, BlockTypeOK, PlaceInv
<1> QED
  BY <1>1, <1>2, <1>3, <1>4, <1>5, <1>6, <1>7, <1>8, <1>9,
     <1>10, <1>11, <1>12, <1>13, <1>14, <1>15, <1>16, <1>17, <1>18 DEF BlockAction

(* An event is passed on from the waker to the flag.                       *)
LEMMA EventStep ==
  ASSUME BlockIndInv, BlockAction, BlockTypeOK'
  PROVE  EventInv'
<1> USE BlockOnAssumption DEF BlockIndInv, At, threadVars, Woken
<1>1. ASSUME MarkLock PROVE EventInv'
  BY <1>1 DEF MarkLock, BlockTypeOK, PlaceInv, EventInv
<1>2. ASSUME MarkStore PROVE EventInv'
  BY <1>2 DEF MarkStore, BlockTypeOK, PlaceInv, EventInv
<1>3. ASSUME Check PROVE EventInv'
  BY <1>3 DEF Check, BlockTypeOK, PlaceInv, EventInv
<1>4. ASSUME Poll PROVE EventInv'
  BY <1>4 DEF Poll, BlockTypeOK, PlaceInv, EventInv
<1>5. ASSUME TestLock PROVE EventInv'
  BY <1>5 DEF TestLock, BlockTypeOK, PlaceInv, EventInv
<1>6. ASSUME Continue PROVE EventInv'
  BY <1>6 DEF Continue, BlockTypeOK, PlaceInv, EventInv
<1>7. ASSUME Yield PROVE EventInv'
  BY <1>7 DEF Yield, BlockTypeOK, PlaceInv, EventInv
<1>8. ASSUME Preempted PROVE EventInv'
  BY <1>8 DEF Preempted, BlockTypeOK, PlaceInv, EventInv
<1>9. ASSUME Claim PROVE EventInv'
  BY <1>9 DEF Claim, BlockTypeOK, PlaceInv, EventInv
<1>10. ASSUME Resume PROVE EventInv'
  BY <1>10 DEF Resume, BlockTypeOK, PlaceInv, EventInv
<1>11. ASSUME TickWakes PROVE EventInv'
  BY <1>11 DEF TickWakes, BlockTypeOK, PlaceInv, EventInv
<1>12. ASSUME TickSpins PROVE EventInv'
  BY <1>12 DEF TickSpins, BlockTypeOK, PlaceInv, EventInv
<1>13. ASSUME NEW w \in Wakers, Ripen(w) PROVE EventInv'
  BY <1>13 DEF Ripen, BlockTypeOK, PlaceInv, EventInv
<1>14. ASSUME NEW w \in Wakers, Spurious(w) PROVE EventInv'
  BY <1>14 DEF Spurious, BlockTypeOK, PlaceInv, EventInv
<1>15. ASSUME NEW w \in Wakers, WakeLock(w) PROVE EventInv'
  BY <1>15 DEF WakeLock, BlockTypeOK, PlaceInv, EventInv
<1>16. ASSUME NEW w \in Wakers, WakeStore(w) PROVE EventInv'
  BY <1>16 DEF WakeStore, BlockTypeOK, PlaceInv, EventInv
<1>17. ASSUME NEW w \in Wakers, WakeThread(w) PROVE EventInv'
  BY <1>17 DEF WakeThread, BlockTypeOK, PlaceInv, EventInv
<1>18. ASSUME NEW w \in Wakers, Stop(w) PROVE EventInv'
  BY <1>18 DEF Stop, BlockTypeOK, PlaceInv, EventInv
<1> QED
  BY <1>1, <1>2, <1>3, <1>4, <1>5, <1>6, <1>7, <1>8, <1>9,
     <1>10, <1>11, <1>12, <1>13, <1>14, <1>15, <1>16, <1>17, <1>18 DEF BlockAction

(* Who clears the flag goes on to wake the thread.                         *)
LEMMA WokenStep ==
  ASSUME BlockIndInv, BlockAction, BlockTypeOK'
  PROVE  WokenInv'
<1> USE BlockOnAssumption DEF BlockIndInv, At, threadVars, Woken
<1>1. ASSUME MarkLock PROVE WokenInv'
  BY <1>1 DEF MarkLock, BlockTypeOK, PlaceInv, WokenInv
<1>2. ASSUME MarkStore PROVE WokenInv'
  BY <1>2 DEF MarkStore, BlockTypeOK, PlaceInv, WokenInv
<1>3. ASSUME Check PROVE WokenInv'
  BY <1>3 DEF Check, BlockTypeOK, PlaceInv, WokenInv
<1>4. ASSUME Poll PROVE WokenInv'
  BY <1>4 DEF Poll, BlockTypeOK, PlaceInv, WokenInv
<1>5. ASSUME TestLock PROVE WokenInv'
  BY <1>5 DEF TestLock, BlockTypeOK, PlaceInv, WokenInv
<1>6. ASSUME Continue PROVE WokenInv'
  BY <1>6 DEF Continue, BlockTypeOK, PlaceInv, WokenInv
<1>7. ASSUME Yield PROVE WokenInv'
  BY <1>7 DEF Yield, BlockTypeOK, PlaceInv, WokenInv
<1>8. ASSUME Preempted PROVE WokenInv'
  BY <1>8 DEF Preempted, BlockTypeOK, PlaceInv, WokenInv
<1>9. ASSUME Claim PROVE WokenInv'
  BY <1>9 DEF Claim, BlockTypeOK, PlaceInv, WokenInv
<1>10. ASSUME Resume PROVE WokenInv'
  BY <1>10 DEF Resume, BlockTypeOK, PlaceInv, WokenInv
<1>11. ASSUME TickWakes PROVE WokenInv'
  BY <1>11 DEF TickWakes, BlockTypeOK, PlaceInv, WokenInv
<1>12. ASSUME TickSpins PROVE WokenInv'
  BY <1>12 DEF TickSpins, BlockTypeOK, PlaceInv, WokenInv
<1>13. ASSUME NEW w \in Wakers, Ripen(w) PROVE WokenInv'
  BY <1>13 DEF Ripen, BlockTypeOK, PlaceInv, WokenInv
<1>14. ASSUME NEW w \in Wakers, Spurious(w) PROVE WokenInv'
  BY <1>14 DEF Spurious, BlockTypeOK, PlaceInv, WokenInv
<1>15. ASSUME NEW w \in Wakers, WakeLock(w) PROVE WokenInv'
  BY <1>15 DEF WakeLock, BlockTypeOK, PlaceInv, WokenInv
<1>16. ASSUME NEW w \in Wakers, WakeStore(w) PROVE WokenInv'
  BY <1>16 DEF WakeStore, BlockTypeOK, PlaceInv, WokenInv
<1>17. ASSUME NEW w \in Wakers, WakeThread(w) PROVE WokenInv'
  BY <1>17 DEF WakeThread, BlockTypeOK, PlaceInv, WokenInv
<1>18. ASSUME NEW w \in Wakers, Stop(w) PROVE WokenInv'
  BY <1>18 DEF Stop, BlockTypeOK, PlaceInv, WokenInv
<1> QED
  BY <1>1, <1>2, <1>3, <1>4, <1>5, <1>6, <1>7, <1>8, <1>9,
     <1>10, <1>11, <1>12, <1>13, <1>14, <1>15, <1>16, <1>17, <1>18 DEF BlockAction

-----------------------------------------------------------------------------
(* The thread starts running, with nobody holding its waker.               *)
LEMMA InitBlockOn == BlockInit => BlockIndInv
<1> SUFFICES ASSUME BlockInit PROVE BlockIndInv
  OBVIOUS
<1> USE BlockOnAssumption DEF BlockInit
<1>1. BlockTypeOK
  BY Zenon DEF BlockTypeOK
<1>2. PlaceInv /\ EventInv /\ WokenInv
  BY DEF PlaceInv, EventInv, WokenInv
<1> QED
  BY <1>1, <1>2 DEF BlockIndInv

(* Every step preserves the invariant.                                     *)
LEMMA NextBlockOn == BlockIndInv /\ [BlockNext]_blockVars => BlockIndInv'
<1> SUFFICES ASSUME BlockIndInv, [BlockNext]_blockVars PROVE BlockIndInv'
  OBVIOUS
<1>1. CASE BlockNext
  <2>1. BlockAction
    BY <1>1 DEF BlockNext, ThreadsOnly, BlockOnStep, SchedulerStep, WakerStep, Tick,
                BlockAction
  <2>2. BlockTypeOK'
    BY <2>1, BlockTypeStep
  <2>3. PlaceInv' /\ EventInv' /\ WokenInv'
    BY <2>1, <2>2, BlockPlaceStep, EventStep, WokenStep
  <2> QED
    BY <2>2, <2>3 DEF BlockIndInv
<1>2. CASE UNCHANGED blockVars
  BY <1>2 DEF blockVars, BlockIndInv, BlockTypeOK, PlaceInv, EventInv, WokenInv
<1> QED
  BY <1>1, <1>2

(* No wake-up is lost between the test of `pending' and the suspension.    *)
THEOREM BlockOnLosesNoWake == BlockSpec => []WakeNotLost
<1>1. BlockIndInv => WakeNotLost
  BY DEF BlockIndInv, BlockTypeOK, EventInv, WokenInv, WakeNotLost
<1> QED
  BY <1>1, InitBlockOn, NextBlockOn, PTL DEF BlockSpec

(* A suspended thread has released the lock its wakers need.               *)
THEOREM YieldReleases == BlockSpec => []SuspendedHoldsNothing
<1>1. BlockIndInv => SuspendedHoldsNothing
  BY DEF BlockIndInv, PlaceInv, SuspendedHoldsNothing
<1> QED
  BY <1>1, InitBlockOn, NextBlockOn, PTL DEF BlockSpec

(* block_on() misses no wake and suspends its thread without the lock its  *)
(* waker needs.                                                            *)
THEOREM BlockOnIsSafe == BlockSpec => []BlockOnSafe
<1>1. BlockIndInv => BlockTypeOK
  BY DEF BlockIndInv
<1>2. BlockSpec => []BlockTypeOK
  BY <1>1, InitBlockOn, NextBlockOn, PTL DEF BlockSpec
<1> QED
  BY <1>2, BlockOnLosesNoWake, YieldReleases, PTL DEF BlockOnSafe

-----------------------------------------------------------------------------
(* File handles.                                                          *)
-----------------------------------------------------------------------------

(* A task, field by field.                                                   *)
LEMMA JobIs ==
    ASSUME NEW t, NEW do, NEW f, NEW h
    PROVE  /\ Job(t, do, f, h).of = t /\ Job(t, do, f, h).do = do
           /\ Job(t, do, f, h).f = f /\ Job(t, do, f, h).h = h
           /\ t \in Users \cup {0} /\ do \in Calls \cup {"close"} /\ f \in Files \cup {NoFile} /\ h \in Objects \cup {0}
                => Job(t, do, f, h) \in Jobs
  BY DEF Job, Jobs

CloseOf(h) == Job(0, "close", NoFile, h)
UsedIs(h) == h \in Range(handles) \/ \E j \in jobs : j.do = "op" /\ j.h = h

LEMMA CloseIs ==
    ASSUME NEW h \in Objects
    PROVE  CloseOf(h) \in Jobs /\ CloseOf(h).do = "close" /\ CloseOf(h).h = h
  BY JobIs DEF CloseOf

(* What a dropped Arc leaves: the tasks there were, and a close if none of   *)
(* them and no slot refers to the object.                                    *)
LEMMA DropArcIs ==
    ASSUME NEW h, NEW slots, NEW rest, NEW j \in DropArc(h, slots, rest)
    PROVE  \/ j \in rest
           \/ j = CloseOf(h) /\ h # 0 /\ h \notin Range(slots) /\ ~\E k \in rest : k.do = "op" /\ k.h = h
  BY DEF DropArc, CloseOf

LEMMA DropArcKeeps ==
    ASSUME NEW h, NEW slots, NEW rest
    PROVE  rest \subseteq DropArc(h, slots, rest)
  BY DEF DropArc

(* A new task of a thread that has none.                                     *)
LEMMA Spawned ==
    ASSUME FileInv, NEW t \in Users, NEW job \in Jobs, Free(t), SpawnAndWait(t, job),
           job.of = t, job.do \in Calls, job.do = "open" => job.f \in Files,
           job.do = "op" => job.h \in Range(handles) \ {0},
           UNCHANGED <<hst, handles, file, occupied, leaked>>
    PROVE  FileInv'
<1>1. /\ hst \in [Users -> {"ready", "stopping", "lost", "terminated"}]
      /\ waits \in [Users -> Calls \cup {"none"}] /\ reply \in [Users -> Files \cup {"none", "err", "ok"}]
      /\ jobs \subseteq Jobs /\ handles \in Seq(Objects \cup {0})
  BY DEF FileInv, HandlesSafe, FileTypes
<1>2. hst[t] = "ready" /\ waits[t] = "none" /\ reply[t] = "none"
  BY Zenon DEF Free, FileInv, HandlesSafe, JobInv
<1>3. jobs' = jobs \cup {job} /\ waits' = [waits EXCEPT ![t] = job.do] /\ reply' = [reply EXCEPT ![t] = "none"]
  BY DEF SpawnAndWait
<1>4. reply' = reply
  BY <1>1, <1>2, <1>3
<1>5. /\ waits' \in [Users -> Calls \cup {"none"}] /\ waits'[t] # "none"
      /\ \A u \in Users \ {t} : waits'[u] = waits[u]
  BY <1>1, <1>3 DEF Calls
<1>6. \A j \in jobs : j.do \in Calls => j.of # t
  BY <1>2 DEF FileInv, HandlesSafe, JobInv
<1>7. Range(handles) \ {0} \subseteq Objects
  BY <1>1 DEF Range
<1>8. FileTypes'
  BY <1>1, <1>3, <1>4, <1>5, <1>7, ZenonT(30) DEF FileInv, HandlesSafe, FileTypes, Calls
<1>9. JobInv'
  <2>1. \A j, k \in jobs' : j.do \in Calls /\ k.do \in Calls /\ j.of = k.of => j = k
    BY <1>3, <1>6, ZenonT(40) DEF FileInv, HandlesSafe, JobInv
  <2>2. ASSUME NEW j \in jobs', j.do \in Calls
        PROVE  (waits'[j.of] = "none" => hst'[j.of] # "ready") /\ reply'[j.of] = "none"
    <3>1. CASE j = job
      BY <1>2, <1>4, <1>5, <3>1
    <3>2. CASE j \in jobs
      <4>1. j.of \in Users \ {t}
        BY <1>6, <2>2, <3>2 DEF FileInv, HandlesSafe, FileTypes
      <4> QED
        BY <1>4, <1>5, <2>2, <3>2, <4>1 DEF FileInv, HandlesSafe, JobInv
    <3> QED
      BY <1>3, <3>1, <3>2
  <2>3. \A u \in Users : waits'[u] = "none" => reply'[u] = "none"
    BY <1>4, <1>5, ZenonT(40) DEF FileInv, HandlesSafe, JobInv
  <2> QED
    BY <2>1, <2>2, <2>3, ZenonT(40) DEF JobInv
<1>10. OwnedOccupied' /\ OneUserPerFile' /\ OccupiedOwned'
  BY <1>3, <1>4 DEF FileInv, HandlesSafe, OwnedOccupied, OneUserPerFile, OccupiedOwned, Made, Calls
<1>11. OpenWhileUsed'
  BY <1>3 DEF FileInv, HandlesSafe, OpenWhileUsed, Made, Calls
<1> QED
  BY <1>8, <1>9, <1>10, <1>11 DEF FileInv, HandlesSafe

LEMMA OpenStep ==
    ASSUME FileInv, NEW t \in Users, NEW f \in Files, open(t, f)
    PROVE  FileInv'
<1> DEFINE job == Job(t, "open", f, 0)
<1>1. job \in Jobs /\ job.of = t /\ job.do = "open" /\ job.f = f
  BY JobIs DEF Calls
<1>2. Free(t) /\ SpawnAndWait(t, job) /\ UNCHANGED <<hst, handles, file, occupied, leaked>>
  BY DEF open
<1> HIDE DEF job
<1> QED
  BY <1>1, <1>2, Spawned DEF Calls

LEMMA OperateStep ==
    ASSUME FileInv, NEW t \in Users, NEW i, Operate(t, i)
    PROVE  FileInv'
<1> DEFINE job == Job(t, "op", NoFile, handles[i])
<1>1. i \in DOMAIN handles /\ handles[i] # 0 /\ handles \in Seq(Objects \cup {0})
  BY DEF Operate, FileInv, HandlesSafe, FileTypes
<1>2. handles[i] \in Range(handles) \ {0} /\ handles[i] \in Objects
  BY <1>1 DEF Range
<1>3. job \in Jobs /\ job.of = t /\ job.do = "op" /\ job.h = handles[i]
  BY <1>2, JobIs DEF Calls
<1>4. Free(t) /\ SpawnAndWait(t, job) /\ UNCHANGED <<hst, handles, file, occupied, leaked>>
  BY DEF Operate
<1> HIDE DEF job
<1> QED
  BY <1>2, <1>3, <1>4, Spawned DEF Calls

(* References go, answers other than files arrive, and closes are spawned    *)
(* for objects nobody refers to any more.                                    *)
LEMMA Released ==
    ASSUME FileInv, UNCHANGED <<hst, waits, file, occupied>>,
           reply' \in [Users -> Files \cup {"none", "err", "ok"}],
           handles' \in Seq(Objects \cup {0}), Range(handles') \subseteq Range(handles) \cup {0},
           \A j \in jobs' : j \in jobs \/ \E h \in Made : j = CloseOf(h) /\ ~UsedIs(h)',
           \A u \in Users : \/ reply'[u] = reply[u]
                            \/ /\ reply'[u] \in {"ok", "err"} /\ reply[u] = "none" /\ waits[u] # "none"
                               /\ \A j \in jobs' : j.do \in Calls => j.of # u,
           leaked \subseteq leaked'
    PROVE  FileInv'
<1>1. Made \subseteq Objects /\ Made' = Made
  BY Zenon DEF Made
<1>2. \A j \in jobs' : j.do \in Calls => j \in jobs
  BY <1>1, CloseIs DEF Calls
<1>3. \A j \in jobs' : j \in Jobs
  BY <1>1, CloseIs DEF FileInv, HandlesSafe, FileTypes
<1>4. FileTypes'
  <2>1. ASSUME NEW j \in jobs'
        PROVE  /\ j.do \in Calls => j.of \in Users
               /\ j.do = "open" => j.f \in Files
               /\ j.do # "open" => j.h \in Objects
               /\ j.do = "close" => j = CloseOf(j.h)
    <3>1. CASE j \in jobs
      BY <3>1 DEF FileInv, HandlesSafe, FileTypes, CloseOf
    <3>2. CASE j \notin jobs
      BY <1>1, <3>2, CloseIs DEF Calls
    <3> QED
      BY <3>1, <3>2
  <2> QED
    BY <1>3, <2>1 DEF FileInv, HandlesSafe, FileTypes, CloseOf
<1>5. JobInv'
  <2>1. \A j, k \in jobs' : j.do \in Calls /\ k.do \in Calls /\ j.of = k.of => j = k
    BY <1>2 DEF FileInv, HandlesSafe, JobInv
  <2>2. ASSUME NEW j \in jobs', j.do \in Calls
        PROVE  (waits[j.of] = "none" => hst[j.of] # "ready") /\ reply'[j.of] = "none"
    <3>1. j \in jobs /\ j.of \in Users
      BY <1>2, <2>2 DEF FileInv, HandlesSafe, FileTypes
    <3> QED
      BY <2>2, <3>1 DEF FileInv, HandlesSafe, JobInv
  <2>3. \A u \in Users : waits[u] = "none" => reply'[u] = "none"
    BY DEF FileInv, HandlesSafe, JobInv
  <2> QED
    BY <2>1, <2>2, <2>3 DEF JobInv
<1>6. \A u \in Users : reply'[u] \in Files => reply'[u] = reply[u]
  BY FileAssumption
<1>7. \A h \in Made : file[h] \in Files
  BY <1>1 DEF FileInv, HandlesSafe, FileTypes, Made
<1>8. OwnedOccupied'
  <2>1. \A j \in jobs' : j.do = "close" => j.h \in Made
    BY <1>1, CloseIs DEF FileInv, HandlesSafe, OwnedOccupied
  <2>2. \A t, u \in Users : reply'[t] \in Files /\ reply'[t] = reply'[u] => t = u
    BY <1>6 DEF FileInv, HandlesSafe, OwnedOccupied
  <2> QED
    BY <1>1, <1>6, <2>1, <2>2 DEF FileInv, HandlesSafe, OwnedOccupied
<1>9. OneUserPerFile'
  <2>1. ASSUME NEW t \in Users, NEW h \in Made
        PROVE  reply'[t] # file[h]
    BY <1>6, <1>7 DEF FileInv, HandlesSafe, OneUserPerFile
  <2> QED
    BY <1>1, <2>1, ZenonT(30) DEF FileInv, HandlesSafe, OneUserPerFile
<1>10. OccupiedOwned'
  <2>1. ASSUME NEW t \in Users, NEW f \in Files, reply[t] = f
        PROVE  reply'[t] = f
    BY <2>1, FileAssumption
  <2>2. ASSUME NEW f \in occupied
        PROVE  (\E h \in Made : file[h] = f) \/ (\E t \in Users : reply'[t] = f) \/ f \in leaked'
    <3>1. CASE \E t \in Users : reply[t] = f
      <4>1. PICK t \in Users : reply[t] = f
        BY <3>1
      <4> QED
        BY <2>1, <4>1 DEF FileInv, HandlesSafe, FileTypes
    <3> QED
      BY <3>1, ZenonT(40) DEF FileInv, HandlesSafe, OccupiedOwned
  <2> QED
    BY <1>1, <2>2 DEF OccupiedOwned
<1>11. OpenWhileUsed'
  <2>1. ASSUME NEW h \in Objects, UsedIs(h)'
        PROVE  h \in Made /\ file[h] \in occupied /\ ~\E j \in jobs' : j.do = "close" /\ j.h = h
    <3>1. UsedIs(h)
      BY <1>2, <2>1, FileAssumption DEF UsedIs, Objects, Calls
    <3>2. h \in Made /\ file[h] \in occupied /\ ~\E j \in jobs : j.do = "close" /\ j.h = h
      BY <3>1 DEF FileInv, HandlesSafe, OpenWhileUsed, UsedIs
    <3>3. ASSUME NEW j \in jobs', j.do = "close", j.h = h
          PROVE  FALSE
      BY <1>1, <2>1, <3>2, <3>3, CloseIs
    <3> QED
      BY <3>2, <3>3
  <2> QED
    BY <1>1, <2>1 DEF OpenWhileUsed, UsedIs
<1> QED
  BY <1>4, <1>5, <1>8, <1>9, <1>10, <1>11, ZenonT(40) DEF FileInv, HandlesSafe

LEMMA CloseHandleStep ==
    ASSUME FileInv, NEW t \in Users, NEW i, close_handle(t, i)
    PROVE  FileInv'
<1> PICK h : h = handles[i]
  OBVIOUS
<1>1. /\ i \in DOMAIN handles /\ h # 0 /\ handles \in Seq(Objects \cup {0})
      /\ handles' = [handles EXCEPT ![i] = 0] /\ jobs' = DropArc(h, handles', jobs)
      /\ UNCHANGED <<hst, waits, reply, file, occupied, leaked>>
  BY DEF close_handle, FileInv, HandlesSafe, FileTypes
<1>2. handles' \in Seq(Objects \cup {0}) /\ Range(handles') \subseteq Range(handles) \cup {0}
  BY <1>1 DEF Range
<1>3. h \in Objects /\ h \in Range(handles)
  BY <1>1 DEF Range
<1>4. h \in Made
  BY <1>3 DEF FileInv, HandlesSafe, OpenWhileUsed
<1>5. ASSUME NEW j \in jobs', j \notin jobs
      PROVE  j = CloseOf(h) /\ ~UsedIs(h)'
  <2>1. j = CloseOf(h) /\ h \notin Range(handles') /\ ~\E k \in jobs : k.do = "op" /\ k.h = h
    BY <1>1, <1>5, DropArcIs
  <2>2. ASSUME NEW k \in jobs', k.do = "op", k.h = h
        PROVE  FALSE
    <3>1. k \in jobs
      BY <1>1, <1>3, <2>2, DropArcIs, CloseIs
    <3> QED
      BY <2>1, <2>2, <3>1
  <2> QED
    BY <2>1, <2>2 DEF UsedIs
<1>6. reply' \in [Users -> Files \cup {"none", "err", "ok"}]
  BY <1>1 DEF FileInv, HandlesSafe, FileTypes
<1> QED
  BY <1>1, <1>2, <1>4, <1>5, <1>6, Released, ZenonT(40)

LEMMA ProcessDropStep == FileInv /\ ProcessDrop => FileInv'
<1> SUFFICES ASSUME FileInv, ProcessDrop PROVE FileInv'
  OBVIOUS
<1>1. /\ handles' = <<>> /\ jobs' = jobs \cup Closing(jobs)
      /\ UNCHANGED <<hst, waits, reply, file, occupied, leaked>>
  BY DEF ProcessDrop
<1>2. handles' \in Seq(Objects \cup {0}) /\ Range(handles') = {}
  BY <1>1 DEF Range
<1>3. Range(handles) \ {0} \subseteq Made /\ Made \subseteq Objects
  BY DEF FileInv, HandlesSafe, FileTypes, OpenWhileUsed, Range, Made
<1>4. \A j \in Closing(jobs) : \E h \in Made : j = CloseOf(h) /\ ~\E k \in jobs : k.do = "op" /\ k.h = h
  BY <1>3 DEF Closing, CloseOf
<1>5. ASSUME NEW k \in jobs', k.do = "op"
      PROVE  k \in jobs
  BY <1>1, <1>3, <1>4, <1>5, CloseIs
<1>6. ASSUME NEW j \in jobs', j \notin jobs
      PROVE  \E h \in Made : j = CloseOf(h) /\ ~UsedIs(h)'
  <2>1. PICK h \in Made : j = CloseOf(h) /\ ~\E k \in jobs : k.do = "op" /\ k.h = h
    BY <1>1, <1>4, <1>6
  <2>2. ~UsedIs(h)'
    BY <1>2, <1>5, <2>1 DEF UsedIs
  <2> QED
    BY <2>1, <2>2
<1>7. reply' \in [Users -> Files \cup {"none", "err", "ok"}] /\ Range(handles') \subseteq Range(handles) \cup {0}
      /\ leaked \subseteq leaked'
  BY <1>1, <1>2 DEF FileInv, HandlesSafe, FileTypes
<1> QED
  BY <1>1, <1>2, <1>6, <1>7, Released

(* An answer other than a file reaches a thread that waits for one, or none. *)
LEMMA Answered ==
    ASSUME FileInv, NEW j \in jobs, j.do \in Calls, NEW a \in {"ok", "err"}, SendReply(j, a)
    PROVE  /\ reply' \in [Users -> Files \cup {"none", "err", "ok"}] /\ leaked' = leaked
           /\ \A u \in Users : \/ reply'[u] = reply[u]
                               \/ /\ reply'[u] \in {"ok", "err"} /\ reply[u] = "none" /\ waits[u] # "none"
                                  /\ \A k \in jobs \ {j} : k.do \in Calls => k.of # u
<1>1. j.of \in Users /\ reply \in [Users -> Files \cup {"none", "err", "ok"}] /\ reply[j.of] = "none"
  BY DEF FileInv, HandlesSafe, FileTypes, JobInv
<1>2. a \notin Files
  BY FileAssumption
<1>3. CASE waits[j.of] # "none" /\ hst[j.of] # "lost"
  <2>1. reply' = [reply EXCEPT ![j.of] = a] /\ leaked' = leaked
    BY <1>3 DEF SendReply
  <2>2. \A k \in jobs \ {j} : k.do \in Calls => k.of # j.of
    BY DEF FileInv, HandlesSafe, JobInv
  <2> QED
    BY <1>1, <1>3, <2>1, <2>2
<1>4. CASE ~(waits[j.of] # "none" /\ hst[j.of] # "lost")
  BY <1>1, <1>2, <1>4 DEF SendReply
<1> QED
  BY <1>3, <1>4

LEMMA OpEndStep ==
    ASSUME FileInv, NEW j \in jobs, OpEnd(j)
    PROVE  FileInv'
<1>1. /\ j.do = "op" /\ jobs' = DropArc(j.h, handles, jobs \ {j})
      /\ UNCHANGED <<hst, waits, handles, file, occupied>>
  BY DEF OpEnd
<1>2. PICK a \in {"ok", "err"} : SendReply(j, a)
  BY DEF OpEnd
<1>3. j.do \in Calls
  BY <1>1 DEF Calls
<1>4. /\ reply' \in [Users -> Files \cup {"none", "err", "ok"}] /\ leaked' = leaked
      /\ \A u \in Users : \/ reply'[u] = reply[u]
                          \/ /\ reply'[u] \in {"ok", "err"} /\ reply[u] = "none" /\ waits[u] # "none"
                             /\ \A k \in jobs \ {j} : k.do \in Calls => k.of # u
  BY <1>2, <1>3, Answered, Zenon
<1>5. j.h \in Objects /\ j.h \in Made
  BY <1>1 DEF FileInv, HandlesSafe, FileTypes, OpenWhileUsed
<1>6. ASSUME NEW k \in jobs', k.do \in Calls
      PROVE  k \in jobs \ {j}
  BY <1>1, <1>5, <1>6, DropArcIs, CloseIs DEF Calls
<1>7. ASSUME NEW k \in jobs', k \notin jobs
      PROVE  \E h \in Made : k = CloseOf(h) /\ ~UsedIs(h)'
  <2>1. k = CloseOf(j.h) /\ j.h \notin Range(handles') /\ ~\E m \in jobs \ {j} : m.do = "op" /\ m.h = j.h
    BY <1>1, <1>7, DropArcIs
  <2>2. ~UsedIs(j.h)'
    BY <1>6, <2>1 DEF UsedIs, Calls
  <2> QED
    BY <1>5, <2>1, <2>2
<1>8. \A u \in Users : \/ reply'[u] = reply[u]
                       \/ /\ reply'[u] \in {"ok", "err"} /\ reply[u] = "none" /\ waits[u] # "none"
                          /\ \A k \in jobs' : k.do \in Calls => k.of # u
  BY <1>4, <1>6, Zenon
<1>9. handles' \in Seq(Objects \cup {0}) /\ Range(handles') \subseteq Range(handles) \cup {0}
  BY <1>1 DEF FileInv, HandlesSafe, FileTypes
<1> QED
  BY <1>1, <1>4, <1>7, <1>8, <1>9, Released, Zenon

(* A file that is opened was in no object and in no answer.                  *)
LEMMA OpenJobStep ==
    ASSUME FileInv, NEW j \in jobs, OpenJob(j)
    PROVE  FileInv'
<1>1. /\ j.do = "open" /\ jobs' = jobs \ {j} /\ UNCHANGED <<hst, waits, handles, file>>
  BY DEF OpenJob
<1>2. j.do \in Calls
  BY <1>1 DEF Calls
<1>3. CASE SendReply(j, "err") /\ occupied' = occupied
  <2>1. /\ reply' \in [Users -> Files \cup {"none", "err", "ok"}] /\ leaked' = leaked
        /\ \A u \in Users : \/ reply'[u] = reply[u]
                            \/ /\ reply'[u] \in {"ok", "err"} /\ reply[u] = "none" /\ waits[u] # "none"
                               /\ \A k \in jobs \ {j} : k.do \in Calls => k.of # u
    BY <1>2, <1>3, Answered, Zenon
  <2>2. handles' \in Seq(Objects \cup {0}) /\ Range(handles') \subseteq Range(handles) \cup {0}
    BY <1>1 DEF FileInv, HandlesSafe, FileTypes
  <2> QED
    BY <1>1, <1>3, <2>1, <2>2, Released
<1>4. CASE j.f \notin occupied /\ SendReply(j, j.f) /\ occupied' = occupied \cup {j.f}
  <2> DEFINE t == j.of
             f == j.f
  <2>1. t \in Users /\ f \in Files /\ reply \in [Users -> Files \cup {"none", "err", "ok"}] /\ reply[t] = "none"
    BY <1>1, <1>2 DEF FileInv, HandlesSafe, FileTypes, JobInv
  <2>2. /\ reply' \in [Users -> Files \cup {"none", "err", "ok"}]
        /\ \A u \in Users \ {t} : reply'[u] = reply[u]
        /\ \/ reply'[t] = f /\ waits[t] # "none" /\ leaked' = leaked
           \/ reply' = reply /\ leaked' = leaked \cup {f}
    BY <1>4, <2>1 DEF SendReply
  <2>3. \A h \in Made : file[h] # f /\ file[h] \in Files
    BY <1>4 DEF FileInv, HandlesSafe, OwnedOccupied, FileTypes, Made
  <2>4. \A u \in Users : reply[u] # f
    BY <1>4, <2>1 DEF FileInv, HandlesSafe, OwnedOccupied
  <2>5. Made' = Made
    BY <1>1 DEF Made
  <2> HIDE DEF t, f
  <2>6. FileTypes'
    BY <1>1, <1>4, <2>1, <2>2, ZenonT(40) DEF FileInv, HandlesSafe, FileTypes, f
  <2>7. JobInv'
    <3>1. ASSUME NEW k \in jobs', k.do \in Calls
          PROVE  (waits[k.of] = "none" => hst[k.of] # "ready") /\ reply'[k.of] = "none"
      <4>1. k \in jobs /\ k # j /\ k.of \in Users
        BY <1>1, <3>1 DEF FileInv, HandlesSafe, FileTypes
      <4>2. k.of # t
        BY <1>2, <3>1, <4>1 DEF FileInv, HandlesSafe, JobInv, t
      <4> QED
        BY <2>2, <3>1, <4>1, <4>2 DEF FileInv, HandlesSafe, JobInv
    <3>2. \A u \in Users : waits[u] = "none" => reply'[u] = "none"
      BY <2>2 DEF FileInv, HandlesSafe, JobInv
    <3> QED
      BY <1>1, <3>1, <3>2, ZenonT(40) DEF FileInv, HandlesSafe, JobInv
  <2>8. OwnedOccupied'
    <3>1. \A u \in Users : reply'[u] = reply[u] \/ (u = t /\ reply'[u] = f)
      BY <2>2
    <3>2. \A u, v \in Users : reply'[u] \in Files /\ reply'[u] = reply'[v] => u = v
      BY <2>4, <3>1 DEF FileInv, HandlesSafe, OwnedOccupied
    <3>3. f \in occupied'
      BY <1>4 DEF f
    <3> QED
      BY <1>1, <1>4, <2>5, <3>1, <3>2, <3>3, Zenon DEF FileInv, HandlesSafe, OwnedOccupied
  <2>9. OneUserPerFile'
    BY <1>1, <2>2, <2>3, <2>5, ZenonT(30) DEF FileInv, HandlesSafe, OneUserPerFile
  <2>10. OccupiedOwned'
    <3>1. ASSUME NEW g \in occupied'
          PROVE  (\E h \in Made : file[h] = g) \/ (\E u \in Users : reply'[u] = g) \/ g \in leaked'
      <4>1. CASE g = f
        BY <2>1, <2>2, <4>1
      <4>2. CASE g \in occupied
        <5>1. CASE \E u \in Users : reply[u] = g
          <6>1. PICK u \in Users : reply[u] = g
            BY <5>1
          <6>2. u # t
            BY <2>1, <4>2, <6>1, FileAssumption DEF FileInv, HandlesSafe, FileTypes
          <6> QED
            BY <2>2, <6>1, <6>2
        <5> QED
          BY <2>2, <4>2, <5>1 DEF FileInv, HandlesSafe, OccupiedOwned
      <4> QED
        BY <1>4, <4>1, <4>2 DEF f
    <3> QED
      BY <1>1, <2>5, <3>1 DEF OccupiedOwned
  <2>11. OpenWhileUsed'
    BY <1>1, <1>4, <2>5, Zenon DEF FileInv, HandlesSafe, OpenWhileUsed
  <2> QED
    BY <2>6, <2>7, <2>8, <2>9, <2>10, <2>11 DEF FileInv, HandlesSafe
<1> QED
  BY <1>3, <1>4 DEF OpenJob

(* A close releases the file of its object, which no other object and no     *)
(* answer has.                                                               *)
LEMMA CloseEndStep ==
    ASSUME FileInv, NEW j \in jobs, CloseEnd(j)
    PROVE  FileInv'
<1> DEFINE h == j.h
<1>1. /\ j.do = "close" /\ jobs' = jobs \ {j} /\ occupied' = occupied \ {file[h]}
      /\ file' = [file EXCEPT ![h] = NoFile] /\ UNCHANGED <<hst, waits, reply, handles, leaked>>
  BY DEF CloseEnd
<1>2. h \in Objects /\ h \in Made /\ file \in [Objects -> Files \cup {NoFile}]
  BY <1>1 DEF FileInv, HandlesSafe, FileTypes, OwnedOccupied
<1>3. file' \in [Objects -> Files \cup {NoFile}] /\ file'[h] = NoFile /\ \A g \in Objects \ {h} : file'[g] = file[g]
  BY <1>1, <1>2
<1>4. Made' = Made \ {h}
  BY <1>2, <1>3 DEF Made
<1>5. ~UsedIs(h)
  BY <1>1, <1>2 DEF FileInv, HandlesSafe, OpenWhileUsed, UsedIs
<1>6. \A g \in Made \ {h} : file[g] # file[h] /\ g \in Objects
  BY <1>2 DEF FileInv, HandlesSafe, OneUserPerFile, Made
<1>7. \A t \in Users : reply[t] # file[h]
  BY <1>2 DEF FileInv, HandlesSafe, OneUserPerFile
<1>8. ASSUME NEW k \in jobs', k.do = "close"
      PROVE  k.h \in Made \ {h}
  BY <1>1, <1>8 DEF FileInv, HandlesSafe, OwnedOccupied, FileTypes
<1>9. \A g \in Objects : UsedIs(g)' => UsedIs(g) /\ g # h
  BY <1>1, <1>5 DEF UsedIs
<1> HIDE DEF h
<1>10. FileTypes'
  BY <1>1, <1>3 DEF FileInv, HandlesSafe, FileTypes
<1>11. JobInv'
  BY <1>1, ZenonT(40) DEF FileInv, HandlesSafe, JobInv
<1>12. OwnedOccupied'
  <2>1. \A g \in Made' : file'[g] \in occupied'
    BY <1>1, <1>3, <1>4, <1>6 DEF FileInv, HandlesSafe, OwnedOccupied
  <2> QED
    BY <1>1, <1>4, <1>7, <1>8, <2>1, ZenonT(40) DEF FileInv, HandlesSafe, OwnedOccupied
<1>13. OneUserPerFile'
  BY <1>1, <1>3, <1>4, <1>6, ZenonT(30) DEF FileInv, HandlesSafe, OneUserPerFile
<1>14. OccupiedOwned'
  BY <1>1, <1>3, <1>4, <1>6 DEF FileInv, HandlesSafe, OccupiedOwned
<1>15. OpenWhileUsed'
  <2>1. ASSUME NEW g \in Objects, UsedIs(g)'
        PROVE  g \in Made' /\ file'[g] \in occupied' /\ ~\E k \in jobs' : k.do = "close" /\ k.h = g
    <3>1. g # h /\ g \in Made /\ file[g] \in occupied /\ ~\E k \in jobs : k.do = "close" /\ k.h = g
      BY <1>9, <2>1 DEF FileInv, HandlesSafe, OpenWhileUsed, UsedIs
    <3> QED
      BY <1>1, <1>3, <1>4, <1>6, <3>1
  <2> QED
    BY <2>1 DEF OpenWhileUsed, UsedIs
<1> QED
  BY <1>10, <1>11, <1>12, <1>13, <1>14, <1>15 DEF FileInv, HandlesSafe

(* The handle takes an object nobody refers to.                              *)
LEMMA FinishStep ==
    ASSUME FileInv, NEW t \in Users, Finish(t)
    PROVE  FileInv'
<1> DEFINE unused == {x \in Objects : x \notin Range(handles) /\ file[x] = NoFile}
           free == {i \in DOMAIN handles : handles[i] = 0}
<1>1. /\ hst[t] \in {"ready", "stopping"} /\ waits[t] # "none"
      /\ hst[t] = "stopping" \/ reply[t] # "none"
      /\ waits' = [waits EXCEPT ![t] = "none"] /\ reply' = [reply EXCEPT ![t] = "none"]
      /\ UNCHANGED <<hst, jobs, occupied>>
  BY DEF Finish
<1>2. /\ waits \in [Users -> Calls \cup {"none"}] /\ reply \in [Users -> Files \cup {"none", "err", "ok"}]
      /\ handles \in Seq(Objects \cup {0}) /\ file \in [Objects -> Files \cup {NoFile}] /\ occupied \subseteq Files
  BY DEF FileInv, HandlesSafe, FileTypes
<1>3. /\ waits' \in [Users -> Calls \cup {"none"}] /\ waits'[t] = "none"
      /\ reply' \in [Users -> Files \cup {"none", "err", "ok"}] /\ reply'[t] = "none"
      /\ \A u \in Users \ {t} : waits'[u] = waits[u] /\ reply'[u] = reply[u]
  BY <1>1, <1>2
<1>4. JobInv'
  <2>1. ASSUME NEW j \in jobs, j.do \in Calls
        PROVE  (waits'[j.of] = "none" => hst[j.of] # "ready") /\ reply'[j.of] = "none"
    <3>1. j.of \in Users /\ reply[j.of] = "none" /\ (waits[j.of] = "none" => hst[j.of] # "ready")
      BY <2>1 DEF FileInv, HandlesSafe, FileTypes, JobInv
    <3> QED
      BY <1>1, <1>3, <3>1
  <2> QED
    BY <1>1, <1>3, <2>1, ZenonT(40) DEF FileInv, HandlesSafe, JobInv
<1>5. "none" \notin Files /\ NoFile \notin Files
  BY FileAssumption
<1>6. \A u \in Users : reply'[u] \in Files => u # t /\ reply'[u] = reply[u]
  BY <1>3, <1>5
<1>7. CASE handles' = handles /\ file' = file /\ leaked \subseteq leaked' /\ (reply[t] \in Files => reply[t] \in leaked')
  <2>1. FileTypes'
    BY <1>1, <1>3, <1>7, Zenon DEF FileInv, HandlesSafe, FileTypes
  <2>2. Made' = Made /\ \A h \in Made : file[h] \in Files
    BY <1>2, <1>7 DEF Made
  <2>3. OwnedOccupied' /\ OneUserPerFile'
    BY <1>1, <1>5, <1>6, <1>7, <2>2 DEF FileInv, HandlesSafe, OwnedOccupied, OneUserPerFile
  <2>4. OccupiedOwned'
    BY <1>1, <1>2, <1>3, <1>7, <2>2 DEF FileInv, HandlesSafe, OccupiedOwned
  <2>5. OpenWhileUsed'
    BY <1>1, <1>7, <2>2, Zenon DEF FileInv, HandlesSafe, OpenWhileUsed
  <2> QED
    BY <1>4, <2>1, <2>3, <2>4, <2>5 DEF FileInv, HandlesSafe
<1>8. ASSUME reply[t] \in Files, unused # {}, leaked' = leaked,
             file' = [file EXCEPT ![CHOOSE x \in unused : TRUE] = reply[t]],
             handles' = IF free = {} THEN Append(handles, CHOOSE x \in unused : TRUE)
                        ELSE [handles EXCEPT ![CHOOSE i \in free : \A k \in free : i <= k] = CHOOSE x \in unused : TRUE]
      PROVE  FileInv'
  <2>1. PICK h : h = CHOOSE x \in unused : TRUE
    OBVIOUS
  <2>2. h \in unused
    BY <1>8, <2>1
  <2>3. h \in Objects /\ h \notin Range(handles) /\ file[h] = NoFile /\ h \notin Made
    BY <2>2 DEF Made
  <2>4. handles' \in Seq(Objects \cup {0}) /\ Range(handles') \subseteq Range(handles) \cup {h}
    <3>1. CASE handles' = Append(handles, h)
      BY <1>2, <2>3, <3>1 DEF Range
    <3>2. ASSUME NEW m, handles' = [handles EXCEPT ![m] = h]
          PROVE  handles' \in Seq(Objects \cup {0}) /\ Range(handles') \subseteq Range(handles) \cup {h}
      <4>1. Len(handles) \in Nat /\ handles \in [1..Len(handles) -> Objects \cup {0}]
        BY <1>2
      <4>2. handles' \in [1..Len(handles) -> Objects \cup {0}]
            /\ \A k \in 1..Len(handles) : handles'[k] \in {h, handles[k]}
        <5>1. DOMAIN handles' = 1..Len(handles)
          BY <3>2, <4>1
        <5>2. ASSUME NEW k \in 1..Len(handles)
              PROVE  handles'[k] \in {h, handles[k]} /\ handles'[k] \in Objects \cup {0}
          <6>1. handles'[k] = IF k = m THEN h ELSE handles[k]
            BY <3>2, <4>1
          <6>2. handles[k] \in Objects \cup {0}
            BY <4>1
          <6> QED
            BY <2>3, <6>1, <6>2
        <5>3. handles' = [k \in 1..Len(handles) |-> handles'[k]]
          BY <3>2, <4>1, ZenonT(40)
        <5> QED
          BY <5>2, <5>3
      <4>3. handles' \in Seq(Objects \cup {0})
        BY <4>1, <4>2
      <4>4. DOMAIN handles = 1..Len(handles) /\ DOMAIN handles' = 1..Len(handles)
        BY <4>1, <4>2
      <4> QED
        BY <4>2, <4>3, <4>4 DEF Range
    <3> QED
      BY <1>8, <2>1, <3>1, <3>2, Zenon
  <2>5. /\ file' \in [Objects -> Files \cup {NoFile}] /\ file'[h] = reply[t]
        /\ \A g \in Objects \ {h} : file'[g] = file[g]
    BY <1>2, <1>8, <2>1, <2>3
  <2>6. Made' = Made \cup {h} /\ Made \subseteq Objects
    BY <1>5, <1>8, <2>3, <2>5 DEF Made
  <2>7. FileTypes'
    BY <1>1, <1>3, <2>4, <2>5, ZenonT(40) DEF FileInv, HandlesSafe, FileTypes
  <2>8. reply[t] \in occupied /\ \A u \in Users \ {t} : reply[u] # reply[t]
    BY <1>8 DEF FileInv, HandlesSafe, OwnedOccupied
  <2>9. \A g \in Made : file[g] # reply[t] /\ file'[g] = file[g] /\ file[g] \in Files
    BY <1>2, <2>3, <2>5, <2>6 DEF FileInv, HandlesSafe, OneUserPerFile, Made
  <2>10. OwnedOccupied'
    <3>1. \A g \in Made' : file'[g] \in occupied
      BY <2>5, <2>6, <2>8, <2>9, ZenonT(40) DEF FileInv, HandlesSafe, OwnedOccupied
    <3>2. \A u, v \in Users : reply'[u] \in Files /\ reply'[u] = reply'[v] => u = v
      BY <1>6, ZenonT(40) DEF FileInv, HandlesSafe, OwnedOccupied
    <3> QED
      BY <1>1, <1>6, <2>6, <3>1, <3>2 DEF FileInv, HandlesSafe, OwnedOccupied
  <2>11. OneUserPerFile'
    <3>0. /\ \A f, g \in Made : file[f] = file[g] => f = g
          /\ \A u \in Users, g \in Made : reply[u] # file[g]
      BY DEF FileInv, HandlesSafe, OneUserPerFile
    <3>1. ASSUME NEW u \in Users, NEW g \in Made'
          PROVE  reply'[u] # file'[g]
      <4>1. g \in Made \/ g = h
        BY <2>6
      <4>2. file'[g] \in Files
        BY <1>8, <2>5, <2>9, <4>1
      <4>3. CASE u = t
        BY <1>6, <4>2, <4>3
      <4>4. CASE u # t
        <5>1. reply'[u] = reply[u]
          BY <1>3, <4>4
        <5> QED
          BY <2>5, <2>8, <2>9, <3>0, <4>1, <4>4, <5>1
      <4> QED
        BY <4>3, <4>4
    <3>2. ASSUME NEW f \in Made', NEW g \in Made', file'[f] = file'[g]
          PROVE  f = g
      <4>1. (f \in Made \/ f = h) /\ (g \in Made \/ g = h)
        BY <2>6
      <4> QED
        BY <2>5, <2>9, <3>0, <3>2, <4>1
    <3> QED
      BY <3>1, <3>2, ZenonT(40) DEF OneUserPerFile
  <2>12. OccupiedOwned'
    <3>1. ASSUME NEW f \in occupied
          PROVE  (\E g \in Made' : file'[g] = f) \/ (\E u \in Users : reply'[u] = f) \/ f \in leaked
      BY <1>3, <2>5, <2>6, <2>9 DEF FileInv, HandlesSafe, OccupiedOwned
    <3> QED
      BY <1>1, <1>8, <3>1 DEF OccupiedOwned
  <2>13. OpenWhileUsed'
    <3>1. ASSUME NEW g \in Objects, UsedIs(g)'
          PROVE  g \in Made' /\ file'[g] \in occupied /\ ~\E k \in jobs : k.do = "close" /\ k.h = g
      <4>1. CASE g = h
        BY <1>8, <2>3, <2>5, <2>6, <2>8, <4>1, ZenonT(30) DEF FileInv, HandlesSafe, OwnedOccupied
      <4>2. CASE g # h
        <5>1. UsedIs(g)
          BY <1>1, <2>4, <3>1, <4>2 DEF UsedIs
        <5> QED
          BY <2>6, <2>9, <5>1, ZenonT(40) DEF FileInv, HandlesSafe, OpenWhileUsed, UsedIs
      <4> QED
        BY <4>1, <4>2
    <3> QED
      BY <1>1, <3>1, ZenonT(40) DEF OpenWhileUsed, UsedIs
  <2> QED
    BY <1>4, <2>7, <2>10, <2>11, <2>12, <2>13 DEF FileInv, HandlesSafe
<1>9. \/ handles' = handles /\ file' = file /\ leaked \subseteq leaked' /\ (reply[t] \in Files => reply[t] \in leaked')
      \/ /\ reply[t] \in Files /\ unused # {} /\ leaked' = leaked
         /\ file' = [file EXCEPT ![CHOOSE x \in unused : TRUE] = reply[t]]
         /\ handles' = IF free = {} THEN Append(handles, CHOOSE x \in unused : TRUE)
                       ELSE [handles EXCEPT ![CHOOSE i \in free : \A k \in free : i <= k] = CHOOSE x \in unused : TRUE]
  BY Zenon DEF Finish
<1> QED
  BY <1>7, <1>8, <1>9

(* The rest of a thread's life, and the queue for the mutex of an object.    *)
LEMMA ThreadStep ==
    ASSUME FileInv, NEW t \in Users, Kill(t) \/ ThreadExit(t)
    PROVE  FileInv'
<1>1. UNCHANGED <<waits, reply, handles, file, jobs, occupied, leaked>>
  BY ZenonT(40) DEF Kill, ThreadExit
<1>2. \E s \in {"stopping", "lost", "terminated"} : hst' = [hst EXCEPT ![t] = s]
  BY DEF Kill, ThreadExit
<1>3. hst \in [Users -> {"ready", "stopping", "lost", "terminated"}]
  BY DEF FileInv, HandlesSafe, FileTypes
<1>4. /\ hst' \in [Users -> {"ready", "stopping", "lost", "terminated"}]
      /\ \A u \in Users : hst'[u] = "ready" => hst[u] = "ready"
  BY <1>2, <1>3
<1>5. FileTypes'
  BY <1>1, <1>4 DEF FileInv, HandlesSafe, FileTypes
<1>6. JobInv'
  BY <1>1, <1>4 DEF FileInv, HandlesSafe, FileTypes, JobInv
<1>7. OwnedOccupied' /\ OneUserPerFile' /\ OccupiedOwned' /\ OpenWhileUsed'
  BY <1>1, Zenon DEF FileInv, HandlesSafe, OwnedOccupied, OneUserPerFile, OccupiedOwned, OpenWhileUsed, Made
<1> QED
  BY <1>5, <1>6, <1>7 DEF FileInv, HandlesSafe

LEMMA FileStep == FileInv /\ [fileNext]_fileVars => FileInv'
<1> SUFFICES ASSUME FileInv, [fileNext]_fileVars PROVE FileInv'
  OBVIOUS
<1>1. ASSUME NEW t \in Users, NEW f \in Files, open(t, f) PROVE FileInv'
  BY <1>1, OpenStep
<1>2. ASSUME NEW t \in Users, NEW i, Operate(t, i) \/ close_handle(t, i) PROVE FileInv'
  BY <1>2, OperateStep, CloseHandleStep
<1>3. ASSUME NEW t \in Users, Finish(t) PROVE FileInv'
  BY <1>3, FinishStep
<1>4. ASSUME NEW t \in Users, Kill(t) \/ ThreadExit(t) PROVE FileInv'
  BY <1>4, ThreadStep
<1>5. ASSUME NEW j \in jobs, Task(j) PROVE FileInv'
  <2>1. CASE LockFile(j) 
    <3>1. UNCHANGED <<hst, waits, reply, handles, file, jobs, occupied, leaked>>
      BY <2>1 DEF LockFile
    <3> QED
      BY <3>1, Zenon DEF FileInv, HandlesSafe, FileTypes, JobInv, OwnedOccupied, OneUserPerFile, OccupiedOwned, OpenWhileUsed, Made
  <2> QED
    BY <1>5, <2>1, OpenJobStep, OpEndStep, CloseEndStep DEF Task
<1>6. CASE ProcessDrop
  BY <1>6, ProcessDropStep
<1>7. CASE UNCHANGED fileVars
  BY <1>7, ZenonT(40) DEF fileVars, FileInv, HandlesSafe, FileTypes, JobInv, OwnedOccupied, OneUserPerFile, OccupiedOwned, OpenWhileUsed, Made
<1> QED
  BY <1>1, <1>2, <1>3, <1>4, <1>5, <1>6, <1>7 DEF fileNext, RunJob

(* Whichever threads share a handle, are stopped or end, and however their   *)
(* tasks interleave: a file is not closed while a task or a slot uses it, no *)
(* file is open twice, and an occupied file is in a handle, on its way into  *)
(* one, or was lost with a stopped open.                                     *)
THEOREM HandlesAreSafe == fileSpec => []HandlesSafe
<1>1. fileInit => FileInv
  <2> SUFFICES ASSUME fileInit PROVE FileInv
    OBVIOUS
  <2>1. FileTypes /\ Made = {} /\ jobs = {} /\ occupied = {} /\ Range(handles) = {}
    BY DEF fileInit, FileTypes, Made, Range
  <2>2. \A t \in Users : reply[t] = "none" /\ "none" \notin Files
    BY FileAssumption DEF fileInit
  <2> QED
    BY <2>1, <2>2, ZenonT(40) DEF FileInv, HandlesSafe, JobInv, OwnedOccupied, OneUserPerFile, OccupiedOwned, OpenWhileUsed
<1>2. FileInv => HandlesSafe
  BY DEF FileInv, HandlesSafe
<1> QED
  BY <1>1, <1>2, FileStep, PTL DEF fileSpec
==============================================================================
