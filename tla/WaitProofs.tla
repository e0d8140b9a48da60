----------------------------- MODULE WaitProofs ------------------------------
(*************************************************************************)
(* Proofs about waiting for a condition, for any number of waiters: the  *)
(* condition variable of tasks and the futex of threads.  No wake is     *)
(* missed, and one who sleeps is queued exactly once.                    *)
(*************************************************************************)
EXTENDS Condvar, Futex, FiniteSetTheorems, TLAPS

(* A leaf names a prover only where the default order, Zenon and then SMT, *)
(* does not find its proof soon.                                           *)
USE ZenonT(5), SMTT(30)

-----------------------------------------------------------------------------
(* The condition variable.                                                *)
-----------------------------------------------------------------------------

(* What one task of the client may do in one step.                          *)
TaskStep(t) ==
  \/ Lock(t) \/ Locked(t) \/ CancelLock(t) \/ Take(t) \/ Put(t)
  \/ WaitInit(t) \/ WaitUnlock(t) \/ WaitPoll(t)
  \/ CancelWait(t) \/ CancelRelock(t) \/ DropLock(t)
  \/ WakePop(t) \/ WakeMark(t)

(* A sequence without its k-th element.                                     *)
LEMMA Removed ==
  ASSUME NEW S, NEW s \in Seq(S), NEW k \in 1..Len(s)
  PROVE  /\ Without(s, k) \in Seq(S) /\ Len(Without(s, k)) = Len(s) - 1
         /\ \A j \in 1..(Len(s) - 1) : Without(s, k)[j] = IF j < k THEN s[j] ELSE s[j + 1]
<1>1. Len(s) \in Nat /\ \A i \in 1..Len(s) : s[i] \in S
  OBVIOUS
<1>2. Without(s, k) \in [1..(Len(s) - 1) -> S]
  BY <1>1 DEF Without
<1>3. Without(s, k) \in Seq(S) /\ Len(Without(s, k)) = Len(s) - 1
  BY <1>1, <1>2
<1> QED
  BY <1>3 DEF Without

(* The line of the mutex as its uses leave it.                              *)
LEMMA LineTypes ==
  ASSUME CondvarTypeOK, NEW t \in Tasks,
         \/ \E x, y : LockPoll(t, x, y)
         \/ Unlock \/ DropLocking(t) \/ UNCHANGED <<holder, mline>>
  PROVE  mline' \in Seq(Tasks) /\ holder' \in Tasks \union {NoTask}
<1> USE DEF CondvarTypeOK
<1>1. CASE \E x, y : LockPoll(t, x, y)
  <2>1. \/ holder' = t /\ mline' = mline
        \/ holder' = holder /\ mline' = Append(mline, t)
    BY <1>1, Zenon DEF LockPoll
  <2>2. Append(mline, t) \in Seq(Tasks)
    OBVIOUS
  <2> QED
    BY <2>1, <2>2, Zenon
<1>2. CASE Unlock
  <2>1. \/ holder' = NoTask /\ mline' = mline
        \/ mline # <<>> /\ holder' = Head(mline) /\ mline' = Tail(mline)
    BY <1>2, Zenon DEF Unlock
  <2>2. mline # <<>> => Head(mline) \in Tasks /\ Tail(mline) \in Seq(Tasks)
    OBVIOUS
  <2> QED
    BY <2>1, <2>2, Zenon
<1>3. CASE DropLocking(t)
  <2>1. CASE holder = t
    BY <1>2, <1>3, <2>1 DEF DropLocking
  <2>2. CASE holder # t
    <3>1. PICK k \in DOMAIN mline : mline' = Without(mline, k)
      BY <1>3, <2>2 DEF DropLocking
    <3>2. k \in 1..Len(mline)
      OBVIOUS
    <3> QED
      BY <1>3, <2>2, <3>1, <3>2, Removed DEF DropLocking
  <2> QED
    BY <2>1, <2>2
<1> QED
  BY <1>1, <1>2, <1>3

(* A task jumps from place to place.                                        *)
LEMMA JumpTypes ==
  ASSUME CondvarTypeOK, NEW t \in Tasks, NEW x \in Places, Jump(t, x)
  PROVE  tpc' \in [Tasks -> Places]
BY DEF CondvarTypeOK, Jump

(* The rest keeps its type; items are at most what was added.               *)
LEMMA CondvarTypes ==
  ASSUME CondvarTypeOK, items <= puts, WakerInv, NEW t \in Tasks, TaskStep(t)
  PROVE  CondvarTypeOK' /\ items' <= puts'
<1> USE CondvarAssumption DEF CondvarTypeOK, WakerInv
<1>1. CASE Lock(t) \/ Locked(t) \/ CancelLock(t) \/ WaitUnlock(t) \/ DropLock(t)
  <2>1. mline' \in Seq(Tasks) /\ holder' \in Tasks \union {NoTask}
    BY <1>1, LineTypes DEF Lock, Locked, CancelLock, WaitUnlock, DropLock
  <2>2. \E x \in Places : Jump(t, x)
    BY <1>1, Zenon DEF Lock, LockPoll, Locked, CancelLock, DropLocking, Unlock, WaitUnlock, DropLock, Places
  <2>3. tpc' \in [Tasks -> Places]
    BY <2>2, JumpTypes
  <2>4. UNCHANGED <<items, puts, queue, wstat, mine, popped, mode>>
    BY <1>1, Zenon DEF Lock, Locked, CancelLock, WaitUnlock, DropLock
  <2> QED
    BY <2>1, <2>3, <2>4
<1>2. CASE Take(t)
  <2>1. mline' \in Seq(Tasks) /\ holder' \in Tasks \union {NoTask}
    BY <1>2, LineTypes DEF Take
  <2>2. \E x \in Places : Jump(t, x)
    BY <1>2, Zenon DEF Take, Unlock, Places
  <2>3. tpc' \in [Tasks -> Places]
    BY <2>2, JumpTypes
  <2>4. items' \in 0..MaxPuts /\ puts' \in 0..MaxPuts /\ items' <= puts'
    BY <1>2 DEF Take
  <2> QED
    BY <1>2, <2>1, <2>3, <2>4 DEF Take
<1>3. CASE Put(t)
  <2>1. mline' \in Seq(Tasks) /\ holder' \in Tasks \union {NoTask}
    BY <1>3, LineTypes DEF Put
  <2>2. \E x \in Places : Jump(t, x)
    BY <1>3, Zenon DEF Put, Unlock, Places
  <2>3. tpc' \in [Tasks -> Places]
    BY <2>2, JumpTypes
  <2>4. items' \in 0..MaxPuts /\ puts' \in 0..MaxPuts /\ items' <= puts'
    BY <1>3 DEF Put
  <2>5. PICK m \in {"one", "all"} : mode' = [mode EXCEPT ![t] = m]
    BY <1>3 DEF Put
  <2>6. UNCHANGED <<queue, wstat, mine, popped>>
    BY <1>3 DEF Put
  <2> QED
    BY <2>1, <2>3, <2>4, <2>5, <2>6
<1>4. CASE WaitInit(t)
  <2>1. mline' \in Seq(Tasks) /\ holder' \in Tasks \union {NoTask}
    BY <1>4, LineTypes DEF WaitInit
  <2>2. \E x \in Places : Jump(t, x)
    BY <1>4, Zenon DEF WaitInit, Places
  <2>3. tpc' \in [Tasks -> Places]
    BY <2>2, JumpTypes
  <2>4. items' \in 0..MaxPuts /\ puts' \in 0..MaxPuts /\ items' <= puts'
    BY <1>4 DEF WaitInit
  <2>5. /\ wstat' \in Seq({"WAITING", "ACQUIRED", "GIVEUP"}) /\ Len(wstat') = Len(wstat) + 1
        /\ Len(wstat) \in Nat
    BY <1>4 DEF WaitInit
  <2>6. queue \in Seq(1..Len(wstat'))
    BY <2>5
  <2>7. queue' \in Seq(1..Len(wstat'))
    BY <1>4, <2>5, <2>6 DEF WaitInit
  <2>8. mine' \in [Tasks -> 0..Len(wstat')] /\ popped' \in [Tasks -> 0..Len(wstat')]
    BY <1>4, <2>5 DEF WaitInit
  <2>9. mode' = mode
    BY <1>4 DEF WaitInit
  <2> QED
    BY <2>1, <2>3, <2>4, <2>5, <2>7, <2>8, <2>9, Zenon
<1>5. CASE WaitPoll(t)
  <2>1. mline' \in Seq(Tasks) /\ holder' \in Tasks \union {NoTask}
    BY <1>5, LineTypes DEF WaitPoll
  <2>2. \E x \in Places : Jump(t, x)
    BY <1>5, Zenon DEF WaitPoll, LockPoll, Places
  <2>3. tpc' \in [Tasks -> Places]
    BY <2>2, JumpTypes
  <2>4. items' \in 0..MaxPuts /\ puts' \in 0..MaxPuts /\ items' <= puts'
    BY <1>5 DEF WaitPoll
  <2>5. mine' = [mine EXCEPT ![t] = 0] /\ UNCHANGED <<queue, wstat, popped, mode>>
    BY <1>5 DEF WaitPoll
  <2>6. mine' \in [Tasks -> 0..Len(wstat)]
    BY <2>5, ZenonT(30)
  <2> QED
    BY <2>1, <2>3, <2>4, <2>5, <2>6
<1>6. CASE CancelWait(t)
  <2>1. mline' \in Seq(Tasks) /\ holder' \in Tasks \union {NoTask}
    BY <1>6, LineTypes DEF CancelWait
  <2>2. \E x \in Places : Jump(t, x)
    BY <1>6, Zenon DEF CancelWait, Places
  <2>3. tpc' \in [Tasks -> Places]
    BY <2>2, JumpTypes
  <2>4. items' \in 0..MaxPuts /\ puts' \in 0..MaxPuts /\ items' <= puts'
    BY <1>6 DEF CancelWait
  <2>5. mine[t] \in 1..Len(wstat)
    BY <1>6 DEF CancelWait
  <2>6. wstat' \in Seq({"WAITING", "ACQUIRED", "GIVEUP"}) /\ Len(wstat') = Len(wstat)
    BY <1>6, <2>5 DEF CancelWait
  <2>7. mine' = [mine EXCEPT ![t] = 0] /\ mode' = [mode EXCEPT ![t] = "one"] /\ UNCHANGED <<queue, popped>>
    BY <1>6 DEF CancelWait
  <2>8. mine' \in [Tasks -> 0..Len(wstat)] /\ mode' \in [Tasks -> {"one", "all", "relock"}]
    BY <2>7, ZenonT(30)
  <2> QED
    BY <2>1, <2>3, <2>4, <2>6, <2>7, <2>8
<1>7. CASE CancelRelock(t)
  <2>1. mline' \in Seq(Tasks) /\ holder' \in Tasks \union {NoTask}
    BY <1>7, LineTypes DEF CancelRelock
  <2>2. \E x \in Places : Jump(t, x)
    BY <1>7, Zenon DEF CancelRelock, Places
  <2>3. tpc' \in [Tasks -> Places]
    BY <2>2, JumpTypes
  <2>4. items' \in 0..MaxPuts /\ puts' \in 0..MaxPuts /\ items' <= puts'
    BY <1>7 DEF CancelRelock
  <2>5. mode' = [mode EXCEPT ![t] = "relock"] /\ UNCHANGED <<queue, wstat, mine, popped>>
    BY <1>7 DEF CancelRelock
  <2> QED
    BY <2>1, <2>3, <2>4, <2>5
<1>8. CASE WakePop(t)
  <2>1. mline' \in Seq(Tasks) /\ holder' \in Tasks \union {NoTask}
    BY <1>8, LineTypes DEF WakePop
  <2>2. \E x \in Places : Jump(t, x)
    BY <1>8, Zenon DEF WakePop, WakeDone, Places
  <2>3. tpc' \in [Tasks -> Places]
    BY <2>2, JumpTypes
  <2>4. items' \in 0..MaxPuts /\ puts' \in 0..MaxPuts /\ items' <= puts'
    BY <1>8 DEF WakePop
  <2>5. CASE queue = <<>>
    BY <1>8, <2>1, <2>3, <2>4, <2>5, ZenonT(30) DEF WakePop
  <2>6. CASE queue # <<>>
    <3>1. Head(queue) \in 1..Len(wstat) /\ Tail(queue) \in Seq(1..Len(wstat))
      BY <2>6
    <3>2. popped' = [popped EXCEPT ![t] = Head(queue)] /\ queue' = Tail(queue) /\ UNCHANGED <<wstat, mine, mode>>
      BY <1>8, <2>6 DEF WakePop
    <3>3. popped' \in [Tasks -> 0..Len(wstat)]
      BY <3>1, <3>2
    <3> QED
      BY <2>1, <2>3, <2>4, <3>1, <3>2, <3>3
  <2> QED
    BY <2>5, <2>6
<1>9. CASE WakeMark(t)
  <2>1. mline' \in Seq(Tasks) /\ holder' \in Tasks \union {NoTask}
    BY <1>9, LineTypes DEF WakeMark
  <2>2. \E x \in Places : Jump(t, x)
    BY <1>9, Zenon DEF WakeMark, WakeDone, Places
  <2>3. tpc' \in [Tasks -> Places]
    BY <2>2, JumpTypes
  <2>4. items' \in 0..MaxPuts /\ puts' \in 0..MaxPuts /\ items' <= puts'
    BY <1>9 DEF WakeMark
  <2>5. popped[t] \in 1..Len(wstat)
    BY <1>9 DEF WakeMark
  <2>6. wstat' = wstat \/ wstat' = [wstat EXCEPT ![popped[t]] = "ACQUIRED"]
    BY <1>9, Zenon DEF WakeMark
  <2>7. wstat' \in Seq({"WAITING", "ACQUIRED", "GIVEUP"}) /\ Len(wstat') = Len(wstat)
    <3>1. CASE wstat' = wstat
      BY <3>1
    <3>2. CASE wstat' = [wstat EXCEPT ![popped[t]] = "ACQUIRED"]
      BY <2>5, <3>2
    <3> QED
      BY <2>6, <3>1, <3>2
  <2>8. popped' = [popped EXCEPT ![t] = 0] /\ UNCHANGED <<queue, mine, mode>>
    BY <1>9 DEF WakeMark
  <2>9. popped' \in [Tasks -> 0..Len(wstat)]
    BY <2>8, ZenonT(30)
  <2> QED
    BY <2>1, <2>3, <2>4, <2>7, <2>8, <2>9
<1> QED
  BY <1>1, <1>2, <1>3, <1>4, <1>5, <1>6, <1>7, <1>8, <1>9, Zenon DEF TaskStep

(* The mutex: steps that leave its line alone ...                           *)
LEMMA LineKept ==
  ASSUME CondvarTypeOK, GuardOwned, MutexInv, NEW t \in Tasks, UNCHANGED <<holder, mline>>,
         \A u \in Tasks \ {t} : (Asking(u)' <=> Asking(u)) /\ (Under(u)' <=> Under(u)),
         Under(t)' => holder = t,
         Asking(t)' => Asking(t),
         Asking(t) \/ Under(t) => Asking(t)' \/ Under(t)',
         Asking(t) /\ holder # t => Asking(t)'
  PROVE  GuardOwned' /\ MutexInv'
<1>1. \A k \in DOMAIN mline : mline[k] \in Tasks
  BY DEF CondvarTypeOK
<1>2. GuardOwned'
  BY DEF GuardOwned
<1>3. MutexInv'
  BY <1>1 DEF MutexInv
<1> QED
  BY <1>2, <1>3

(* ... a task takes the lock or joins the line ...                          *)
LEMMA LineJoined ==
  ASSUME CondvarTypeOK, GuardOwned, MutexInv, NEW t \in Tasks, NEW x, NEW y, LockPoll(t, x, y),
         \A u \in Tasks \ {t} : (Asking(u)' <=> Asking(u)) /\ (Under(u)' <=> Under(u)),
         ~Asking(t), ~Under(t),
         holder = NoTask => Under(t)' /\ ~Asking(t)',
         holder # NoTask => Asking(t)' /\ ~Under(t)'
  PROVE  GuardOwned' /\ MutexInv'
<1> USE CondvarAssumption
<1>1. \A k \in DOMAIN mline : mline[k] \in Tasks /\ mline[k] # t
  BY DEF CondvarTypeOK, MutexInv
<1>2. holder # t
  BY DEF MutexInv
<1>3. CASE holder = NoTask
  <2>1. holder' = t /\ mline' = mline /\ mline = <<>>
    BY <1>3 DEF LockPoll, MutexInv
  <2>2. GuardOwned'
    BY <1>3, <2>1 DEF GuardOwned
  <2>3. MutexInv'
    BY <1>3, <2>1 DEF MutexInv
  <2> QED
    BY <2>2, <2>3
<1>4. CASE holder # NoTask
  <2>1. holder' = holder /\ mline' = Append(mline, t) /\ holder \in Tasks
    BY <1>4 DEF LockPoll, CondvarTypeOK
  <2>2. /\ Len(mline) \in Nat /\ DOMAIN mline = 1..Len(mline) /\ DOMAIN mline' = 1..(Len(mline) + 1)
        /\ \A k \in 1..Len(mline) : mline'[k] = mline[k]
        /\ mline'[Len(mline) + 1] = t
    BY <2>1 DEF CondvarTypeOK
  <2>3. GuardOwned'
    BY <1>4, <2>1, <2>2 DEF GuardOwned
  <2>4. ASSUME NEW k \in DOMAIN mline' PROVE Asking(mline[k])' /\ mline'[k] # holder'
    BY <1>1, <1>2, <1>4, <2>1, <2>2 DEF MutexInv
  <2>5. ASSUME NEW k \in DOMAIN mline', NEW j \in DOMAIN mline', mline'[j] = mline'[k] PROVE j = k
    BY <1>1, <2>2, <2>5 DEF MutexInv
  <2>6. Asking(holder)' \/ Under(holder)'
    BY <1>2, <2>1 DEF MutexInv
  <2> QED
    BY <1>4, <2>1, <2>3, <2>4, <2>5, <2>6 DEF MutexInv
<1> QED
  BY <1>3, <1>4

(* ... the owner passes it to the head of the line ...                      *)
LEMMA LinePassed ==
  ASSUME CondvarTypeOK, GuardOwned, MutexInv, NEW t \in Tasks, Unlock, holder = t,
         \A u \in Tasks \ {t} : (Asking(u)' <=> Asking(u)) /\ (Under(u)' <=> Under(u)),
         ~Asking(t)', ~Under(t)'
  PROVE  GuardOwned' /\ MutexInv'
<1> USE CondvarAssumption
<1>1. \A k \in DOMAIN mline : mline[k] \in Tasks /\ mline[k] # t
  BY DEF CondvarTypeOK, MutexInv
<1>2. \A u \in Tasks \ {t} : ~Under(u)
  BY DEF GuardOwned
<1>3. CASE mline = <<>>
  <2>1. holder' = NoTask /\ mline' = <<>>
    BY <1>3 DEF Unlock
  <2>2. GuardOwned'
    BY <1>2, <1>3, <2>1 DEF GuardOwned
  <2>3. MutexInv'
    BY <2>1 DEF MutexInv
  <2> QED
    BY <2>2, <2>3
<1>4. CASE mline # <<>>
  <2>1. holder' = Head(mline) /\ mline' = Tail(mline)
    BY <1>4 DEF Unlock
  <2>2. /\ Len(mline) \in Nat /\ Len(mline) > 0
        /\ DOMAIN mline = 1..Len(mline) /\ DOMAIN mline' = 1..(Len(mline) - 1)
        /\ \A k \in 1..(Len(mline) - 1) : mline'[k] = mline[k + 1]
        /\ holder' = mline[1]
    BY <1>4, <2>1 DEF CondvarTypeOK
  <2>3. holder' \in Tasks /\ holder' # t /\ Asking(holder') /\ holder' # NoTask
    BY <1>1, <2>2 DEF MutexInv
  <2>4. ASSUME NEW u \in Tasks, Asking(u)', u # holder' PROVE \E k \in DOMAIN mline' : mline'[k] = u
    <3>1. PICK k \in 1..Len(mline) : mline[k] = u
      BY <2>2, <2>4 DEF GuardOwned
    <3>2. k - 1 \in 1..(Len(mline) - 1) /\ (k - 1) + 1 = k
      BY <2>2, <2>4, <3>1
    <3>3. mline'[k - 1] = u
      BY <2>2, <3>1, <3>2
    <3> QED
      BY <2>2, <3>2, <3>3
  <2>5. GuardOwned'
    BY <1>2, <2>4 DEF GuardOwned
  <2>6. ASSUME NEW k \in DOMAIN mline' PROVE Asking(mline[k])' /\ mline'[k] # holder'
    <3>1. k \in 1..(Len(mline) - 1) /\ k + 1 \in 1..Len(mline) /\ 1 \in 1..Len(mline) /\ k + 1 # 1
      BY <2>2
    <3>2. mline'[k] = mline[k + 1]
      BY <2>2, <3>1
    <3> QED
      BY <1>1, <2>2, <3>1, <3>2 DEF MutexInv
  <2>7. ASSUME NEW k \in DOMAIN mline', NEW j \in DOMAIN mline', mline'[j] = mline'[k] PROVE j = k
    <3>1. mline[j + 1] = mline[k + 1] /\ j + 1 \in DOMAIN mline /\ k + 1 \in DOMAIN mline
      BY <2>2, <2>7
    <3> QED
      BY <2>2, <3>1 DEF MutexInv
  <2>8. Asking(holder)'
    BY <2>3
  <2> QED
    BY <2>3, <2>5, <2>6, <2>7, <2>8 DEF MutexInv
<1> QED
  BY <1>3, <1>4

(* ... or a task leaves the line.                                           *)
LEMMA LineLeft ==
  ASSUME CondvarTypeOK, GuardOwned, MutexInv, NEW t \in Tasks, DropLocking(t), Asking(t), ~Under(t),
         \A u \in Tasks \ {t} : (Asking(u)' <=> Asking(u)) /\ (Under(u)' <=> Under(u)),
         ~Asking(t)', ~Under(t)'
  PROVE  GuardOwned' /\ MutexInv'
<1> USE CondvarAssumption
<1>1. CASE holder = t
  BY <1>1, LinePassed DEF DropLocking
<1>2. CASE holder # t
  <2>1. PICK k \in DOMAIN mline : mline[k] = t /\ mline' = Without(mline, k)
    BY <1>2 DEF DropLocking
  <2>2. holder' = holder
    BY <1>2 DEF DropLocking
  <2>3. Len(mline) \in Nat /\ DOMAIN mline = 1..Len(mline) /\ \A i \in 1..Len(mline) : mline[i] \in Tasks
    BY DEF CondvarTypeOK
  <2>4. /\ DOMAIN mline' = 1..(Len(mline) - 1)
        /\ \A j \in 1..(Len(mline) - 1) : mline'[j] = IF j < k THEN mline[j] ELSE mline[j + 1]
    <3>1. mline \in Seq(Tasks) /\ k \in 1..Len(mline)
      BY <2>3 DEF CondvarTypeOK
    <3>2. mline' \in Seq(Tasks) /\ Len(mline') = Len(mline) - 1
      BY <2>1, <3>1, Removed
    <3>3. DOMAIN mline' = 1..(Len(mline) - 1)
      BY <3>2
    <3>4. \A j \in 1..(Len(mline) - 1) : mline'[j] = IF j < k THEN mline[j] ELSE mline[j + 1]
      BY <2>1, <3>1, Removed, Zenon
    <3> QED
      BY <3>3, <3>4
  <2>5. ASSUME NEW j \in DOMAIN mline'
        PROVE  \E i \in DOMAIN mline : mline'[j] = mline[i] /\ i # k /\ i = IF j < k THEN j ELSE j + 1
    BY <2>1, <2>3, <2>4
  <2>6. ASSUME NEW u \in Tasks, u # t, NEW i \in DOMAIN mline, mline[i] = u
        PROVE  \E j \in DOMAIN mline' : mline'[j] = u
    <3>1. CASE i < k
      BY <2>1, <2>3, <2>4, <2>6, <3>1
    <3>2. CASE i > k
      <4>1. i - 1 \in 1..(Len(mline) - 1) /\ ~(i - 1 < k) /\ (i - 1) + 1 = i
        BY <2>1, <2>3, <3>2
      <4>2. mline'[i - 1] = u
        BY <2>4, <2>6, <4>1
      <4> QED
        BY <2>4, <4>1, <4>2
    <3> QED
      BY <2>1, <2>3, <2>6, <3>1, <3>2
  <2>7. GuardOwned'
    BY <1>2, <2>2, <2>6 DEF GuardOwned
  <2>8. ASSUME NEW j \in DOMAIN mline' PROVE Asking(mline[j])' /\ mline'[j] # holder'
    <3>1. PICK i \in DOMAIN mline : mline'[j] = mline[i] /\ i # k
      BY <2>5
    <3>2. mline[i] \in Tasks \ {t}
      BY <2>1, <2>3, <3>1 DEF MutexInv
    <3> QED
      BY <2>2, <3>1, <3>2 DEF MutexInv
  <2>9. ASSUME NEW i \in DOMAIN mline', NEW j \in DOMAIN mline', mline'[i] = mline'[j] PROVE i = j
    <3>1. PICK a \in DOMAIN mline : mline'[i] = mline[a] /\ a = IF i < k THEN i ELSE i + 1
      BY <2>5
    <3>2. PICK b \in DOMAIN mline : mline'[j] = mline[b] /\ b = IF j < k THEN j ELSE j + 1
      BY <2>5
    <3>3. a = b
      BY <2>9, <3>1, <3>2, Zenon DEF MutexInv
    <3> QED
      BY <2>1, <2>3, <2>4, <3>1, <3>2, <3>3
  <2>10. holder' \in Tasks => Asking(holder)' \/ Under(holder)'
    BY <1>2, <2>2 DEF MutexInv
  <2>11. holder # NoTask
    BY <2>1 DEF MutexInv
  <2> QED
    BY <2>2, <2>7, <2>8, <2>9, <2>10, <2>11 DEF MutexInv
<1> QED
  BY <1>1, <1>2

(* Whatever the tasks do, the guard is the owner's.                         *)
LEMMA CondvarLock ==
  ASSUME CondvarTypeOK, GuardOwned, MutexInv, NEW t \in Tasks, TaskStep(t)
  PROVE  GuardOwned' /\ MutexInv'
<1> USE DEF CondvarTypeOK, Places, Asking, Under
<1>1. CASE Lock(t) \/ WaitPoll(t)
  <2>1. \A u \in Tasks \ {t} : (Asking(u)' <=> Asking(u)) /\ (Under(u)' <=> Under(u))
    BY <1>1, ZenonT(30) DEF Lock, LockPoll, Jump, WaitPoll
  <2>2. /\ ~Asking(t) /\ ~Under(t)
        /\ holder = NoTask => Under(t)' /\ ~Asking(t)'
        /\ holder # NoTask => Asking(t)' /\ ~Under(t)'
    BY <1>1, ZenonT(30) DEF Lock, LockPoll, Jump, WaitPoll
  <2> QED
    BY <1>1, <2>1, <2>2, LineJoined DEF Lock, WaitPoll
<1>2. CASE Take(t) \/ Put(t) \/ WaitUnlock(t)
  <2>1. \A u \in Tasks \ {t} : (Asking(u)' <=> Asking(u)) /\ (Under(u)' <=> Under(u))
    BY <1>2 DEF Take, Unlock, Jump, Put, WaitUnlock
  <2>2. holder = t /\ ~Asking(t)' /\ ~Under(t)'
    BY <1>2 DEF Take, Unlock, Jump, Put, WaitUnlock, GuardOwned
  <2> QED
    BY <1>2, <2>1, <2>2, LinePassed DEF Take, Put, WaitUnlock
<1>3. CASE CancelLock(t) \/ DropLock(t)
  <2>1. \A u \in Tasks \ {t} : (Asking(u)' <=> Asking(u)) /\ (Under(u)' <=> Under(u))
    BY <1>3 DEF CancelLock, DropLocking, Unlock, Jump, DropLock
  <2>2. Asking(t) /\ ~Under(t) /\ ~Asking(t)' /\ ~Under(t)'
    BY <1>3 DEF CancelLock, DropLocking, Unlock, Jump, DropLock
  <2> QED
    BY <1>3, <2>1, <2>2, LineLeft DEF CancelLock, DropLock
<1>4. CASE Locked(t) \/ WaitInit(t) \/ CancelWait(t) \/ CancelRelock(t)
  <2>1. \A u \in Tasks \ {t} : (Asking(u)' <=> Asking(u)) /\ (Under(u)' <=> Under(u))
    BY <1>4 DEF Locked, Jump, WaitInit, CancelWait, CancelRelock
  <2>2. /\ Under(t)' => holder = t
        /\ Asking(t)' => Asking(t)
        /\ Asking(t) \/ Under(t) => Asking(t)' \/ Under(t)'
        /\ Asking(t) /\ holder # t => Asking(t)'
    BY <1>4 DEF Locked, Jump, WaitInit, CancelWait, CancelRelock, GuardOwned
  <2> QED
    BY <1>4, <2>1, <2>2, LineKept, Zenon DEF Locked, WaitInit, CancelWait, CancelRelock
<1>5. CASE WakePop(t) \/ WakeMark(t)
  <2>1. \A u \in Tasks \ {t} : (Asking(u)' <=> Asking(u)) /\ (Under(u)' <=> Under(u))
    BY <1>5 DEF WakePop, WakeDone, Jump, WakeMark
  <2>2. /\ tpc[t] \in {"wake", "mark"} /\ mode'[t] = mode[t]
        /\ \/ tpc'[t] \in {"wake", "mark"}
           \/ mode[t] = "relock" /\ tpc'[t] = "dropLock"
           \/ mode[t] # "relock" /\ tpc'[t] = "out"
    BY <1>5 DEF WakePop, WakeDone, Jump, WakeMark
  <2>3. /\ Under(t)' => holder = t
        /\ Asking(t)' => Asking(t)
        /\ Asking(t) \/ Under(t) => Asking(t)' \/ Under(t)'
        /\ Asking(t) /\ holder # t => Asking(t)'
    BY <2>2
  <2> QED
    BY <1>5, <2>1, <2>3, LineKept, Zenon DEF WakePop, WakeMark
<1> QED
  BY <1>1, <1>2, <1>3, <1>4, <1>5, Zenon DEF TaskStep

(* Wakers have owners and are on their way, when the wakers are left alone  *)
LEMMA WakersKept ==
  ASSUME WakerInv, NEW t \in Tasks, UNCHANGED <<queue, wstat, mine, popped>>,
         \A u \in Tasks \ {t} : tpc'[u] = tpc[u],
         tpc'[t] \in {"queued", "wait"} <=> tpc[t] \in {"queued", "wait"},
         tpc'[t] = "mark" <=> tpc[t] = "mark"
  PROVE  WakerInv'
BY DEF WakerInv

(* ... and whatever the tasks do.                                           *)
LEMMA CondvarWakers ==
  ASSUME CondvarTypeOK, WakerInv, NEW t \in Tasks, TaskStep(t)
  PROVE  WakerInv'
<1> USE DEF Places
<1>0. /\ mine \in [Tasks -> Nat] /\ popped \in [Tasks -> Nat] /\ tpc \in [Tasks -> Places]
      /\ Len(wstat) \in Nat /\ DOMAIN wstat = 1..Len(wstat)
      /\ \A u \in Tasks : mine[u] <= Len(wstat) /\ popped[u] <= Len(wstat)
  BY DEF CondvarTypeOK
<1>1. CASE Lock(t) \/ Locked(t) \/ CancelLock(t) \/ Take(t) \/ Put(t) \/ WaitUnlock(t) \/
        CancelRelock(t) \/ DropLock(t)
  <2>1. /\ \A u \in Tasks \ {t} : tpc'[u] = tpc[u]
        /\ tpc'[t] \in {"queued", "wait"} <=> tpc[t] \in {"queued", "wait"}
        /\ tpc'[t] = "mark" <=> tpc[t] = "mark"
    BY <1>1, <1>0 DEF Lock, LockPoll, Jump, Locked, CancelLock, DropLocking, Unlock, Take, Put, WaitUnlock,
        CancelRelock, DropLock
  <2>2. UNCHANGED <<queue, wstat, mine, popped>>
    BY <1>1, Zenon DEF Lock, Locked, CancelLock, Take, Put, WaitUnlock, CancelRelock, DropLock
  <2> QED
    BY <2>1, <2>2, WakersKept
<1>2. CASE WaitInit(t)
  <2>1. /\ tpc' = [tpc EXCEPT ![t] = "queued"] /\ mine' = [mine EXCEPT ![t] = Len(wstat) + 1]
        /\ popped' = popped /\ tpc[t] \in {"in", "again"}
        /\ DOMAIN wstat = 1..Len(wstat) /\ DOMAIN wstat' = 1..(Len(wstat) + 1) /\ Len(wstat) \in Nat
        /\ \A w \in 1..Len(wstat) : wstat'[w] = wstat[w]
        /\ DOMAIN queue = 1..Len(queue) /\ DOMAIN queue' = 1..(Len(queue) + 1) /\ Len(queue) \in Nat
        /\ \A i \in 1..Len(queue) : queue'[i] = queue[i]
        /\ queue'[Len(queue) + 1] = Len(wstat) + 1
    BY <1>2 DEF WaitInit, Jump, CondvarTypeOK
  <2>2. ASSUME NEW u \in Tasks
        PROVE  /\ mine'[u] # 0 <=> tpc'[u] \in {"queued", "wait"}
               /\ popped'[u] # 0 <=> tpc'[u] = "mark"
    BY <1>0, <2>1 DEF WakerInv
  <2>3. ASSUME NEW u \in Tasks, NEW v \in Tasks, mine'[u] # 0, mine'[u] = mine'[v] PROVE u = v
    BY <1>0, <2>1, <2>3 DEF WakerInv
  <2>4. ASSUME NEW w \in DOMAIN wstat', wstat'[w] = "WAITING"
        PROVE  \E u \in Tasks : mine'[u] = w
    <3>1. CASE w = Len(wstat) + 1
      BY <1>0, <2>1, <3>1
    <3>2. CASE w # Len(wstat) + 1
      <4>1. w \in DOMAIN wstat /\ wstat[w] = "WAITING" /\ w # 0
        BY <1>0, <2>1, <2>4, <3>2
      <4>2. PICK u \in Tasks : mine[u] = w
        BY <4>1 DEF WakerInv
      <4>3. mine[t] = 0
        BY <1>0, <2>1, Zenon DEF WakerInv
      <4> QED
        BY <1>0, <2>1, <4>1, <4>2, <4>3
    <3> QED
      BY <3>1, <3>2
  <2>5. ASSUME NEW w \in DOMAIN wstat', wstat'[w] = "WAITING"
        PROVE  (\E i \in DOMAIN queue' : queue'[i] = w) \/ \E u \in Tasks : popped'[u] = w
    <3>1. CASE w = Len(wstat) + 1
      BY <2>1, <3>1
    <3>2. CASE w # Len(wstat) + 1
      <4>1. w \in DOMAIN wstat /\ wstat[w] = "WAITING"
        BY <1>0, <2>1, <2>5, <3>2
      <4>2. (\E i \in DOMAIN queue : queue[i] = w) \/ \E u \in Tasks : popped[u] = w
        BY <4>1 DEF WakerInv
      <4> QED
        BY <2>1, <4>2
    <3> QED
      BY <3>1, <3>2
  <2> QED
    BY <2>2, <2>3, <2>4, <2>5 DEF WakerInv
<1>3. CASE WaitPoll(t)
  <2>1. /\ tpc' \in {[tpc EXCEPT ![t] = "again"], [tpc EXCEPT ![t] = "relock"]}
        /\ mine' = [mine EXCEPT ![t] = 0] /\ tpc[t] = "wait" /\ wstat[mine[t]] = "ACQUIRED"
        /\ queue' = queue /\ wstat' = wstat /\ popped' = popped
    BY <1>3, Zenon DEF WaitPoll, LockPoll, Jump
  <2>2. ASSUME NEW u \in Tasks
        PROVE  /\ mine'[u] # 0 <=> tpc'[u] \in {"queued", "wait"}
               /\ popped'[u] # 0 <=> tpc'[u] = "mark"
    BY <1>0, <2>1 DEF WakerInv
  <2>3. ASSUME NEW u \in Tasks, NEW v \in Tasks, mine'[u] # 0, mine'[u] = mine'[v] PROVE u = v
    BY <1>0, <2>1, <2>3 DEF WakerInv
  <2>4. ASSUME NEW w \in DOMAIN wstat', wstat'[w] = "WAITING"
        PROVE  \E u \in Tasks : mine'[u] = w
    BY <1>0, <2>1, <2>4 DEF WakerInv
  <2>5. ASSUME NEW w \in DOMAIN wstat', wstat'[w] = "WAITING"
        PROVE  (\E i \in DOMAIN queue' : queue'[i] = w) \/ \E u \in Tasks : popped'[u] = w
    BY <1>0, <2>1, <2>5 DEF WakerInv
  <2> QED
    BY <2>2, <2>3, <2>4, <2>5 DEF WakerInv
<1>4. CASE CancelWait(t)
  <2>1. /\ tpc' \in {[tpc EXCEPT ![t] = "wake"], [tpc EXCEPT ![t] = "out"]}
        /\ mine' = [mine EXCEPT ![t] = 0] /\ tpc[t] = "wait" /\ mine[t] \in DOMAIN wstat
        /\ queue' = queue /\ popped' = popped /\ wstat' = [wstat EXCEPT ![mine[t]] = "GIVEUP"]
    <3>1. tpc[t] = "wait" /\ mine[t] \in DOMAIN wstat
      BY <1>0, <1>4 DEF CancelWait, WakerInv
    <3> QED
      BY <1>4, <3>1, Zenon DEF CancelWait, Jump
  <2>2. ASSUME NEW u \in Tasks
        PROVE  /\ mine'[u] # 0 <=> tpc'[u] \in {"queued", "wait"}
               /\ popped'[u] # 0 <=> tpc'[u] = "mark"
    BY <1>0, <2>1 DEF WakerInv
  <2>3. ASSUME NEW u \in Tasks, NEW v \in Tasks, mine'[u] # 0, mine'[u] = mine'[v] PROVE u = v
    BY <1>0, <2>1, <2>3, ZenonT(30) DEF WakerInv
  <2>4. ASSUME NEW w \in DOMAIN wstat', wstat'[w] = "WAITING"
        PROVE  \E u \in Tasks : mine'[u] = w
    BY <1>0, <2>1, <2>4 DEF WakerInv
  <2>5. ASSUME NEW w \in DOMAIN wstat', wstat'[w] = "WAITING"
        PROVE  (\E i \in DOMAIN queue' : queue'[i] = w) \/ \E u \in Tasks : popped'[u] = w
    <3>1. w \in DOMAIN wstat /\ wstat[w] = "WAITING"
      BY <1>0, <2>1, <2>5
    <3> QED
      BY <2>1, <3>1 DEF WakerInv
  <2> QED
    BY <2>2, <2>3, <2>4, <2>5 DEF WakerInv
<1>5. CASE WakePop(t)
  <2>1. CASE queue = <<>>
    <3>1. /\ \A u \in Tasks \ {t} : tpc'[u] = tpc[u]
          /\ tpc'[t] \in {"queued", "wait"} <=> tpc[t] \in {"queued", "wait"}
          /\ tpc'[t] = "mark" <=> tpc[t] = "mark"
      BY <1>5, <2>1 DEF WakePop, WakeDone, Jump, CondvarTypeOK
    <3> QED
      BY <1>5, <2>1, <3>1, WakersKept DEF WakePop
  <2>2. CASE queue # <<>>
    <3>1. /\ tpc' = [tpc EXCEPT ![t] = "mark"] /\ popped' = [popped EXCEPT ![t] = queue[1]]
          /\ tpc[t] = "wake" /\ wstat' = wstat /\ mine' = mine /\ Len(queue) \in Nat /\ Len(queue) > 0
          /\ DOMAIN queue = 1..Len(queue) /\ DOMAIN queue' = 1..(Len(queue) - 1)
          /\ \A i \in 1..(Len(queue) - 1) : queue'[i] = queue[i + 1]
      <4>1. queue' = Tail(queue) /\ popped' = [popped EXCEPT ![t] = Head(queue)]
        BY <1>5, <2>2 DEF WakePop
      <4>2. /\ Len(queue) \in Nat /\ Len(queue) > 0 /\ Head(queue) = queue[1]
            /\ DOMAIN queue = 1..Len(queue) /\ DOMAIN Tail(queue) = 1..(Len(queue) - 1)
            /\ \A i \in 1..(Len(queue) - 1) : Tail(queue)[i] = queue[i + 1]
        BY <2>2 DEF CondvarTypeOK
      <4> QED
        BY <1>5, <2>2, <4>1, <4>2 DEF WakePop, Jump
    <3>0. queue[1] \in 1..Len(wstat)
      BY <3>1 DEF CondvarTypeOK
    <3>2. ASSUME NEW u \in Tasks
          PROVE  /\ mine'[u] # 0 <=> tpc'[u] \in {"queued", "wait"}
                 /\ popped'[u] # 0 <=> tpc'[u] = "mark"
      BY <1>0, <3>0, <3>1 DEF WakerInv
    <3>3. ASSUME NEW u \in Tasks, NEW v \in Tasks, mine'[u] # 0, mine'[u] = mine'[v] PROVE u = v
      BY <1>0, <3>0, <3>1, <3>3 DEF WakerInv
    <3>4. ASSUME NEW w \in DOMAIN wstat', wstat'[w] = "WAITING"
          PROVE  \E u \in Tasks : mine'[u] = w
      BY <1>0, <3>0, <3>1, <3>4 DEF WakerInv
    <3>5. ASSUME NEW w \in DOMAIN wstat', wstat'[w] = "WAITING"
          PROVE  (\E i \in DOMAIN queue' : queue'[i] = w) \/ \E u \in Tasks : popped'[u] = w
      <4>1. w \in DOMAIN wstat /\ wstat[w] = "WAITING"
        BY <3>1, <3>5
      <4>2. CASE \E u \in Tasks : popped[u] = w
        <5>1. PICK u \in Tasks : popped[u] = w
          BY <4>2
        <5>2. u # t
          BY <1>0, <3>1, <4>1, <5>1 DEF WakerInv
        <5> QED
          BY <1>0, <3>1, <5>1, <5>2
      <4>3. CASE \E i \in DOMAIN queue : queue[i] = w
        <5>1. PICK i \in 1..Len(queue) : queue[i] = w
          BY <3>1, <4>3
        <5>2. CASE i = 1
          BY <1>0, <3>1, <5>1, <5>2
        <5>3. CASE i # 1
          <6>1. i - 1 \in 1..(Len(queue) - 1) /\ (i - 1) + 1 = i
            BY <3>1, <5>3
          <6>2. queue'[i - 1] = w
            BY <3>1, <5>1, <6>1
          <6> QED
            BY <3>1, <6>1, <6>2
        <5> QED
          BY <5>2, <5>3
      <4> QED
        BY <4>1, <4>2, <4>3 DEF WakerInv
    <3> QED
      BY <3>2, <3>3, <3>4, <3>5 DEF WakerInv
  <2> QED
    BY <2>1, <2>2
<1>6. CASE WakeMark(t)
  <2>1. /\ \E x \in {"wake", "out", "dropLock"} : tpc' = [tpc EXCEPT ![t] = x]
        /\ tpc[t] = "mark" /\ popped' = [popped EXCEPT ![t] = 0]
        /\ queue' = queue /\ mine' = mine
    BY <1>6, Zenon DEF WakeMark, WakeDone, Jump
  <2>0. popped[t] \in DOMAIN wstat
    BY <1>0, <2>1 DEF WakerInv
  <2>6. /\ DOMAIN wstat' = DOMAIN wstat /\ wstat'[popped[t]] # "WAITING"
        /\ \A w \in DOMAIN wstat : w # popped[t] => wstat'[w] = wstat[w]
    <3>1. CASE wstat[popped[t]] = "WAITING"
      BY <1>6, <2>0, <3>1 DEF WakeMark, CondvarTypeOK
    <3>2. CASE wstat[popped[t]] # "WAITING"
      BY <1>6, <2>0, <3>2 DEF WakeMark
    <3> QED
      BY <3>1, <3>2
  <2>2. ASSUME NEW u \in Tasks
        PROVE  /\ mine'[u] # 0 <=> tpc'[u] \in {"queued", "wait"}
               /\ popped'[u] # 0 <=> tpc'[u] = "mark"
    BY <1>0, <2>0, <2>1, <2>6 DEF WakerInv
  <2>3. ASSUME NEW u \in Tasks, NEW v \in Tasks, mine'[u] # 0, mine'[u] = mine'[v] PROVE u = v
    BY <1>0, <2>0, <2>1, <2>6, <2>3, ZenonT(30) DEF WakerInv
  <2>4. ASSUME NEW w \in DOMAIN wstat', wstat'[w] = "WAITING"
        PROVE  \E u \in Tasks : mine'[u] = w
    BY <1>0, <2>0, <2>1, <2>6, <2>4 DEF WakerInv
  <2>5. ASSUME NEW w \in DOMAIN wstat', wstat'[w] = "WAITING"
        PROVE  (\E i \in DOMAIN queue' : queue'[i] = w) \/ \E u \in Tasks : popped'[u] = w
    <3>1. w \in DOMAIN wstat /\ wstat[w] = "WAITING" /\ w # popped[t]
      BY <2>5, <2>6
    <3>2. (\E i \in DOMAIN queue : queue[i] = w) \/ \E u \in Tasks : popped[u] = w
      BY <3>1 DEF WakerInv
    <3> QED
      BY <1>0, <2>1, <3>1, <3>2
  <2> QED
    BY <2>2, <2>3, <2>4, <2>5 DEF WakerInv
<1> QED
  BY <1>1, <1>2, <1>3, <1>4, <1>5, <1>6, Zenon DEF TaskStep

(* Items and the tasks that carry a wake for them: more carriers ...        *)
LEMMA CarriedOn ==
  ASSUME CondvarTypeOK, ItemsCarried, Carriers \subseteq Carriers', items' \in Nat, items' <= items,
         (\E i \in DOMAIN queue' : wstat'[queue'[i]] = "WAITING")
            => \E i \in DOMAIN queue : wstat[queue[i]] = "WAITING"
  PROVE  ItemsCarried'
<1>1. IsFiniteSet(Carriers')
  <2>1. Carriers' \in SUBSET Tasks
    BY DEF Carriers
  <2> QED
    BY <2>1, FS_Subset, CondvarAssumption
<1>2. Cardinality(Carriers) <= Cardinality(Carriers')
  BY <1>1, FS_Subset
<1>3. Cardinality(Carriers) \in Nat /\ Cardinality(Carriers') \in Nat
  BY <1>1, FS_Subset, FS_CardinalityType
<1>4. items \in Nat
  BY DEF CondvarTypeOK
<1> QED
  BY <1>2, <1>3, <1>4 DEF ItemsCarried

(* ... one carrier less for one item less, or one more for one more ...     *)
LEMMA CarriedOff ==
  ASSUME CondvarTypeOK, ItemsCarried, NEW t \in Tasks, UNCHANGED <<queue, wstat>>,
         items > 0, items' = items - 1, Carriers \ {t} \subseteq Carriers'
  PROVE  ItemsCarried'
<1>1. IsFiniteSet(Carriers) /\ IsFiniteSet(Carriers')
  <2>1. Carriers \in SUBSET Tasks /\ Carriers' \in SUBSET Tasks
    BY DEF Carriers
  <2> QED
    BY <2>1, FS_Subset, CondvarAssumption
<1>2. Cardinality(Carriers) \in Nat /\ Cardinality(Carriers') \in Nat
  BY <1>1, FS_CardinalityType
<1>3. Cardinality(Carriers \ {t}) = IF t \in Carriers THEN Cardinality(Carriers) - 1 ELSE Cardinality(Carriers)
  BY <1>1, FS_RemoveElement, Zenon
<1>4. Cardinality(Carriers \ {t}) <= Cardinality(Carriers')
  BY <1>1, FS_Subset
<1>5. Cardinality(Carriers) <= Cardinality(Carriers') + 1
  BY <1>2, <1>3, <1>4
<1>6. items \in Nat
  BY DEF CondvarTypeOK
<1> QED
  BY <1>2, <1>5, <1>6 DEF ItemsCarried

LEMMA CarriedMore ==
  ASSUME CondvarTypeOK, ItemsCarried, NEW t \in Tasks, UNCHANGED <<queue, wstat>>,
         items' = items + 1, Carriers' = Carriers \union {t}, t \notin Carriers
  PROVE  ItemsCarried'
<1>1. IsFiniteSet(Carriers)
  <2>1. Carriers \in SUBSET Tasks
    BY DEF Carriers
  <2> QED
    BY <2>1, FS_Subset, CondvarAssumption
<1>2. Cardinality(Carriers) \in Nat
  BY <1>1, FS_CardinalityType
<1>3. Cardinality(Carriers \union {t}) = Cardinality(Carriers) + 1
  BY <1>1, FS_AddElement
<1>4. items \in Nat
  BY DEF CondvarTypeOK
<1> QED
  BY <1>2, <1>3, <1>4 DEF ItemsCarried

(* ... or a wake that changes hands.                                        *)
LEMMA CarriedOver ==
  ASSUME CondvarTypeOK, ItemsCarried, NEW t \in Tasks, NEW v \in Tasks, UNCHANGED items,
         v \notin Carriers, v # t, (Carriers \ {t}) \union {v} \subseteq Carriers',
         (\E i \in DOMAIN queue' : wstat'[queue'[i]] = "WAITING")
            => \E i \in DOMAIN queue : wstat[queue[i]] = "WAITING"
  PROVE  ItemsCarried'
<1>1. IsFiniteSet(Carriers) /\ IsFiniteSet(Carriers')
  <2>1. Carriers \in SUBSET Tasks /\ Carriers' \in SUBSET Tasks
    BY DEF Carriers
  <2> QED
    BY <2>1, FS_Subset, CondvarAssumption
<1>2. Cardinality(Carriers) \in Nat /\ Cardinality(Carriers') \in Nat
  BY <1>1, FS_CardinalityType
<1>3. /\ IsFiniteSet(Carriers \ {t})
      /\ Cardinality(Carriers \ {t}) = IF t \in Carriers THEN Cardinality(Carriers) - 1 ELSE Cardinality(Carriers)
  BY <1>1, FS_RemoveElement
<1>4. Cardinality((Carriers \ {t}) \union {v}) = Cardinality(Carriers \ {t}) + 1
  BY <1>3, FS_AddElement
<1>5. Cardinality((Carriers \ {t}) \union {v}) <= Cardinality(Carriers')
  BY <1>1, FS_Subset
<1>6. Cardinality(Carriers) <= Cardinality(Carriers')
  BY <1>2, <1>3, <1>4, <1>5
<1>7. items \in Nat
  BY DEF CondvarTypeOK
<1> QED
  BY <1>2, <1>6, <1>7 DEF ItemsCarried

(* While somebody sleeps there is a carrier for every item.                 *)
LEMMA CondvarCarried ==
  ASSUME CondvarTypeOK, WakerInv, ItemsCarried, NEW t \in Tasks, TaskStep(t)
  PROVE  ItemsCarried'
<1> USE DEF Places
<1>0. /\ mine \in [Tasks -> Nat] /\ popped \in [Tasks -> Nat] /\ tpc \in [Tasks -> Places]
      /\ Len(wstat) \in Nat /\ DOMAIN wstat = 1..Len(wstat) /\ items \in Nat
      /\ \A u \in Tasks : mine[u] <= Len(wstat) /\ popped[u] <= Len(wstat)
      /\ \A i \in DOMAIN queue : queue[i] \in DOMAIN wstat
  BY DEF CondvarTypeOK
<1>1. CASE Lock(t) \/ Locked(t) \/ CancelLock(t) \/ WaitUnlock(t) \/ WaitPoll(t) \/ CancelRelock(t) \/
        DropLock(t)
  <2>1. Carriers \subseteq Carriers'
    BY <1>1, <1>0, ZenonT(30) DEF Lock, LockPoll, Jump, Locked, CancelLock, DropLocking, Unlock, WaitUnlock, WaitPoll,
        CancelRelock, DropLock, Carriers
  <2>2. UNCHANGED <<items, queue, wstat>>
    BY <1>1, Zenon DEF Lock, Locked, CancelLock, WaitUnlock, WaitPoll, CancelRelock, DropLock
  <2> QED
    BY <1>0, <2>1, <2>2, CarriedOn
<1>2. CASE Take(t)
  <2>1. Carriers \ {t} \subseteq Carriers'
    BY <1>2, <1>0 DEF Take, Jump, Carriers
  <2> QED
    BY <1>2, <2>1, CarriedOff DEF Take
<1>3. CASE Put(t)
  <2>1. Carriers' = Carriers \union {t} /\ t \notin Carriers
    BY <1>3, <1>0 DEF Put, Jump, Carriers
  <2> QED
    BY <1>3, <2>1, CarriedMore DEF Put
<1>4. CASE WaitInit(t)
  <2>1. items' = 0
    BY <1>4 DEF WaitInit
  <2>2. Carriers' \in SUBSET Tasks
    BY DEF Carriers
  <2>3. Cardinality(Carriers') \in Nat
    BY <2>2, FS_Subset, FS_CardinalityType, CondvarAssumption
  <2> QED
    BY <2>1, <2>3 DEF ItemsCarried
<1>5. CASE CancelWait(t)
  <2>1. mine[t] \in DOMAIN wstat /\ mine[t] \in Nat /\ mine[t] # 0
    BY <1>5, <1>0 DEF CancelWait, WakerInv
  <2>2. \A w \in DOMAIN wstat : wstat'[w] = IF w = mine[t] THEN "GIVEUP" ELSE wstat[w]
    BY <1>5, <2>1 DEF CancelWait, CondvarTypeOK
  <2>3. ASSUME NEW u \in Carriers PROVE u \in Carriers'
    <3>1. CASE u = t
      BY <1>5, <1>0, <3>1 DEF CancelWait, Jump, Carriers
    <3>2. CASE u # t
      <4>1. u \in Tasks /\ tpc'[u] = tpc[u] /\ mine'[u] = mine[u]
        BY <1>5, <1>0, <3>2 DEF CancelWait, Jump, Carriers
      <4>2. tpc[u] \in {"queued", "wait"} => mine[u] \in DOMAIN wstat /\ mine[u] # mine[t]
        BY <1>0, <2>1, <3>2, <4>1 DEF WakerInv
      <4> QED
        BY <2>2, <4>1, <4>2 DEF Carriers
    <3> QED
      BY <3>1, <3>2
  <2>4. ASSUME NEW i \in DOMAIN queue', wstat'[queue'[i]] = "WAITING"
        PROVE  \E j \in DOMAIN queue : wstat[queue[j]] = "WAITING"
    <3>1. queue' = queue /\ queue[i] \in DOMAIN wstat
      BY <1>5, <1>0, <2>4 DEF CancelWait
    <3> QED
      BY <2>2, <2>4, <3>1
  <2>5. items' = items
    BY <1>5 DEF CancelWait
  <2> QED
    BY <1>0, <2>3, <2>4, <2>5, CarriedOn
<1>6. CASE WakePop(t)
  <2>1. CASE queue = <<>>
    <3>1. queue' = <<>>
      BY <1>6, <2>1 DEF WakePop
    <3> QED
      BY <3>1 DEF ItemsCarried
  <2>2. CASE queue # <<>>
    <3>1. Carriers \subseteq Carriers'
      BY <1>6, <1>0, <2>2 DEF WakePop, Jump, Carriers
    <3>2. queue' = Tail(queue) /\ wstat' = wstat /\ items' = items
      BY <1>6, <2>2 DEF WakePop
    <3>3. /\ Len(queue) \in Nat /\ DOMAIN queue = 1..Len(queue) /\ DOMAIN queue' = 1..(Len(queue) - 1)
          /\ \A i \in 1..(Len(queue) - 1) : queue'[i] = queue[i + 1]
      BY <2>2, <3>2 DEF CondvarTypeOK
    <3>4. ASSUME NEW i \in DOMAIN queue', wstat'[queue'[i]] = "WAITING"
          PROVE  \E j \in DOMAIN queue : wstat[queue[j]] = "WAITING"
      BY <3>2, <3>3, <3>4
    <3> QED
      BY <1>0, <3>1, <3>2, <3>4, CarriedOn
  <2> QED
    BY <2>1, <2>2
<1>7. CASE WakeMark(t)
  <2>1. popped[t] \in DOMAIN wstat /\ tpc[t] = "mark" /\ items' = items
    BY <1>7, <1>0 DEF WakeMark, WakerInv
  <2>2. CASE wstat[popped[t]] # "WAITING"
    <3>1. Carriers \subseteq Carriers'
      BY <1>7, <1>0, <2>2 DEF WakeMark, Jump, Carriers
    <3> QED
      BY <1>7, <1>0, <2>1, <2>2, <3>1, CarriedOn DEF WakeMark
  <2>3. CASE wstat[popped[t]] = "WAITING"
    <3>1. \A w \in DOMAIN wstat : wstat'[w] = IF w = popped[t] THEN "ACQUIRED" ELSE wstat[w]
      BY <1>7, <2>1, <2>3 DEF WakeMark, CondvarTypeOK
    <3>2. PICK v \in Tasks : mine[v] = popped[t]
      BY <2>1, <2>3 DEF WakerInv
    <3>3. tpc[v] \in {"queued", "wait"} /\ v # t
      BY <1>0, <2>1, <3>2 DEF WakerInv
    <3>4. v \notin Carriers
      BY <2>3, <3>2, <3>3 DEF Carriers
    <3>5. ASSUME NEW u \in Tasks, u # t PROVE tpc'[u] = tpc[u] /\ mine'[u] = mine[u]
      BY <1>7, <1>0, <3>5 DEF WakeMark, WakeDone, Jump
    <3>6. ASSUME NEW u \in (Carriers \ {t}) \union {v} PROVE u \in Carriers'
      <4>1. u \in Tasks /\ u # t
        BY <3>3, <3>6 DEF Carriers
      <4>2. tpc[u] \in {"queued", "wait"} => mine[u] \in DOMAIN wstat
        BY <1>0, <4>1 DEF WakerInv
      <4> QED
        BY <3>1, <3>2, <3>3, <3>5, <3>6, <4>1, <4>2 DEF Carriers
    <3>7. ASSUME NEW i \in DOMAIN queue', wstat'[queue'[i]] = "WAITING"
          PROVE  \E j \in DOMAIN queue : wstat[queue[j]] = "WAITING"
      <4>1. queue' = queue /\ queue[i] \in DOMAIN wstat
        BY <1>7, <1>0, <3>7 DEF WakeMark
      <4> QED
        BY <3>1, <3>7, <4>1
    <3> QED
      BY <2>1, <3>3, <3>4, <3>6, <3>7, CarriedOver
  <2> QED
    BY <2>2, <2>3
<1> QED
  BY <1>1, <1>2, <1>3, <1>4, <1>5, <1>6, <1>7, Zenon DEF TaskStep

LEMMA CondvarStep ==
  ASSUME CondvarInv, [cvNext]_cvVars
  PROVE  CondvarInv'
<1> USE DEF CondvarInv
<1>1. CASE cvNext
  <2>1. PICK t \in Tasks : TaskStep(t)
    BY <1>1, Zenon DEF cvNext, TaskStep
  <2> QED
    BY <2>1, CondvarTypes, CondvarLock, CondvarWakers, CondvarCarried
<1>2. CASE UNCHANGED cvVars
  BY <1>2 DEF cvVars, CondvarTypeOK, GuardOwned, MutexInv, WakerInv, ItemsCarried, Carriers, Asking, Under
<1> QED
  BY <1>1, <1>2

(* No wake is lost and nobody is under a guard that is not theirs, for any  *)
(* number of tasks, waits and items.  The items are counted against the     *)
(* tasks that carry a wake.                                                 *)
THEOREM CondvarIsSafe == cvSpec => []CondvarSafe
<1>1. cvInit => CondvarInv
  <2> SUFFICES ASSUME cvInit PROVE CondvarInv
    OBVIOUS
  <2>1. CondvarTypeOK /\ items <= puts
    BY CondvarAssumption DEF cvInit, CondvarTypeOK, Places
  <2>2. GuardOwned /\ MutexInv
    BY CondvarAssumption DEF cvInit, GuardOwned, MutexInv, Asking, Under
  <2>3. WakerInv /\ ItemsCarried
    BY DEF cvInit, WakerInv, ItemsCarried
  <2> QED
    BY <2>1, <2>2, <2>3 DEF CondvarInv
<1>2. CondvarInv /\ [cvNext]_cvVars => CondvarInv'
  BY CondvarStep
<1>3. CondvarInv => CondvarSafe
  <2> SUFFICES ASSUME CondvarInv, Quiet, items > 0, NEW t \in Tasks, tpc[t] # "out" PROVE FALSE
    BY DEF CondvarSafe, CondvarInv, NoSleepOnItems
  <2>1. tpc[t] = "wait" /\ wstat[mine[t]] = "WAITING"
    BY DEF Quiet
  <2>2. mine[t] \in DOMAIN wstat
    BY <2>1 DEF CondvarInv, CondvarTypeOK, WakerInv
  <2>3. \A u \in Tasks : popped[u] = 0
    BY DEF Quiet, CondvarInv, WakerInv
  <2>4. \E i \in DOMAIN queue : queue[i] = mine[t]
    <3>1. mine[t] # 0
      BY <2>1 DEF CondvarInv, WakerInv
    <3> QED
      BY <2>1, <2>2, <2>3, <3>1 DEF CondvarInv, WakerInv
  <2>5. Carriers = {}
    BY DEF Quiet, Carriers
  <2>6. items <= 0 /\ items \in Nat
    BY <2>1, <2>4, <2>5, FS_EmptySet DEF CondvarInv, ItemsCarried, CondvarTypeOK
  <2> QED
    BY <2>6
<1> QED
  BY <1>1, <1>2, <1>3, PTL DEF cvSpec

-----------------------------------------------------------------------------
(* Futexes.                                                               *)
-----------------------------------------------------------------------------

(* What is left of a queue when its first k senders are taken out.         *)
LEMMA RestOfQueue ==
  ASSUME NEW q \in Seq(Waiters), NEW k \in Nat, k <= Len(q)
  PROVE  /\ SubSeq(q, k + 1, Len(q)) \in Seq(Waiters)
         /\ \A i \in DOMAIN SubSeq(q, k + 1, Len(q)) :
               i + k \in DOMAIN q /\ i + k > k /\ SubSeq(q, k + 1, Len(q))[i] = q[i + k]
         /\ \A j \in DOMAIN q : j > k =>
               j - k \in DOMAIN SubSeq(q, k + 1, Len(q)) /\ SubSeq(q, k + 1, Len(q))[j - k] = q[j]
<1>1. Len(q) \in Nat /\ k \in Nat /\ k <= Len(q) /\ DOMAIN q = 1..Len(q)
  OBVIOUS
<1> DEFINE p == SubSeq(q, k + 1, Len(q))
<1>2. /\ p \in Seq(Waiters)
      /\ Len(p) = IF k + 1 <= Len(q) THEN Len(q) - (k + 1) + 1 ELSE 0
      /\ \A i \in 1..(Len(q) - (k + 1) + 1) : p[i] = q[(k + 1) + i - 1]
  <2>1. \A i \in (k + 1)..Len(q) : q[i] \in Waiters
    BY <1>1
  <2>2. k + 1 \in Int /\ Len(q) \in Int
    BY <1>1
  <2> QED
    BY <2>1, <2>2
<1> HIDE DEF p
<1>3. DOMAIN p = 1..(Len(q) - k) /\ \A i \in 1..(Len(q) - k) : p[i] = q[i + k]
  <2>1. DOMAIN p = 1..Len(p) /\ Len(p) = Len(q) - k
    <3>1. p \in Seq(Waiters)
      BY <1>2
    <3>2. DOMAIN p = 1..Len(p)
      BY <3>1
    <3>3. CASE k < Len(q)
      <4>1. k + 1 <= Len(q) /\ Len(q) - (k + 1) + 1 = Len(q) - k
        BY <1>1, <3>3
      <4> QED
        BY <1>2, <3>2, <4>1
    <3>4. CASE k = Len(q)
      <4>1. ~(k + 1 <= Len(q)) /\ Len(q) - k = 0
        BY <1>1, <3>4
      <4> QED
        BY <1>2, <3>2, <4>1
    <3>5. k < Len(q) \/ k = Len(q)
      <4>1. \A m, n \in Nat : m <= n => m < n \/ m = n
        OBVIOUS
      <4> QED
        BY <1>1, <4>1, Zenon
    <3> QED
      BY <3>3, <3>4, <3>5, Zenon
  <2>2. \A i \in 1..(Len(q) - k) : i \in 1..(Len(q) - (k + 1) + 1) /\ (k + 1) + i - 1 = i + k
    BY <1>1
  <2> QED
    BY <1>2, <2>1, <2>2
<1>4. ASSUME NEW i \in DOMAIN p PROVE i + k \in DOMAIN q /\ i + k > k /\ p[i] = q[i + k]
  BY <1>1, <1>3
<1>5. ASSUME NEW j \in DOMAIN q, j > k PROVE j - k \in DOMAIN p /\ p[j - k] = q[j]
  <2>1. j - k \in 1..(Len(q) - k) /\ (j - k) + k = j
    BY <1>1, <1>5
  <2> QED
    BY <1>3, <2>1
<1> QED
  BY <1>2, <1>4, <1>5 DEF p

(* A queue to which a sender was added.                                    *)
LEMMA LongerQueue ==
  ASSUME NEW q \in Seq(Waiters), NEW t \in Waiters
  PROVE  /\ Append(q, t) \in Seq(Waiters) /\ t \in Range(Append(q, t))
         /\ Range(q) \subseteq Range(Append(q, t))
         /\ \A i \in DOMAIN Append(q, t) :
               \/ i \in DOMAIN q /\ Append(q, t)[i] = q[i]
               \/ i = Len(q) + 1 /\ Append(q, t)[i] = t
<1>1. /\ Append(q, t) \in Seq(Waiters) /\ Len(q) \in Nat
      /\ DOMAIN q = 1..Len(q) /\ DOMAIN Append(q, t) = 1..(Len(q) + 1)
      /\ Append(q, t)[Len(q) + 1] = t
      /\ \A i \in 1..Len(q) : Append(q, t)[i] = q[i]
  OBVIOUS
<1>2. DOMAIN q \subseteq DOMAIN Append(q, t) /\ Len(q) + 1 \in DOMAIN Append(q, t)
  BY <1>1
<1>3. Range(q) \subseteq Range(Append(q, t)) /\ t \in Range(Append(q, t))
  BY <1>1, <1>2, Zenon DEF Range
<1>4. \A i \in 1..(Len(q) + 1) : i \in 1..Len(q) \/ i = Len(q) + 1
  BY <1>1
<1> QED
  BY <1>1, <1>3, <1>4, Zenon

(* The actions that touch no queue.                                        *)
LEMMA LoadStep ==
  ASSUME FutexInv, NEW t \in Waiters, NEW a \in Addrs, Load(t, a)
  PROVE  FutexInv'
<1>1. FutexTypes /\ BlockedReceive /\ ReceiversQueued /\ ReceiversOwed /\ SoleSender
  BY DEF FutexInv
<1>2. /\ fpc[t].at = "user" /\ Running(t)
      /\ fpc' = [fpc EXCEPT ![t] = [at |-> "loaded", addr |-> a, exp |-> word[a]]]
      /\ UNCHANGED <<word, futex, fst, lost, short>>
  BY DEF Load
<1>3. FutexTypes'
  BY <1>1, <1>2 DEF FutexTypes
<1>4. \A u \in Waiters : /\ u # t => fpc'[u] = fpc[u]
                         /\ Receiving(u)' <=> Receiving(u)
                         /\ Receiving(u) => fpc'[u] = fpc[u]
  BY <1>1, <1>2 DEF FutexTypes, Receiving
<1>5. BlockedReceive'
  BY <1>1, <1>2, <1>4 DEF BlockedReceive
<1>6. ReceiversQueued'
  BY <1>1, <1>2, <1>4 DEF ReceiversQueued
<1>7. \A b : WakeOwed(b) => WakeOwed(b)'
  BY <1>1, <1>2, <1>4 DEF WakeOwed, Running
<1>8. ReceiversOwed'
  BY <1>1, <1>2, <1>4, <1>7 DEF ReceiversOwed
<1>9. SoleSender'
  <2> SUFFICES ASSUME NEW u \in Waiters, fst'[u] \in {"ready", "blocked"}, NEW b \in Addrs,
                      NEW i \in DOMAIN futex[b], futex[b][i] = u
               PROVE  /\ Receiving(u)' /\ fpc'[u].addr = b
                      /\ \A j \in DOMAIN futex[b] : futex[b][j] = u => i = j
    BY <1>2 DEF SoleSender
  <2>1. fst[u] \in {"ready", "blocked"}
    BY <1>2, <1>4
  <2>2. Receiving(u) /\ fpc[u].addr = b /\ \A j \in DOMAIN futex[b] : futex[b][j] = u => i = j
    BY <1>1, <2>1 DEF SoleSender
  <2> QED
    BY <1>2, <1>4, <2>2
<1> QED
  BY <1>3, <1>5, <1>6, <1>8, <1>9 DEF FutexInv

(* A store makes waits stale and puts the storer where it owes a wake.     *)
LEMMA StoreStep ==
  ASSUME FutexInv, NEW t \in Waiters, NEW a \in Addrs, Store(t, a)
  PROVE  FutexInv'
<1>1. FutexTypes /\ BlockedReceive /\ ReceiversQueued /\ ReceiversOwed /\ SoleSender
  BY DEF FutexInv
<1>2. /\ fpc[t].at = "user" /\ Running(t)
      /\ fpc' = [fpc EXCEPT ![t] = [at |-> "stored", addr |-> a, exp |-> 0]]
      /\ word' = [word EXCEPT ![a] = 1 - @]
      /\ UNCHANGED <<futex, fst, lost, short>>
  BY DEF Store
<1>3. FutexTypes'
  BY <1>1, <1>2 DEF FutexTypes
<1>4. \A u \in Waiters : /\ u # t => fpc'[u] = fpc[u]
                         /\ Receiving(u)' <=> Receiving(u)
                         /\ Receiving(u) => fpc'[u] = fpc[u]
  BY <1>1, <1>2 DEF FutexTypes, Receiving
<1>5. BlockedReceive'
  BY <1>1, <1>2, <1>4 DEF BlockedReceive
<1>6. ReceiversQueued'
  BY <1>1, <1>2, <1>4 DEF ReceiversQueued
<1>7. \A b : WakeOwed(b) => WakeOwed(b)'
  BY <1>1, <1>2, <1>4 DEF WakeOwed, Running
<1>8. WakeOwed(a)'
  BY <1>1, <1>2 DEF WakeOwed, Running, FutexTypes
<1>9. \A b \in Addrs : b # a => word'[b] = word[b]
  BY <1>1, <1>2 DEF FutexTypes
<1>10. ReceiversOwed'
  <2> SUFFICES ASSUME NEW u \in Waiters, Receiving(u), fpc'[u] = fpc[u]
               PROVE  word'[fpc'[u].addr] = fpc'[u].exp \/ WakeOwed(fpc[u].addr)'
    BY <1>4 DEF ReceiversOwed
  <2>1. PICK b \in Addrs : b = fpc[u].addr
    BY <1>1 DEF FutexTypes
  <2>2. word[b] = fpc[u].exp \/ WakeOwed(b)
    BY <1>1, <2>1 DEF ReceiversOwed
  <2> QED
    BY <1>7, <1>8, <1>9, <2>1, <2>2
<1>11. SoleSender'
  <2> SUFFICES ASSUME NEW u \in Waiters, fst'[u] \in {"ready", "blocked"}, NEW b \in Addrs,
                      NEW i \in DOMAIN futex[b], futex[b][i] = u
               PROVE  /\ Receiving(u)' /\ fpc'[u].addr = b
                      /\ \A j \in DOMAIN futex[b] : futex[b][j] = u => i = j
    BY <1>2 DEF SoleSender
  <2>1. fst[u] \in {"ready", "blocked"}
    BY <1>2, <1>4
  <2>2. Receiving(u) /\ fpc[u].addr = b /\ \A j \in DOMAIN futex[b] : futex[b][j] = u => i = j
    BY <1>1, <2>1 DEF SoleSender
  <2> QED
    BY <1>2, <1>4, <2>2
<1> QED
  BY <1>3, <1>5, <1>6, <1>10, <1>11 DEF FutexInv

(* The thread goes to sleep with its sender queued, or returns because it  *)
(* was stopped or its sender is gone.                                      *)
LEMMA RecvStep ==
  ASSUME FutexInv, NEW t \in Waiters, Recv(t)
  PROVE  FutexInv'
<1>1. FutexTypes /\ BlockedReceive /\ ReceiversQueued /\ ReceiversOwed /\ SoleSender
  BY DEF FutexInv
<1>2. fpc[t].at = "recv" /\ Running(t) /\ UNCHANGED <<word, futex, lost, short>>
  BY DEF Recv
<1>3. CASE fst[t] = "stopping" \/ lost[t]
  <2>1. fpc' = [fpc EXCEPT ![t].at = "user"] /\ fst' = fst
    BY <1>3 DEF Recv, Go
  <2>2. FutexTypes'
    <3>1. fpc \in [Waiters -> [at : {"user", "loaded", "stored", "recv"}, addr : Addrs, exp : Int]]
      BY <1>1 DEF FutexTypes
    <3>2. fpc' \in [Waiters -> [at : {"user", "loaded", "stored", "recv"}, addr : Addrs, exp : Int]]
      BY <2>1, <3>1
    <3> QED
      BY <1>1, <1>2, <2>1, <3>2, Zenon DEF FutexTypes
  <2>3. /\ \A u \in Waiters : u # t => fpc'[u] = fpc[u] /\ (Receiving(u)' <=> Receiving(u))
        /\ ~Receiving(t)' /\ fpc'[t].at = "user"
    <3>1. fpc \in [Waiters -> [at : {"user", "loaded", "stored", "recv"}, addr : Addrs, exp : Int]]
      BY <1>1 DEF FutexTypes
    <3>2. fpc'[t].at = "user" /\ \A u \in Waiters : u # t => fpc'[u] = fpc[u]
      BY <2>1, <3>1
    <3> QED
      BY <1>2, <3>2 DEF Receiving
  <2>4. BlockedReceive'
    BY <1>1, <1>2, <1>3, <2>1, <2>3 DEF BlockedReceive, Receiving, Running
  <2>5. ReceiversQueued'
    BY <1>1, <1>2, <2>3 DEF ReceiversQueued
  <2>6. \A b : WakeOwed(b) => WakeOwed(b)'
    BY <1>1, <1>2, <2>1, <2>3 DEF WakeOwed, Running
  <2>7. ReceiversOwed'
    BY <1>1, <1>2, <2>3, <2>6, Zenon DEF ReceiversOwed
  <2>8. SoleSender'
    BY <1>1, <1>2, <1>3, <2>1, <2>3 DEF SoleSender, FutexTypes, Receiving
  <2> QED
    BY <2>2, <2>4, <2>5, <2>7, <2>8 DEF FutexInv
<1>4. CASE ~(fst[t] = "stopping" \/ lost[t])
  <2>1. fpc' = fpc /\ fst' = [fst EXCEPT ![t] = "blocked"] /\ fst[t] = "ready"
    BY <1>2, <1>4 DEF Recv, Running
  <2>2. FutexTypes'
    BY <1>1, <1>2, <2>1 DEF FutexTypes
  <2>3. \A u \in Waiters : /\ (Receiving(u)' <=> Receiving(u)) /\ (u # t => fst'[u] = fst[u])
                           /\ fst'[t] = "blocked"
    BY <1>1, <1>2, <2>1 DEF FutexTypes, Receiving
  <2>4. BlockedReceive'
    BY <1>1, <1>2, <1>4, <2>3 DEF BlockedReceive, Receiving
  <2>5. ReceiversQueued'
    BY <1>1, <1>2, <2>1, <2>3 DEF ReceiversQueued
  <2>6. \A b : WakeOwed(b) => WakeOwed(b)'
    BY <1>1, <1>2, <2>1, <2>3 DEF WakeOwed, Running
  <2>7. ReceiversOwed'
    BY <1>1, <1>2, <2>1, <2>3, <2>6 DEF ReceiversOwed
  <2>8. SoleSender'
    BY <1>1, <1>2, <2>1, <2>3 DEF SoleSender, FutexTypes
  <2> QED
    BY <2>2, <2>4, <2>5, <2>7, <2>8 DEF FutexInv
<1> QED
  BY <1>3, <1>4

(* A stopped thread neither sleeps nor takes part in the queues any more;  *)
(* the wake it owes is written off when it leaves.                         *)
LEMMA StopStep ==
  ASSUME FutexInv, NEW t \in Waiters, StopOne(t) \/ Exit(t)
  PROVE  FutexInv'
<1>1. FutexTypes /\ BlockedReceive /\ ReceiversQueued /\ ReceiversOwed /\ SoleSender
  BY DEF FutexInv
<1>2. UNCHANGED <<word, futex, lost, fpc>>
  BY DEF StopOne, Exit
<1>3. PICK st \in {"lost", "stopping", "terminated"} : fst' = [fst EXCEPT ![t] = st]
  BY DEF StopOne, Exit
<1>4. short \subseteq short' /\ short' \subseteq short \cup {fpc[t].addr}
  BY DEF StopOne, Exit
<1>5. FutexTypes'
  BY <1>1, <1>2, <1>3, <1>4 DEF FutexTypes
<1>6. \A u \in Waiters : /\ (Receiving(u)' <=> Receiving(u)) /\ (u # t => fst'[u] = fst[u])
                         /\ fst'[t] = st
  BY <1>1, <1>2, <1>3 DEF FutexTypes, Receiving
<1>7. BlockedReceive'
  BY <1>1, <1>2, <1>6 DEF BlockedReceive
<1>8. ReceiversQueued'
  BY <1>1, <1>2, <1>6 DEF ReceiversQueued
<1>9. \A b : WakeOwed(b) => WakeOwed(b)'
  <2> SUFFICES ASSUME NEW b, WakeOwed(b) PROVE WakeOwed(b)'
    OBVIOUS
  <2>1. CASE b \in short
    BY <1>4, <2>1 DEF WakeOwed
  <2>2. CASE b \notin short
    <3>1. PICK u \in Waiters : Running(u) /\ fpc[u].at = "stored" /\ fpc[u].addr = b
      BY <2>2 DEF WakeOwed
    <3>2. CASE u # t
      BY <1>2, <1>6, <3>1, <3>2 DEF WakeOwed, Running
    <3>3. CASE u = t /\ StopOne(t)
      <4>1. fst[t] = "ready" /\ fst'[t] = "stopping"
        BY <1>1, <3>1, <3>3 DEF StopOne, Running, FutexTypes
      <4> QED
        BY <1>2, <3>1, <3>3, <4>1 DEF WakeOwed, Running
    <3>4. CASE u = t /\ Exit(t)
      BY <3>1, <3>4 DEF WakeOwed, Exit
    <3> QED
      BY <3>2, <3>3, <3>4
  <2> QED
    BY <2>1, <2>2
<1>10. ReceiversOwed'
  BY <1>1, <1>2, <1>6, <1>9 DEF ReceiversOwed
<1>11. SoleSender'
  <2> SUFFICES ASSUME NEW u \in Waiters, fst'[u] \in {"ready", "blocked"}, NEW b \in Addrs,
                      NEW i \in DOMAIN futex[b], futex[b][i] = u
               PROVE  /\ Receiving(u)' /\ fpc'[u].addr = b
                      /\ \A j \in DOMAIN futex[b] : futex[b][j] = u => i = j
    BY <1>2 DEF SoleSender
  <2>1. fst[u] \in {"ready", "blocked"}
    BY <1>2, <1>6
  <2>2. Receiving(u) /\ fpc[u].addr = b /\ \A j \in DOMAIN futex[b] : futex[b][j] = u => i = j
    BY <1>1, <2>1 DEF SoleSender
  <2> QED
    BY <1>2, <1>6, <2>2
<1> QED
  BY <1>5, <1>7, <1>8, <1>10, <1>11 DEF FutexInv

(* wait_thread queues a sender only while the word still holds what its    *)
(* caller saw.                                                             *)
LEMMA RegisterStep ==
  ASSUME FutexInv, NEW t \in Waiters, register_futex_if_match(t)
  PROVE  FutexInv'
<1>1. FutexTypes /\ BlockedReceive /\ ReceiversQueued /\ ReceiversOwed /\ SoleSender
  BY DEF FutexInv
<1>2. PICK a \in Addrs : a = fpc[t].addr
  BY <1>1 DEF FutexTypes
<1>3. fpc[t].at = "loaded" /\ Running(t) /\ UNCHANGED <<word, fst, short>>
  BY Zenon DEF register_futex_if_match
<1>4. PICK to \in {"user", "recv"} : fpc' = [fpc EXCEPT ![t].at = to]
  BY DEF register_futex_if_match, Go
<1>5. fpc \in [Waiters -> [at : {"user", "loaded", "stored", "recv"}, addr : Addrs, exp : Int]]
  BY <1>1 DEF FutexTypes
<1>6. /\ fpc' \in [Waiters -> [at : {"user", "loaded", "stored", "recv"}, addr : Addrs, exp : Int]]
      /\ \A u \in Waiters : u # t => fpc'[u] = fpc[u]
      /\ fpc'[t].at = to /\ fpc'[t].addr = a /\ fpc'[t].exp = fpc[t].exp
  BY <1>2, <1>4, <1>5
<1>7. \A b : WakeOwed(b) => WakeOwed(b)'
  BY <1>3, <1>6 DEF WakeOwed, Running
<1>8. fst[t] \in {"ready", "stopping"}
  BY <1>3 DEF Running
<1>9. fst[t] = "ready" => \A b \in Addrs : \A i \in DOMAIN futex[b] : futex[b][i] # t
  BY <1>1, <1>3 DEF SoleSender, Receiving
<1>10. CASE futex' = futex /\ ((to = "user" /\ lost' = lost) \/ (to = "recv" /\ lost' = [lost EXCEPT ![t] = TRUE]))
  <2>1. FutexTypes'
    BY <1>1, <1>3, <1>6, <1>10, Zenon DEF FutexTypes
  <2>2. ~Receiving(t)' /\ ~Receiving(t)
    BY <1>1, <1>3, <1>6, <1>10 DEF Receiving, FutexTypes
  <2>3. \A u \in Waiters : u # t => (Receiving(u)' <=> Receiving(u))
    BY <1>1, <1>6, <1>10 DEF Receiving, FutexTypes
  <2>4. BlockedReceive'
    BY <1>1, <1>3, <1>8, <2>3 DEF BlockedReceive
  <2>5. ReceiversQueued'
    BY <1>1, <1>6, <1>10, <2>2, <2>3 DEF ReceiversQueued
  <2>6. ReceiversOwed'
    BY <1>1, <1>3, <1>6, <1>7, <2>2, <2>3 DEF ReceiversOwed
  <2>7. SoleSender'
    <3>1. futex' = futex /\ fst' = fst
      BY <1>3, <1>10
    <3> SUFFICES ASSUME NEW u \in Waiters, fst[u] \in {"ready", "blocked"},
                        NEW b \in Addrs, NEW i \in DOMAIN futex[b], futex[b][i] = u
                 PROVE  /\ Receiving(u)' /\ fpc'[u].addr = b
                        /\ \A j \in DOMAIN futex[b] : futex[b][j] = u => i = j
      BY <3>1 DEF SoleSender
    <3>2. u # t
      BY <1>8, <1>9
    <3>3. /\ Receiving(u) /\ fpc[u].addr = b
          /\ \A j \in DOMAIN futex[b] : futex[b][j] = u => i = j
      BY <1>1 DEF SoleSender
    <3> QED
      BY <1>6, <2>3, <3>2, <3>3
  <2> QED
    BY <2>1, <2>4, <2>5, <2>6, <2>7 DEF FutexInv
<1>11. CASE /\ to = "recv" /\ futex' = [futex EXCEPT ![a] = Append(@, t)]
            /\ lost' = [lost EXCEPT ![t] = FALSE] /\ word[a] = fpc[t].exp
  <2>1. futex[a] \in Seq(Waiters) /\ futex \in [Addrs -> Seq(Waiters)]
    BY <1>1 DEF FutexTypes
  <2>2. PICK q : q = Append(futex[a], t)
    BY Zenon
  <2>3. /\ q \in Seq(Waiters) /\ t \in Range(q) /\ Range(futex[a]) \subseteq Range(q)
        /\ \A i \in DOMAIN q : \/ i \in DOMAIN futex[a] /\ q[i] = futex[a][i]
                               \/ i = Len(futex[a]) + 1 /\ q[i] = t
    BY <2>1, <2>2, LongerQueue
  <2>4. futex'[a] = q /\ \A b \in Addrs : b # a => futex'[b] = futex[b]
    BY <1>11, <2>1, <2>2
  <2>5. FutexTypes'
    <3>1. futex' \in [Addrs -> Seq(Waiters)]
      BY <1>11, <2>1, <2>2, <2>3
    <3> QED
      BY <1>1, <1>3, <1>6, <1>11, <3>1, Zenon DEF FutexTypes
  <2>6. Receiving(t)'
    BY <1>1, <1>6, <1>11 DEF Receiving, FutexTypes
  <2>7. \A u \in Waiters : u # t => (Receiving(u)' <=> Receiving(u))
    BY <1>1, <1>6, <1>11 DEF Receiving, FutexTypes
  <2>8. BlockedReceive'
    BY <1>1, <1>3, <1>8, <2>7 DEF BlockedReceive
  <2>9. ReceiversQueued'
    <3> SUFFICES ASSUME NEW u \in Waiters, Receiving(u)' PROVE u \in Range(futex'[fpc'[u].addr])
      BY DEF ReceiversQueued
    <3>1. CASE u = t
      BY <1>6, <2>3, <2>4, <3>1
    <3>2. CASE u # t
      <4>1. u \in Range(futex[fpc[u].addr]) /\ fpc[u].addr \in Addrs /\ fpc'[u] = fpc[u]
        BY <1>1, <1>5, <1>6, <2>7, <3>2 DEF ReceiversQueued
      <4> QED
        BY <2>3, <2>4, <4>1
    <3> QED
      BY <3>1, <3>2
  <2>10. ReceiversOwed'
    BY <1>1, <1>3, <1>6, <1>7, <1>11, <2>7, ZenonT(40) DEF ReceiversOwed
  <2>11. SoleSender'
    <3> SUFFICES ASSUME NEW u \in Waiters, fst[u] \in {"ready", "blocked"}, NEW b \in Addrs,
                        NEW i \in DOMAIN futex'[b], futex'[b][i] = u
                 PROVE  /\ Receiving(u)' /\ fpc'[u].addr = b
                        /\ \A k \in DOMAIN futex'[b] : futex'[b][k] = u => i = k
      BY <1>3 DEF SoleSender
    <3>2. CASE u = t
      <4>1. fst[t] = "ready"
        BY <1>8, <3>2
      <4>2. b = a /\ i = Len(futex[a]) + 1
        BY <1>9, <2>3, <2>4, <3>2, <4>1
      <4>3. \A k \in DOMAIN q : q[k] = t => k = Len(futex[a]) + 1
        BY <1>9, <2>3, <4>1
      <4> QED
        BY <1>6, <2>4, <2>6, <3>2, <4>2, <4>3
    <3>3. CASE u # t
      <4>1. i \in DOMAIN futex[b] /\ futex[b][i] = u
        BY <2>3, <2>4, <3>3
      <4>2. /\ Receiving(u) /\ fpc[u].addr = b
            /\ \A k \in DOMAIN futex[b] : futex[b][k] = u => i = k
        BY <1>1, <4>1 DEF SoleSender
      <4>3. \A k \in DOMAIN futex'[b] : futex'[b][k] = u => k \in DOMAIN futex[b] /\ futex[b][k] = u
        BY <2>3, <2>4, <3>3
      <4> QED
        BY <1>6, <2>7, <3>3, <4>2, <4>3
    <3> QED
      BY <3>2, <3>3, ZenonT(40)
  <2> QED
    BY <2>5, <2>8, <2>9, <2>10, <2>11 DEF FutexInv
<1>12. \/ futex' = futex /\ ((to = "user" /\ lost' = lost) \/ (to = "recv" /\ lost' = [lost EXCEPT ![t] = TRUE]))
       \/ /\ to = "recv" /\ futex' = [futex EXCEPT ![a] = Append(@, t)]
          /\ lost' = [lost EXCEPT ![t] = FALSE] /\ word[a] = fpc[t].exp
  <2>1. CASE a \notin present
    <3>1. fpc' = [fpc EXCEPT ![t].at = "user"] /\ futex' = futex /\ lost' = lost
      BY <1>2, <2>1 DEF register_futex_if_match, Go
    <3>2. to = "user"
      BY <1>5, <1>6, <3>1, ZenonT(30)
    <3> QED
      BY <3>1, <3>2, Zenon
  <2>2. CASE a \in present
    <3>1. /\ fpc' = [fpc EXCEPT ![t].at = "recv"]
          /\ futex' = IF word[a] = fpc[t].exp THEN [futex EXCEPT ![a] = Append(@, t)] ELSE futex
          /\ lost' = [lost EXCEPT ![t] = ~(word[a] = fpc[t].exp)]
      BY <1>2, <2>2 DEF register_futex_if_match, Go
    <3>2. to = "recv"
      BY <1>5, <1>6, <3>1, ZenonT(30)
    <3> QED
      BY <3>1, <3>2, Zenon
  <2> QED
    BY <2>1, <2>2
<1> QED
  BY <1>10, <1>11, <1>12

(* wake_thread takes the oldest senders off the queue: the threads that    *)
(* own them are woken, and the others keep theirs.                         *)
LEMMA WakeStep ==
  ASSUME FutexInv, NEW t \in Waiters, NEW n \in Nat, wake_futex(t, n)
  PROVE  FutexInv'
<1>1. FutexTypes /\ BlockedReceive /\ ReceiversQueued /\ ReceiversOwed /\ SoleSender
  BY DEF FutexInv
<1>2. /\ fpc \in [Waiters -> [at : {"user", "loaded", "stored", "recv"}, addr : Addrs, exp : Int]]
      /\ futex \in [Addrs -> Seq(Waiters)]
      /\ fst \in [Waiters -> {"ready", "stopping", "blocked", "lost", "terminated"}]
      /\ lost \in [Waiters -> BOOLEAN] /\ short \subseteq Addrs
  BY <1>1 DEF FutexTypes
<1>3. PICK a \in Addrs : a = fpc[t].addr
  BY <1>2
<1>4. PICK q \in Seq(Waiters) : q = futex[a]
  BY <1>2
<1>5. PICK k \in Nat : k = IF n < Len(q) THEN n ELSE Len(q)
  BY <1>4
<1>6. k <= Len(q) /\ Len(q) \in Nat /\ DOMAIN q = 1..Len(q)
  BY <1>4, <1>5
<1>7. \A i \in 1..k : i \in DOMAIN q /\ i <= k
  <2>1. \A m, l \in Nat : m <= l => \A i \in 1..m : i \in 1..l /\ i <= m
    OBVIOUS
  <2> QED
    BY <1>6, <2>1, Zenon
<1>8. PICK out : out = {q[i] : i \in 1..k}
  BY Zenon
<1>9. PICK p : p = SubSeq(q, k + 1, Len(q))
  BY Zenon
<1>10. /\ fpc[t].at = "stored" /\ Running(t) /\ word' = word
       /\ futex' = [futex EXCEPT ![a] = p]
       /\ lost' = [u \in Waiters |-> lost[u] \/ u \in out]
       /\ fst' = [u \in Waiters |-> IF u \in out /\ fst[u] = "blocked" THEN "ready" ELSE fst[u]]
       /\ short' = IF n < Len(q) THEN short \cup {a} ELSE short
       /\ fpc' = [fpc EXCEPT ![t].at = "user"]
  BY <1>3, <1>4, <1>5, <1>8, <1>9 DEF wake_futex, Go
<1>11. /\ p \in Seq(Waiters)
       /\ \A i \in DOMAIN p : i + k \in DOMAIN q /\ i + k > k /\ p[i] = q[i + k]
       /\ \A i \in DOMAIN q : i > k => i - k \in DOMAIN p /\ p[i - k] = q[i]
  BY <1>6, <1>9, RestOfQueue, Zenon
<1>12. /\ fpc' \in [Waiters -> [at : {"user", "loaded", "stored", "recv"}, addr : Addrs, exp : Int]]
       /\ \A u \in Waiters : u # t => fpc'[u] = fpc[u]
       /\ fpc'[t].at = "user"
  <2>1. fpc' = [fpc EXCEPT ![t].at = "user"]
    BY <1>10
  <2>2. fpc[t] \in [at : {"user", "loaded", "stored", "recv"}, addr : Addrs, exp : Int]
    BY <1>2
  <2>3. [fpc[t] EXCEPT !.at = "user"] \in [at : {"user", "loaded", "stored", "recv"}, addr : Addrs, exp : Int]
    BY ONLY <2>2
  <2>4. fpc' = [fpc EXCEPT ![t] = [fpc[t] EXCEPT !.at = "user"]]
    BY ONLY <2>1
  <2>5. /\ fpc' \in [Waiters -> [at : {"user", "loaded", "stored", "recv"}, addr : Addrs, exp : Int]]
        /\ \A u \in Waiters : u # t => fpc'[u] = fpc[u]
        /\ fpc'[t] = [fpc[t] EXCEPT !.at = "user"]
    BY ONLY <1>2, <2>3, <2>4, t \in Waiters, Zenon
  <2>6. [fpc[t] EXCEPT !.at = "user"].at = "user"
    BY ONLY <2>2
  <2> QED
    BY ONLY <2>5, <2>6
<1>13. futex'[a] = p /\ \A b \in Addrs : b # a => futex'[b] = futex[b]
  BY <1>2, <1>10
<1>14. \A u \in Waiters : u \notin out /\ u \in Range(q) => u \in Range(p)
  <2> SUFFICES ASSUME NEW u \in Waiters, u \notin out, NEW i \in DOMAIN q, q[i] = u
               PROVE  u \in Range(p)
    BY DEF Range
  <2>1. i > k
    <3>1. i \in 1..k \/ i > k
      BY <1>6
    <3> QED
      BY <1>8, <3>1, Zenon
  <2> QED
    BY <1>11, <2>1 DEF Range
<1>15. k = Len(q) => \A u \in Range(q) : u \in out
  BY <1>6, <1>8 DEF Range
<1>16. FutexTypes'
  <2>1. futex' \in [Addrs -> Seq(Waiters)]
    BY <1>2, <1>10, <1>11
  <2>2. lost' \in [Waiters -> BOOLEAN]
    BY <1>2, <1>10
  <2>3. fst' \in [Waiters -> {"ready", "stopping", "blocked", "lost", "terminated"}]
    BY <1>2, <1>10
  <2>4. short' \subseteq Addrs
    BY <1>2, <1>10
  <2>5. word \in [Addrs -> Int]
    BY <1>1 DEF FutexTypes
  <2> QED
    BY <1>10, <1>12, <2>1, <2>2, <2>3, <2>4, <2>5, Zenon DEF FutexTypes
<1>17. \A u \in Waiters : Receiving(u)' <=> Receiving(u) /\ u \notin out
  <2>1. \A u \in Waiters : lost'[u] = (lost[u] \/ u \in out)
    BY <1>10
  <2>2. fpc[t].at = "stored"
    BY <1>10
  <2> QED
    BY <1>12, <2>1, <2>2, Zenon DEF Receiving
<1>18. \A u \in Waiters : Receiving(u) => fpc'[u] = fpc[u]
  BY <1>10, <1>12 DEF Receiving
<1>19. BlockedReceive'
  BY <1>1, <1>10, <1>17 DEF BlockedReceive
<1>20. ReceiversQueued'
  <2> SUFFICES ASSUME NEW u \in Waiters, Receiving(u), u \notin out
               PROVE  u \in Range(futex'[fpc[u].addr])
    BY <1>17, <1>18 DEF ReceiversQueued
  <2>1. u \in Range(futex[fpc[u].addr]) /\ fpc[u].addr \in Addrs
    BY <1>1, <1>2 DEF ReceiversQueued
  <2> QED
    BY <1>4, <1>13, <1>14, <2>1
<1>21. \A b \in Addrs : b # a /\ WakeOwed(b) => WakeOwed(b)'
  <2> SUFFICES ASSUME NEW b \in Addrs, b # a, WakeOwed(b) PROVE WakeOwed(b)'
    OBVIOUS
  <2>1. CASE b \in short
    BY <1>10, <2>1 DEF WakeOwed
  <2>2. CASE b \notin short
    <3>1. PICK u \in Waiters : Running(u) /\ fpc[u].at = "stored" /\ fpc[u].addr = b
      BY <2>2 DEF WakeOwed
    <3>2. u # t /\ fpc'[u] = fpc[u] /\ fst'[u] = fst[u]
      BY <1>3, <1>10, <1>12, <3>1 DEF Running
    <3> QED
      BY <3>1, <3>2 DEF WakeOwed, Running
  <2> QED
    BY <2>1, <2>2
<1>22. ReceiversOwed'
  <2> SUFFICES ASSUME NEW u \in Waiters, Receiving(u), u \notin out, fpc'[u] = fpc[u]
               PROVE  word[fpc'[u].addr] = fpc'[u].exp \/ WakeOwed(fpc[u].addr)'
    BY <1>10, <1>17, <1>18 DEF ReceiversOwed
  <2>1. PICK b \in Addrs : b = fpc[u].addr
    BY <1>2
  <2>2. (word[b] = fpc[u].exp \/ WakeOwed(b)) /\ u \in Range(futex[b])
    BY <1>1, <2>1 DEF ReceiversOwed, ReceiversQueued
  <2>3. CASE b # a
    BY <1>21, <2>1, <2>2, <2>3, ZenonT(40)
  <2>4. CASE b = a
    <3>1. k # Len(q)
      BY <1>4, <1>15, <2>2, <2>4
    <3>2. a \in short'
      BY <1>5, <1>10, <3>1
    <3> QED
      BY <2>1, <2>4, <3>2 DEF WakeOwed
  <2> QED
    BY <2>3, <2>4
<1>23. SoleSender'
  <2> SUFFICES ASSUME NEW u \in Waiters, fst'[u] \in {"ready", "blocked"}, NEW b \in Addrs,
                      NEW i \in DOMAIN futex'[b], futex'[b][i] = u
               PROVE  /\ Receiving(u)' /\ fpc'[u].addr = b
                      /\ \A j \in DOMAIN futex'[b] : futex'[b][j] = u => i = j
    BY DEF SoleSender
  <2>1. fst[u] \in {"ready", "blocked"}
    BY <1>10
  <2>2. CASE b # a
    <3>1. futex'[b] = futex[b]
      BY <1>13, <2>2
    <3>2. Receiving(u) /\ fpc[u].addr = b /\ \A j \in DOMAIN futex[b] : futex[b][j] = u => i = j
      BY <1>1, <2>1, <3>1 DEF SoleSender
    <3>3. u \notin out
      <4> SUFFICES ASSUME NEW j \in 1..k, q[j] = u PROVE FALSE
        BY <1>8
      <4>1. j \in DOMAIN futex[a] /\ futex[a][j] = u
        BY <1>4, <1>7
      <4>2. fpc[u].addr = a
        BY <1>1, <2>1, <4>1 DEF SoleSender
      <4> QED
        BY <2>2, <3>2, <4>2
    <3> QED
      BY <1>17, <1>18, <3>1, <3>2, <3>3
  <2>3. CASE b = a
    <3>1. i \in DOMAIN p /\ p[i] = u /\ i \in Int
      BY <1>11, <1>13, <2>3
    <3>2. i + k \in DOMAIN q /\ q[i + k] = u /\ i + k > k
      BY <1>11, <3>1
    <3>3. Receiving(u) /\ fpc[u].addr = a /\ \A m \in DOMAIN q : q[m] = u => i + k = m
      BY <1>1, <1>4, <2>1, <3>2 DEF SoleSender
    <3>4. u \notin out
      <4> SUFFICES ASSUME NEW j \in 1..k, q[j] = u PROVE FALSE
        BY <1>8
      <4>1. j \in DOMAIN q /\ j <= k
        BY <1>7
      <4>2. i + k = j
        BY <3>3, <4>1
      <4> QED
        BY <1>5, <3>2, <4>1, <4>2
    <3>5. \A m \in DOMAIN p : p[m] = u => i = m
      <4> SUFFICES ASSUME NEW m \in DOMAIN p, p[m] = u PROVE i = m
        OBVIOUS
      <4>1. m + k \in DOMAIN q /\ q[m + k] = u /\ m \in Int
        BY <1>11
      <4>2. i + k = m + k
        BY <3>3, <4>1
      <4> QED
        BY <1>5, <3>1, <4>1, <4>2
    <3> QED
      BY <1>13, <1>17, <1>18, <2>3, <3>3, <3>4, <3>5
  <2> QED
    BY <2>2, <2>3
<1> QED
  BY <1>16, <1>19, <1>20, <1>22, <1>23 DEF FutexInv

LEMMA FutexInvInductive == futexSpec => []FutexInv
<1>1. futexInit => FutexInv
  <2> SUFFICES ASSUME futexInit PROVE FutexInv
    OBVIOUS
  <2>1. User \in [at : {"user", "loaded", "stored", "recv"}, addr : Addrs, exp : Int] /\ User.at = "user"
    BY FutexAssumption DEF User
  <2>2. FutexTypes
    BY <2>1 DEF futexInit, FutexTypes
  <2>3. \A t \in Waiters : ~Receiving(t) /\ fst[t] = "ready"
    BY <2>1 DEF futexInit, Receiving
  <2>4. \A a \in Addrs : futex[a] = <<>>
    BY DEF futexInit
  <2> QED
    BY <2>2, <2>3, <2>4 DEF FutexInv, BlockedReceive, ReceiversQueued, ReceiversOwed, SoleSender
<1>2. FutexInv /\ [futexNext]_futexVars => FutexInv'
  <2> SUFFICES ASSUME FutexInv, [futexNext]_futexVars PROVE FutexInv'
    OBVIOUS
  <2>1. ASSUME UNCHANGED <<word, futex, fst, fpc, lost, short>> PROVE FutexInv'
    BY <2>1 DEF FutexInv, FutexTypes, BlockedReceive, ReceiversQueued, ReceiversOwed, SoleSender,
                Receiving, WakeOwed, Running
  <2>2. CASE UNCHANGED futexVars
    BY <2>1, <2>2 DEF futexVars
  <2>3. ASSUME NEW a \in Addrs, free_page(a) PROVE FutexInv'
    BY <2>1, <2>3 DEF free_page
  <2>4. ASSUME NEW t \in Waiters, NEW a \in Addrs, Load(t, a) \/ Store(t, a) PROVE FutexInv'
    BY <2>4, LoadStep, StoreStep
  <2>5. ASSUME NEW t \in Waiters, register_futex_if_match(t) PROVE FutexInv'
    BY <2>5, RegisterStep
  <2>6. ASSUME NEW t \in Waiters, Recv(t) PROVE FutexInv'
    BY <2>6, RecvStep
  <2>7. ASSUME NEW t \in Waiters, StopOne(t) \/ Exit(t) PROVE FutexInv'
    BY <2>7, StopStep
  <2>8. ASSUME NEW t \in Waiters, NEW n \in {1, Cardinality(Waiters)}, wake_futex(t, n)
        PROVE  FutexInv'
    <3>1. n \in Nat
      BY FS_CardinalityType, FutexAssumption
    <3> QED
      BY <2>8, <3>1, WakeStep
  <2> QED
    BY <2>2, <2>3, <2>4, <2>5, <2>6, <2>7, <2>8, Zenon DEF futexNext
<1> QED
  BY <1>1, <1>2, PTL DEF futexSpec

(* No wake is missed, however threads interleave, are stopped or lose      *)
(* pages: who sleeps on a word that changed is still owed a wake.          *)
THEOREM NoFutexWakeMissed == futexSpec => []FutexNotMissed
<1>1. FutexInv => FutexNotMissed
  BY ZenonT(40) DEF FutexInv, BlockedReceive, ReceiversOwed, WakeOwed, FutexNotMissed
<1> QED
  BY <1>1, FutexInvInductive, PTL

(* A sleeping thread is queued once, on its address; a sender that is      *)
(* queued belongs to a thread in wait_thread or to one that was stopped.   *)
THEOREM SleepersQueuedOnce == futexSpec => []FutexQueued
<1>1. FutexInv => FutexQueued
  <2> SUFFICES ASSUME FutexInv PROVE FutexQueued
    OBVIOUS
  <2>1. FutexTypes /\ BlockedReceive /\ ReceiversQueued /\ SoleSender
    BY DEF FutexInv
  <2>2. ASSUME NEW t \in Waiters, fst[t] = "blocked"
        PROVE  /\ ~lost[t]
               /\ Cardinality({i \in DOMAIN futex[fpc[t].addr] : futex[fpc[t].addr][i] = t}) = 1
    <3>1. PICK a \in Addrs : a = fpc[t].addr
      BY <2>1 DEF FutexTypes
    <3>2. Receiving(t) /\ t \in Range(futex[a])
      BY <2>1, <2>2, <3>1 DEF BlockedReceive, ReceiversQueued
    <3>3. PICK i \in DOMAIN futex[a] : futex[a][i] = t
      BY <3>2 DEF Range
    <3>4. \A j \in DOMAIN futex[a] : futex[a][j] = t => i = j
      BY <2>1, <2>2, <3>3 DEF SoleSender
    <3>5. {j \in DOMAIN futex[a] : futex[a][j] = t} = {i}
      BY <3>3, <3>4
    <3>6. Cardinality({i}) = 1
      BY FS_Singleton, Zenon
    <3> QED
      BY <3>1, <3>2, <3>5, <3>6, Zenon DEF Receiving
  <2>3. ASSUME NEW a \in Addrs, NEW i \in DOMAIN futex[a]
        PROVE  \/ fpc[futex[a][i]].at = "recv" /\ fpc[futex[a][i]].addr = a /\ ~lost[futex[a][i]]
               \/ fst[futex[a][i]] \in {"stopping", "lost", "terminated"}
    <3>1. PICK t \in Waiters : t = futex[a][i]
      BY <2>1 DEF FutexTypes
    <3>2. fst[t] \in {"ready", "stopping", "blocked", "lost", "terminated"}
      BY <2>1 DEF FutexTypes
    <3>3. fst[t] \in {"ready", "blocked"} => Receiving(t) /\ fpc[t].addr = a
      BY <2>1, <3>1 DEF SoleSender
    <3> QED
      BY <3>1, <3>2, <3>3 DEF Receiving
  <2> QED
    BY <2>2, <2>3 DEF FutexQueued
<1> QED
  BY <1>1, FutexInvInductive, PTL

(* wait_thread and wake_thread: no wake of a futex is missed, and a        *)
(* sleeper is queued exactly once.                                         *)
THEOREM FutexIsSafe == futexSpec => []FutexSafe
BY NoFutexWakeMissed, SleepersQueuedOnce, PTL DEF FutexSafe
==============================================================================
