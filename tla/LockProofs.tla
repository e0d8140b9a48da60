----------------------------- MODULE LockProofs ------------------------------
(*************************************************************************)
(* Proofs about the asynchronous semaphore and the read-write lock over  *)
(* it, for every number of futures and permits.  The lock excludes and   *)
(* keeps the promise of a lock from the semaphore's invariant: every     *)
(* step of the lock is a step of the semaphore or leaves it alone, and   *)
(* with all permits in one guard there is none left for another.         *)
(*************************************************************************)
EXTENDS RwLock, FiniteSetTheorems, TLAPS

(* A leaf names a prover only where the default order, Zenon and then SMT, *)
(* does not find its proof soon.                                           *)
USE ZenonT(5), SMTT(30)

-----------------------------------------------------------------------------
(* The semaphore.                                                         *)
-----------------------------------------------------------------------------

(* Counting permits.  UnitsOf(s) has s[f] members for every future f.      *)
UnitsOf(s) == {u \in Futures \X (1..Total) : u[2] <= s[u[1]]}

Column(f, k) == {f} \X (1..k)

(* The permits out of the semaphore form a finite set.                     *)
LEMMA UnitsFinite ==
  ASSUME NEW s
  PROVE  IsFiniteSet(UnitsOf(s)) /\ Cardinality(UnitsOf(s)) \in Nat
<1>1. IsFiniteSet(1..Total)
  BY FS_Interval, SemaphoreAssumption
<1>2. IsFiniteSet(Futures \X (1..Total))
  BY <1>1, FS_Product, SemaphoreAssumption
<1>3. UnitsOf(s) \subseteq Futures \X (1..Total)
  BY DEF UnitsOf
<1>4. IsFiniteSet(UnitsOf(s))
  BY <1>2, <1>3, FS_Subset
<1> QED
  BY <1>4, FS_CardinalityType

(* A column of k permits has k members.                                    *)
LEMMA ColumnSize ==
  ASSUME NEW f, NEW k \in Nat
  PROVE  IsFiniteSet(Column(f, k)) /\ Cardinality(Column(f, k)) = k
<1>1. IsFiniteSet(1..k) /\ Cardinality(1..k) = k
  BY FS_Interval
<1>2. IsFiniteSet({f}) /\ Cardinality({f}) = 1
  BY FS_Singleton, Zenon
<1>3. IsFiniteSet({f} \X (1..k))
  BY <1>1, <1>2, FS_Product, Zenon
<1>4. Cardinality({f} \X (1..k)) = Cardinality({f}) * Cardinality(1..k)
  BY <1>1, <1>2, FS_Product
<1> QED
  BY <1>1, <1>2, <1>3, <1>4 DEF Column

(* The sizes of two disjoint finite sets add up.                           *)
LEMMA DisjointSizes ==
  ASSUME NEW S, NEW T, IsFiniteSet(S), IsFiniteSet(T), S \cap T = {}
  PROVE  Cardinality(S \cup T) = Cardinality(S) + Cardinality(T)
<1>1. Cardinality(S \cap T) = 0
  BY FS_EmptySet
<1>2. Cardinality(S) \in Nat /\ Cardinality(T) \in Nat
  BY FS_CardinalityType
<1>3. Cardinality(S \cup T)
        = Cardinality(S) + Cardinality(T) - Cardinality(S \cap T)
  BY FS_Union
<1> QED
  BY <1>1, <1>2, <1>3

(* When the share of one future changes, the count changes by as much.     *)
LEMMA UnitsUpdate ==
  ASSUME NEW s \in [Futures -> 0..Total], NEW t \in [Futures -> 0..Total],
         NEW f \in Futures, \A g \in Futures \ {f} : s[g] = t[g]
  PROVE  Cardinality(UnitsOf(t)) = Cardinality(UnitsOf(s)) - s[f] + t[f]
<1> DEFINE Rest == {u \in (Futures \ {f}) \X (1..Total) : u[2] <= s[u[1]]}
<1>0. Total \in Nat
  BY SemaphoreAssumption
<1>1. UnitsOf(s) = Rest \cup Column(f, s[f])
  BY <1>0 DEF UnitsOf, Column
<1>2. UnitsOf(t) = Rest \cup Column(f, t[f])
  BY <1>0 DEF UnitsOf, Column
<1>3. Rest \cap Column(f, s[f]) = {} /\ Rest \cap Column(f, t[f]) = {}
  BY DEF Column
<1>4. IsFiniteSet(Rest)
  <2>1. Rest \subseteq UnitsOf(s)
    BY DEF UnitsOf
  <2> QED
    BY <2>1, UnitsFinite, FS_Subset
<1>5. s[f] \in Nat /\ t[f] \in Nat
  BY <1>0
<1>6. Cardinality(Rest) \in Nat
  BY <1>4, FS_CardinalityType
<1> HIDE DEF Rest
<1>7. Cardinality(UnitsOf(s)) = Cardinality(Rest) + s[f]
  BY <1>1, <1>3, <1>4, <1>5, ColumnSize, DisjointSizes
<1>8. Cardinality(UnitsOf(t)) = Cardinality(Rest) + t[f]
  BY <1>2, <1>3, <1>4, <1>5, ColumnSize, DisjointSizes
<1> QED
  BY <1>5, <1>6, <1>7, <1>8

(* No share exceeds the count of all of them.                              *)
LEMMA ShareWithinUnits ==
  ASSUME NEW s \in [Futures -> 0..Total], NEW f \in Futures
  PROVE  s[f] <= Cardinality(UnitsOf(s))
<1>1. s[f] \in Nat /\ Column(f, s[f]) \subseteq UnitsOf(s)
  BY SemaphoreAssumption DEF Column, UnitsOf
<1> QED
  BY <1>1, ColumnSize, UnitsFinite, FS_Subset

(* Two futures never answer for more than the count together.              *)
LEMMA TwoSharesWithinUnits ==
  ASSUME NEW s \in [Futures -> 0..Total], NEW f \in Futures, NEW g \in Futures,
         f # g
  PROVE  s[f] + s[g] <= Cardinality(UnitsOf(s))
<1>1. s[f] \in Nat /\ s[g] \in Nat
  BY SemaphoreAssumption
<1>2. Column(f, s[f]) \cup Column(g, s[g]) \subseteq UnitsOf(s)
  BY <1>1, SemaphoreAssumption DEF Column, UnitsOf
<1>3. Column(f, s[f]) \cap Column(g, s[g]) = {}
  BY DEF Column
<1>4. Cardinality(Column(f, s[f]) \cup Column(g, s[g])) = s[f] + s[g]
  BY <1>1, <1>3, ColumnSize, DisjointSizes
<1> QED
  BY <1>1, <1>2, <1>4, UnitsFinite, FS_Subset

-----------------------------------------------------------------------------
(* What popping the front waker leaves.                                    *)
LEMMA QueueFacts ==
  ASSUME TypeOK, waiters # <<>>
  PROVE  /\ Head(waiters) \in Futures /\ Head(waiters) = waiters[1]
         /\ Len(waiters) \in Nat /\ Len(waiters) >= 1
         /\ Tail(waiters) \in Seq(Futures)
         /\ Len(Tail(waiters)) = Len(waiters) - 1
         /\ \A i \in 1..Len(Tail(waiters)) : Tail(waiters)[i] = waiters[i + 1]
<1>1. waiters \in Seq(Futures)
  BY DEF TypeOK
<1> QED
  BY <1>1

(* One step of the task of f.                                              *)
Step(f) ==
  \/ OwnStep(f)
  \/ Forget(f)
  \/ \E n \in 1..forgotten : Release(f, n)
  \/ Acquire(f)

(* A grant keeps the types: it never takes more than the pool holds.       *)
LEMMA GrantType ==
  ASSUME TypeOK, CasInv, NEW f \in Futures, ReleaseGrant(f)
  PROVE  TypeOK'
<1>1. waiters # <<>> /\ pool >= need[Head(waiters)]
  BY DEF ReleaseGrant, CasInv
<1>2. PICK w \in Futures : w = Head(waiters)
  BY <1>1, QueueFacts
<1>3. pool' \in Nat
  <2>1. pool \in Nat /\ need[w] \in Nat /\ pool >= need[w]
    BY <1>1, <1>2 DEF TypeOK
  <2>2. pool - need[w] \in Nat
    BY ONLY <2>1
  <2> QED
    BY <1>2, <2>2 DEF ReleaseGrant
<1>4. waiters' \in Seq(Futures)
  BY <1>1, QueueFacts DEF ReleaseGrant
<1>5. /\ status' \in [Futures -> {"none", "WAITING", "ACQUIRED", "GIVEUP"}]
      /\ woken' \in [Futures -> BOOLEAN]
  BY Zenon DEF ReleaseGrant, TypeOK
<1>6. pc' \in [Futures -> PcNames]
  BY DEF ReleaseGrant, Goto, TypeOK, PcNames
<1>7. UNCHANGED <<permits, lock, ret, need, guard, rel, forgotten>>
  BY DEF ReleaseGrant
<1> QED
  BY <1>3, <1>4, <1>5, <1>6, <1>7 DEF TypeOK

(* Types are preserved.                                                    *)
LEMMA TypeStep ==
  ASSUME TypeOK, CasInv, NEW f \in Futures, Step(f)
  PROVE  TypeOK'
<1>0. Requests \subseteq Nat
  BY SemaphoreAssumption
<1>q. waiters # <<>> => Tail(waiters) \in Seq(Futures)
  BY QueueFacts
<1>10. CASE ReleaseGrant(f)
  BY <1>10, GrantType
<1> USE DEF TypeOK, PcNames, queueVars
<1>1. CASE \E n \in Requests : TryAcquire(f, n)
  BY <1>0, <1>1 DEF TryAcquire, Goto
<1>2. CASE \E n \in Requests : PollFails(f, n)
  BY <1>0, <1>2 DEF PollFails, Goto
<1>3. CASE Queue(f)
  BY <1>3 DEF Queue, CallRelease, Goto
<1>4. CASE PollReady(f)
  BY <1>4 DEF PollReady, Goto
<1>5. CASE DropFuture(f)
  BY <1>5 DEF DropFuture, CallRelease, Goto
<1>6. CASE ReleaseLock(f)
  BY <1>6 DEF ReleaseLock, Goto
<1>7. CASE ReleaseSkip(f)
  BY <1>7, <1>q, Zenon DEF ReleaseSkip
<1>8. CASE ReleaseShort(f)
  BY <1>8 DEF ReleaseShort, ReleaseReturn, Goto
<1>9. CASE ReleaseTry(f)
  BY <1>9, Zenon DEF ReleaseTry, Goto
<1>11. CASE ReleaseLost(f)
  BY <1>11 DEF ReleaseLost, ReleaseReturn, Goto
<1>12. CASE ReleaseFlush(f)
  BY <1>12 DEF ReleaseFlush, ReleaseReturn, Goto
<1>13. CASE DropGuard(f)
  BY <1>13 DEF DropGuard, CallRelease, Goto
<1>14. ASSUME NEW n \in 1..guard[f], ReleasePart(f, n)
       PROVE  TypeOK'
  <2>1. n \in Nat /\ guard[f] - n \in Nat
    BY guard[f] \in Nat
  <2>2. guard' \in [Futures -> Nat] /\ rel' \in [Futures -> Nat]
    BY <1>14, <2>1 DEF ReleasePart, CallRelease
  <2> QED
    BY <1>14, <2>2 DEF ReleasePart, CallRelease, Goto
<1>15. CASE Forget(f)
  <2>1. guard' \in [Futures -> Nat] /\ forgotten' \in Nat
    BY <1>15 DEF Forget
  <2> QED
    BY <1>15, <2>1 DEF Forget, Goto
<1>16. ASSUME NEW n \in 1..forgotten, Release(f, n)
       PROVE  TypeOK'
  <2>1. n \in Nat /\ forgotten - n \in Nat
    OBVIOUS
  <2>2. rel' \in [Futures -> Nat] /\ forgotten' \in Nat
    BY <1>16, <2>1 DEF Release, CallRelease
  <2> QED
    BY <1>16, <2>2 DEF Release, CallRelease, Goto
<1>17. CASE Acquire(f)
  BY <1>17 DEF Acquire, Goto
<1> HIDE DEF TypeOK, PcNames, queueVars
<1> QED
  BY <1>1, <1>2, <1>3, <1>4, <1>5, <1>6, <1>7, <1>8, <1>9, <1>10, <1>11, <1>12, <1>13, <1>14, <1>15, <1>16, <1>17 DEF Step, OwnStep, ReleaseStep

(* Returning from release() unlocks and leaves the task what it owns.      *)
LEMMA ReturnTask ==
  ASSUME TypeOK, LockInv, TaskInv, NEW f \in Futures, pc[f] \in {"loop", "cas"},
         ReleaseReturn(f), UNCHANGED <<ret, need, status, guard, rel>>
  PROVE  LockInv' /\ TaskInv'
<1>1. /\ pc'[f] = ret[f] /\ ret[f] \in {"wait", "held", "done"}
      /\ \A g \in Futures \ {f} : pc'[g] = pc[g]
      /\ lock' = NoOne /\ NoOne \notin Futures
  BY SemaphoreAssumption DEF TypeOK, ReleaseReturn, Goto
<1>2. lock = f
  BY DEF LockInv
<1>3. LockInv'
  BY <1>1, <1>2 DEF LockInv
<1>4. TaskInv'
  BY <1>1, ZenonT(30) DEF TaskInv, Releasing
<1> QED
  BY <1>3, <1>4

(* A grant changes the status of a future that waits, and leaves the task  *)
(* that grants it in release().                                            *)
LEMMA GrantTask ==
  ASSUME TypeOK, CasInv, LockInv, TaskInv, NEW f \in Futures, ReleaseGrant(f)
  PROVE  LockInv' /\ TaskInv'
<1>1. PICK w \in Futures : w = Head(waiters)
  BY QueueFacts DEF ReleaseGrant, CasInv
<1>2. /\ pc[f] = "cas" /\ pc'[f] = "loop"
      /\ \A g \in Futures \ {f} : pc'[g] = pc[g]
      /\ lock' = lock
  BY DEF ReleaseGrant, Goto, TypeOK
<1>3. /\ status[w] = "WAITING" /\ status'[w] = "ACQUIRED"
      /\ \A g \in Futures \ {w} : status'[g] = status[g]
  BY <1>1 DEF ReleaseGrant, TypeOK
<1>4. UNCHANGED <<ret, need, guard, rel>>
  BY DEF ReleaseGrant
<1>5. LockInv'
  BY <1>2 DEF LockInv
<1>6. TaskInv'
  <2>1. \A g \in Futures : Releasing(g)' = Releasing(g)
    BY <1>2 DEF Releasing
  <2> QED
    BY <1>2, <1>3, <1>4, <2>1, ZenonT(30) DEF TaskInv, Releasing
<1> QED
  BY <1>5, <1>6

(* The control invariants of a task are preserved. *)
LEMMA LockTaskStep ==
  ASSUME TypeOK, CasInv, LockInv, TaskInv, NEW f \in Futures, Step(f)
  PROVE  LockInv' /\ TaskInv'
<1>0. NoOne \notin Futures
  BY SemaphoreAssumption
<1>8. CASE ReleaseShort(f)
  BY <1>8, ReturnTask DEF ReleaseShort, queueVars
<1>10. CASE ReleaseGrant(f)
  BY <1>10, GrantTask
<1>11. CASE ReleaseLost(f)
  BY <1>11, ReturnTask DEF ReleaseLost, queueVars
<1>12. CASE ReleaseFlush(f)
  BY <1>12, ReturnTask DEF ReleaseFlush, queueVars
<1> USE <1>0 DEF TypeOK, LockInv, TaskInv, PcNames, queueVars, Releasing
<1>1. CASE \E n \in Requests : TryAcquire(f, n)
  BY <1>1 DEF TryAcquire, Goto
<1>2. CASE \E n \in Requests : PollFails(f, n)
  BY <1>2 DEF PollFails, Goto
<1>3. CASE Queue(f)
  <2>1. LockInv'
    BY <1>3 DEF Queue, CallRelease, Goto
  <2>2. TaskInv'
    BY <1>3, ZenonT(30) DEF Queue, CallRelease, Goto
  <2> QED
    BY <2>1, <2>2
<1>4. CASE PollReady(f)
  BY <1>4, ZenonT(30) DEF PollReady, Goto
<1>5. CASE DropFuture(f)
  <2>1. LockInv'
    BY <1>5 DEF DropFuture, CallRelease, Goto
  <2>2. TaskInv'
    BY <1>5, ZenonT(30) DEF DropFuture, CallRelease, Goto
  <2> QED
    BY <2>1, <2>2
<1>6. CASE ReleaseLock(f)
  BY <1>6, ZenonT(30) DEF ReleaseLock, Goto
<1>7. CASE ReleaseSkip(f)
  BY <1>7 DEF ReleaseSkip
<1>9. CASE ReleaseTry(f)
  BY <1>9, ZenonT(30) DEF ReleaseTry, Goto
<1>13. CASE DropGuard(f)
  BY <1>13, ZenonT(30) DEF DropGuard, CallRelease, Goto
<1>14. CASE \E n \in 1..guard[f] : ReleasePart(f, n)
  BY <1>14 DEF ReleasePart, CallRelease, Goto
<1>15. CASE Forget(f)
  BY <1>15, ZenonT(30) DEF Forget, Goto
<1>16. CASE \E n \in 1..forgotten : Release(f, n)
  BY <1>16 DEF Release, CallRelease, Goto
<1>17. CASE Acquire(f)
  BY <1>17, ZenonT(30) DEF Acquire, Goto
<1> HIDE DEF TypeOK, LockInv, TaskInv, PcNames, queueVars, Releasing
<1> QED
  BY <1>1, <1>2, <1>3, <1>4, <1>5, <1>6, <1>7, <1>8, <1>9, <1>10, <1>11, <1>12, <1>13, <1>14, <1>15, <1>16, <1>17 DEF Step, OwnStep, ReleaseStep

-----------------------------------------------------------------------------
(* The queue.                                                              *)

(* A step that touches neither the queue nor a status keeps QueueInv.      *)
LEMMA KeepQueue ==
  ASSUME QueueInv, UNCHANGED <<waiters, status>>
  PROVE  QueueInv'
BY DEF QueueInv

(* So does one that pops the head and changes no other status.             *)
LEMMA PopQueue ==
  ASSUME TypeOK, QueueInv, waiters # <<>>, waiters' = Tail(waiters),
         \A g \in Futures \ {Head(waiters)} : status'[g] = status[g]
  PROVE  QueueInv'
<1>1. /\ Len(waiters) \in Nat /\ Len(waiters') = Len(waiters) - 1
      /\ \A i \in 1..Len(waiters') : waiters'[i] = waiters[i + 1]
      /\ Head(waiters) = waiters[1]
  BY QueueFacts
<1>2. \A i \in 1..Len(waiters) : waiters[i] \in Futures
  BY DEF TypeOK
<1>3. \A i \in 1..Len(waiters') : i + 1 \in 1..Len(waiters) /\ i + 1 # 1
  BY <1>1
<1>4. 1 \in 1..Len(waiters)
  BY QueueFacts
<1>5. \A i \in 1..Len(waiters') : waiters'[i] \in Futures \ {Head(waiters)}
  BY <1>1, <1>2, <1>3, <1>4, ZenonT(30) DEF QueueInv
<1>6. \A i \in 1..Len(waiters') : status'[waiters'[i]] \in {"WAITING", "GIVEUP"}
  BY <1>1, <1>3, <1>5 DEF QueueInv
<1>7. ASSUME NEW i \in 1..Len(waiters'), NEW j \in 1..Len(waiters'),
             waiters'[i] = waiters'[j]
      PROVE  i = j
  <2>1. i + 1 = j + 1
    BY <1>1, <1>3, <1>7 DEF QueueInv
  <2> QED
    BY <1>1, <2>1
<1> QED
  BY <1>6, <1>7 DEF QueueInv

(* Or one that changes the status of a future that is not queued, or gives *)
(* up one that is.                                                         *)
LEMMA MarkQueue ==
  ASSUME TypeOK, QueueInv, UNCHANGED waiters, NEW f \in Futures,
         \A g \in Futures \ {f} : status'[g] = status[g],
         status'[f] = "GIVEUP" \/ \A i \in 1..Len(waiters) : waiters[i] # f
  PROVE  QueueInv'
<1>1. \A i \in 1..Len(waiters) : waiters[i] \in Futures
  BY DEF TypeOK
<1> QED
  BY <1>1 DEF QueueInv

(* Queue entries stay distinct and ungranted.                              *)
LEMMA QueueStep ==
  ASSUME TypeOK, CasInv, TaskInv, QueueInv, NEW f \in Futures, Step(f)
  PROVE  QueueInv'
<1> USE DEF queueVars
<1>0. status \in [Futures -> {"none", "WAITING", "ACQUIRED", "GIVEUP"}]
  BY DEF TypeOK
<1>1. CASE \E n \in Requests : TryAcquire(f, n)
  BY <1>1, KeepQueue DEF TryAcquire
<1>2. CASE \E n \in Requests : PollFails(f, n)
  BY <1>2, KeepQueue DEF PollFails
<1>3. CASE Queue(f)
  <2>0. waiters \in Seq(Futures)
    BY DEF TypeOK
  <2>1. /\ Len(waiters') = Len(waiters) + 1
        /\ \A i \in 1..Len(waiters) : waiters'[i] = waiters[i]
        /\ waiters'[Len(waiters) + 1] = f
        /\ Len(waiters) \in Nat
    BY <1>3, <2>0 DEF Queue
  <2>2. \A i \in 1..Len(waiters) : waiters[i] \in Futures /\ waiters[i] # f
    <3>1. status[f] = "none"
      BY <1>3 DEF Queue, TaskInv
    <3>2. \A i \in 1..Len(waiters) : waiters[i] \in Futures
      BY <2>0
    <3> QED
      BY <3>1, <3>2 DEF QueueInv
  <2>3. status'[f] = "WAITING" /\ \A g \in Futures \ {f} : status'[g] = status[g]
    BY <1>0, <1>3 DEF Queue
  <2>4. \A i \in 1..Len(waiters') :
          i \in 1..Len(waiters) \/ i = Len(waiters) + 1
    BY <2>1
  <2>5. \A i \in 1..Len(waiters') :
          status'[waiters'[i]] \in {"WAITING", "GIVEUP"}
    BY <2>1, <2>2, <2>3, <2>4 DEF QueueInv
  <2>6. \A i, j \in 1..Len(waiters') : waiters'[i] = waiters'[j] => i = j
    BY <2>1, <2>2, <2>4 DEF QueueInv
  <2> QED
    BY <2>5, <2>6 DEF QueueInv
<1>4. CASE PollReady(f)
  BY <1>4, KeepQueue DEF PollReady
<1>5. CASE DropFuture(f)
  BY <1>0, <1>5, MarkQueue DEF DropFuture
<1>6. CASE ReleaseLock(f)
  BY <1>6, KeepQueue DEF ReleaseLock
<1>7. CASE ReleaseSkip(f)
  BY <1>7, PopQueue DEF ReleaseSkip
<1>8. CASE ReleaseShort(f)
  BY <1>8, KeepQueue DEF ReleaseShort
<1>9. CASE ReleaseTry(f)
  BY <1>9, KeepQueue DEF ReleaseTry
<1>10. CASE ReleaseGrant(f)
  BY <1>0, <1>10, PopQueue DEF ReleaseGrant, CasInv
<1>11. CASE ReleaseLost(f)
  BY <1>11, KeepQueue DEF ReleaseLost
<1>12. CASE ReleaseFlush(f)
  BY <1>12, KeepQueue DEF ReleaseFlush
<1>13. CASE DropGuard(f)
  BY <1>13, KeepQueue DEF DropGuard
<1>14. CASE \E n \in 1..guard[f] : ReleasePart(f, n)
  BY <1>14, KeepQueue DEF ReleasePart
<1>15. CASE Forget(f)
  BY <1>15, KeepQueue DEF Forget
<1>16. CASE \E n \in 1..forgotten : Release(f, n)
  BY <1>16, KeepQueue DEF Release
<1>17. CASE Acquire(f)
  BY <1>0, <1>17, MarkQueue DEF Acquire
<1> QED
  BY <1>1, <1>2, <1>3, <1>4, <1>5, <1>6, <1>7, <1>8, <1>9, <1>10, <1>11, <1>12, <1>13, <1>14, <1>15, <1>16, <1>17 DEF Step, OwnStep, ReleaseStep

-----------------------------------------------------------------------------
(* The window between load and compare_exchange.                           *)

(* Nobody is in it when the lock is free or with a future that leaves it.  *)
LEMMA CasLeft ==
  ASSUME TypeOK, LockInv, NEW f \in Futures, lock \in {f, NoOne},
         \A g \in Futures \ {f} : pc'[g] = pc[g], pc'[f] # "cas"
  PROVE  CasInv'
<1>1. \A g \in Futures \ {f} : lock # g
  BY SemaphoreAssumption
<1>2. \A g \in Futures \ {f} : pc[g] # "cas"
  BY <1>1 DEF LockInv
<1>3. \A g \in Futures : pc'[g] # "cas"
  BY <1>2
<1> QED
  BY <1>3 DEF CasInv

(* It is left alone by a future that is not at the head of the queue, or   *)
(* that gives up.                                                          *)
LEMMA CasKept ==
  ASSUME TypeOK, CasInv, NEW f \in Futures, UNCHANGED <<waiters, pool>>,
         \A g \in Futures \ {f} : /\ pc'[g] = pc[g] /\ need'[g] = need[g]
                                  /\ status'[g] = status[g],
         pc'[f] # "cas",
         (\E g \in Futures : pc[g] = "cas") =>
           \/ Head(waiters) # f
           \/ need'[f] = need[f] /\ pc'[f] = "rel"
  PROVE  CasInv'
<1> SUFFICES ASSUME NEW g \in Futures, pc'[g] = "cas"
             PROVE  /\ waiters' # <<>>
                    /\ pool' >= need'[Head(waiters')]
                    /\ status'[Head(waiters')] = "GIVEUP"
                         => pc'[Head(waiters')] = "rel"
  BY DEF CasInv
<1>1. pc[g] = "cas" /\ waiters # <<>> /\ Head(waiters) \in Futures
  BY QueueFacts DEF CasInv
<1> QED
  BY <1>1 DEF CasInv

(* The head of the queue, seen by a future in the window, waits or is      *)
(* about to release.                                                       *)
LEMMA CasHead ==
  ASSUME TypeOK, CasInv, QueueInv, NEW g \in Futures, pc[g] = "cas"
  PROVE  /\ waiters # <<>> /\ Head(waiters) \in Futures
         /\ status[Head(waiters)] = "WAITING" \/ pc[Head(waiters)] = "rel"
<1>1. waiters # <<>>
  BY DEF CasInv
<1>2. Head(waiters) \in Futures /\ Head(waiters) = waiters[1]
      /\ 1 \in 1..Len(waiters)
  BY <1>1, QueueFacts
<1>3. status[Head(waiters)] \in {"WAITING", "GIVEUP"}
  BY <1>2 DEF QueueInv
<1> QED
  BY <1>1, <1>2, <1>3 DEF CasInv

(* The window is preserved by every step.                                  *)
LEMMA CasStep ==
  ASSUME TypeOK, CasInv, LockInv, TaskInv, QueueInv, NEW f \in Futures, Step(f)
  PROVE  CasInv'
<1> USE DEF queueVars, Goto
<1>0. /\ pc \in [Futures -> PcNames] /\ need \in [Futures -> Nat]
      /\ status \in [Futures -> {"none", "WAITING", "ACQUIRED", "GIVEUP"}]
      /\ ret[f] \in {"wait", "held", "done"}
  BY DEF TypeOK
<1>a. ASSUME pc[f] # "rel", status[f] # "WAITING", NEW g \in Futures,
             pc[g] = "cas"
      PROVE  Head(waiters) # f
  BY <1>a, CasHead
<1>1. CASE \E n \in Requests : TryAcquire(f, n)
  <2>1. status[f] # "WAITING" /\ pc[f] # "rel"
    BY <1>1 DEF TryAcquire, TaskInv
  <2> QED
    BY <1>0, <1>1, <1>a, <2>1, CasKept DEF TryAcquire
<1>2. CASE \E n \in Requests : PollFails(f, n)
  <2>1. status[f] # "WAITING" /\ pc[f] # "rel"
    BY <1>2 DEF PollFails, TaskInv
  <2> QED
    BY <1>0, <1>2, <1>a, <2>1, CasKept DEF PollFails
<1>3. CASE Queue(f)
  BY <1>0, <1>3, CasLeft DEF Queue, CallRelease
<1>4. CASE PollReady(f)
  BY <1>0, <1>4, <1>a, CasKept DEF PollReady
<1>5. CASE DropFuture(f)
  BY <1>0, <1>5, CasKept DEF DropFuture, CallRelease
<1>6. CASE ReleaseLock(f)
  BY <1>0, <1>6, CasLeft DEF ReleaseLock
<1>7. CASE ReleaseSkip(f)
  <2>1. lock = f
    BY <1>7 DEF ReleaseSkip, LockInv
  <2> QED
    BY <1>0, <1>7, <2>1, CasLeft DEF ReleaseSkip
<1>8. CASE ReleaseShort(f)
  <2>1. lock = f
    BY <1>8 DEF ReleaseShort, LockInv
  <2> QED
    BY <1>0, <1>8, <2>1, CasLeft DEF ReleaseShort, ReleaseReturn
<1>9. CASE ReleaseTry(f)
  <2>1. lock = f /\ waiters # <<>>
    BY <1>9 DEF ReleaseTry, LockInv
  <2>2. \A g \in Futures \ {f} : pc'[g] # "cas"
    BY <1>0, <1>9, <2>1 DEF ReleaseTry, LockInv
  <2> QED
    BY <1>9, <2>1, <2>2 DEF ReleaseTry, CasInv
<1>10. CASE ReleaseGrant(f)
  <2>1. lock = f
    BY <1>10 DEF ReleaseGrant, LockInv
  <2> QED
    BY <1>0, <1>10, <2>1, CasLeft DEF ReleaseGrant
<1>11. CASE ReleaseLost(f)
  <2>1. lock = f
    BY <1>11 DEF ReleaseLost, LockInv
  <2> QED
    BY <1>0, <1>11, <2>1, CasLeft DEF ReleaseLost, ReleaseReturn
<1>12. CASE ReleaseFlush(f)
  <2>1. lock = f
    BY <1>12 DEF ReleaseFlush, LockInv
  <2> QED
    BY <1>0, <1>12, <2>1, CasLeft DEF ReleaseFlush, ReleaseReturn
<1>13. CASE DropGuard(f)
  BY <1>0, <1>13, CasKept DEF DropGuard, CallRelease
<1>14. CASE \E n \in 1..guard[f] : ReleasePart(f, n)
  BY <1>0, <1>14, CasKept DEF ReleasePart, CallRelease
<1>15. CASE Forget(f)
  <2>1. status[f] # "WAITING" /\ pc[f] # "rel"
    BY <1>15 DEF Forget, TaskInv
  <2> QED
    BY <1>0, <1>15, <1>a, <2>1, CasKept DEF Forget
<1>16. CASE \E n \in 1..forgotten : Release(f, n)
  BY <1>0, <1>16, CasKept DEF Release, CallRelease
<1>17. CASE Acquire(f)
  <2>1. status[f] # "WAITING" /\ pc[f] # "rel"
    BY <1>17 DEF Acquire, TaskInv
  <2> QED
    BY <1>0, <1>17, <1>a, <2>1, CasKept DEF Acquire
<1> QED
  BY <1>1, <1>2, <1>3, <1>4, <1>5, <1>6, <1>7, <1>8, <1>9, <1>10, <1>11, <1>12, <1>13, <1>14, <1>15, <1>16, <1>17 DEF Step, OwnStep, ReleaseStep

-----------------------------------------------------------------------------
(* NoBarging is preserved: permits come back only when nobody waits.       *)
LEMMA BargeStep ==
  ASSUME TypeOK, CasInv, NoBarging, NEW f \in Futures, Step(f)
  PROVE  NoBarging'
<1> USE DEF NoBarging, queueVars
<1>0. permits \in Nat /\ Requests \subseteq Nat \ {0}
  BY SemaphoreAssumption DEF TypeOK
<1>a. ASSUME waiters # <<>>, waiters' = Tail(waiters), permits' = permits
      PROVE  NoBarging'
  BY <1>a
<1>1. CASE \E n \in Requests : TryAcquire(f, n)
  BY <1>0, <1>1 DEF TryAcquire
<1>2. CASE \E n \in Requests : PollFails(f, n)
  BY <1>2 DEF PollFails
<1>3. CASE Queue(f)
  BY <1>3 DEF Queue
<1>4. CASE PollReady(f)
  BY <1>4 DEF PollReady
<1>5. CASE DropFuture(f)
  BY <1>5 DEF DropFuture
<1>6. CASE ReleaseLock(f)
  BY <1>6 DEF ReleaseLock
<1>7. CASE ReleaseSkip(f)
  BY <1>7, <1>a DEF ReleaseSkip
<1>8. CASE ReleaseShort(f)
  BY <1>8 DEF ReleaseShort
<1>9. CASE ReleaseTry(f)
  BY <1>9 DEF ReleaseTry
<1>10. CASE ReleaseGrant(f)
  BY <1>10, <1>a DEF ReleaseGrant, CasInv
<1>11. CASE ReleaseLost(f)
  BY <1>11 DEF ReleaseLost
<1>12. CASE ReleaseFlush(f)
  BY <1>12 DEF ReleaseFlush
<1>13. CASE DropGuard(f)
  BY <1>13 DEF DropGuard
<1>14. CASE \E n \in 1..guard[f] : ReleasePart(f, n)
  BY <1>14 DEF ReleasePart
<1>15. CASE Forget(f)
  BY <1>15 DEF Forget
<1>16. CASE \E n \in 1..forgotten : Release(f, n)
  BY <1>16 DEF Release
<1>17. CASE Acquire(f)
  BY <1>17 DEF Acquire
<1> QED
  BY <1>1, <1>2, <1>3, <1>4, <1>5, <1>6, <1>7, <1>8, <1>9, <1>10, <1>11, <1>12, <1>13, <1>14, <1>15, <1>16, <1>17 DEF Step, OwnStep, ReleaseStep

-----------------------------------------------------------------------------
(* Somebody who is releasing will look at the head of the queue.           *)
LEMMA StallReleasing ==
  ASSUME NEW g \in Futures, pc'[g] \in {"rel", "loop", "cas"}
  PROVE  NoStall'
BY DEF NoStall, Releasing

(* A future that is not waiting may do what it likes outside release().    *)
LEMMA StallKept ==
  ASSUME TypeOK, NoStall, NEW f \in Futures, UNCHANGED <<waiters, pool>>,
         pc[f] \notin {"rel", "loop", "cas"}, status[f] # "WAITING",
         \A g \in Futures \ {f} : /\ pc'[g] = pc[g] /\ need'[g] = need[g]
                                  /\ status'[g] = status[g]
  PROVE  NoStall'
<1> SUFFICES ASSUME \A g \in Futures : ~Releasing(g)', waiters # <<>>
             PROVE  /\ status'[Head(waiters)] = "WAITING"
                    /\ pool < need'[Head(waiters)]
  BY DEF NoStall
<1>1. \A g \in Futures : ~Releasing(g)
  BY DEF Releasing
<1>2. status[Head(waiters)] = "WAITING" /\ pool < need[Head(waiters)]
  BY <1>1 DEF NoStall
<1>3. Head(waiters) \in Futures \ {f}
  BY <1>2, QueueFacts
<1> QED
  BY <1>2, <1>3

(* NoStall is preserved.                                                   *)
LEMMA StallStep ==
  ASSUME TypeOK, CasInv, TaskInv, QueueInv, NoStall, NEW f \in Futures, Step(f)
  PROVE  NoStall'
<1> USE DEF queueVars, Goto
<1>0. /\ pc \in [Futures -> PcNames] /\ need \in [Futures -> Nat]
      /\ status \in [Futures -> {"none", "WAITING", "ACQUIRED", "GIVEUP"}]
  BY DEF TypeOK
<1>1. CASE \E n \in Requests : TryAcquire(f, n)
  <2>1. status[f] # "WAITING"
    BY <1>1 DEF TryAcquire, TaskInv
  <2> QED
    BY <1>0, <1>1, <2>1, StallKept DEF TryAcquire
<1>2. CASE \E n \in Requests : PollFails(f, n)
  <2>1. status[f] # "WAITING"
    BY <1>2 DEF PollFails, TaskInv
  <2> QED
    BY <1>0, <1>2, <2>1, StallKept DEF PollFails
<1>3. CASE Queue(f)
  BY <1>0, <1>3, StallReleasing DEF Queue, CallRelease
<1>4. CASE PollReady(f)
  BY <1>0, <1>4, StallKept DEF PollReady
<1>5. CASE DropFuture(f)
  BY <1>0, <1>5, StallReleasing DEF DropFuture, CallRelease
<1>6. CASE ReleaseLock(f)
  BY <1>0, <1>6, StallReleasing DEF ReleaseLock
<1>7. CASE ReleaseSkip(f)
  BY <1>0, <1>7, StallReleasing DEF ReleaseSkip
<1>8. CASE ReleaseShort(f)
  <2>1. Head(waiters) = waiters[1] /\ 1 \in 1..Len(waiters)
    BY <1>8, QueueFacts DEF ReleaseShort
  <2>2. status[Head(waiters)] = "WAITING"
    BY <1>8, <2>1 DEF ReleaseShort, QueueInv
  <2> QED
    BY <1>8, <2>2 DEF ReleaseShort, NoStall
<1>9. CASE ReleaseTry(f)
  BY <1>0, <1>9, StallReleasing DEF ReleaseTry
<1>10. CASE ReleaseGrant(f)
  BY <1>0, <1>10, StallReleasing DEF ReleaseGrant
<1>11. CASE ReleaseLost(f)
  <2>1. pc[Head(waiters)] = "rel" /\ Head(waiters) \in Futures \ {f}
    BY <1>11, CasHead DEF ReleaseLost
  <2>2. pc'[Head(waiters)] = "rel"
    BY <1>0, <1>11, <2>1 DEF ReleaseLost, ReleaseReturn
  <2> QED
    BY <2>1, <2>2, StallReleasing
<1>12. CASE ReleaseFlush(f)
  BY <1>12 DEF ReleaseFlush, NoStall
<1>13. CASE DropGuard(f)
  BY <1>0, <1>13, StallReleasing DEF DropGuard, CallRelease
<1>14. CASE \E n \in 1..guard[f] : ReleasePart(f, n)
  BY <1>0, <1>14, StallReleasing DEF ReleasePart, CallRelease
<1>15. CASE Forget(f)
  <2>1. status[f] # "WAITING"
    BY <1>15 DEF Forget, TaskInv
  <2> QED
    BY <1>0, <1>15, <2>1, StallKept DEF Forget
<1>16. CASE \E n \in 1..forgotten : Release(f, n)
  BY <1>0, <1>16, StallReleasing DEF Release, CallRelease
<1>17. CASE Acquire(f)
  <2>1. status[f] # "WAITING"
    BY <1>17 DEF Acquire, TaskInv
  <2>2. UNCHANGED <<waiters, pool>> /\ pc[f] \notin {"rel", "loop", "cas"}
    BY <1>17 DEF Acquire
  <2>3. \A g \in Futures \ {f} : /\ pc'[g] = pc[g] /\ need'[g] = need[g]
                                 /\ status'[g] = status[g]
    BY <1>0, <1>17 DEF Acquire
  <2> QED
    BY <2>1, <2>2, <2>3, StallKept
<1> QED
  BY <1>1, <1>2, <1>3, <1>4, <1>5, <1>6, <1>7, <1>8, <1>9, <1>10, <1>11, <1>12, <1>13, <1>14, <1>15, <1>16, <1>17, ZenonT(30) DEF Step, OwnStep, ReleaseStep

-----------------------------------------------------------------------------
Shares == [g \in Futures |-> Share(g)]

Inside == permits + pool + forgotten

(* A share is a natural number.                                            *)
LEMMA ShareType == TypeOK => \A g \in Futures : Share(g) \in Nat
BY DEF TypeOK, Share

(* The sum of three natural numbers is one.                                *)
LEMMA NatSum == \A x, y, z \in Nat : x + y + z \in Nat
OBVIOUS

(* So is the number of permits inside, before and after a step.            *)
LEMMA InsideType ==
  (TypeOK => Inside \in Nat) /\ (TypeOK' => Inside' \in Nat)
<1>1. TypeOK => Inside \in Nat
  BY DEF TypeOK, Inside
<1>2. TypeOK' => Inside' \in Nat
  <2>1. TypeOK' => permits' \in Nat /\ pool' \in Nat /\ forgotten' \in Nat
    BY DEF TypeOK
  <2> QED
    BY <2>1, NatSum DEF Inside
<1> QED
  BY <1>1, <1>2

(* If only g's share changes, and what is inside the semaphore changes by  *)
(* the opposite amount, permits are conserved.                             *)
LEMMA MovePermits ==
  ASSUME TypeOK, TypeOK', Conservation, NEW g \in Futures, NEW d \in Int,
         \A h \in Futures \ {g} : Share(h)' = Share(h),
         Share(g)' = Share(g) + d,
         Inside' = Inside - d
  PROVE  Conservation'
<1>1. Total \in Nat /\ Inside \in Nat /\ Inside' \in Nat
  BY InsideType, SemaphoreAssumption
<1>2. \A h \in Futures : Share(h) \in Nat /\ Share(h)' \in Nat
  <2>1. \A h \in Futures : guard'[h] \in Nat /\ rel'[h] \in Nat /\ need'[h] \in Nat
    BY DEF TypeOK
  <2> QED
    BY <2>1, ShareType DEF Share
<1>3. Shares \in [Futures -> 0..Total]
  BY <1>1, <1>2 DEF Shares, Conservation
<1>4. Units = UnitsOf(Shares) /\ Units' = UnitsOf(Shares')
  BY DEF Units, UnitsOf, Shares
<1>5. Cardinality(Units) \in Nat /\ Inside + Cardinality(Units) = Total
  BY <1>4, UnitsFinite DEF Conservation, Inside, TypeOK
<1>6. Share(g) <= Cardinality(Units)
  BY <1>3, <1>4, ShareWithinUnits DEF Shares
<1>7. Share(g)' <= Total
  BY <1>1, <1>2, <1>5, <1>6
<1>8. \A h \in Futures : Share(h)' <= Total
  BY <1>7 DEF Conservation
<1>9. Shares' \in [Futures -> 0..Total]
  BY <1>1, <1>2, <1>8 DEF Shares
<1>10. \A h \in Futures \ {g} : Shares[h] = Shares'[h]
  BY DEF Shares
<1>11. Cardinality(UnitsOf(Shares')) = Cardinality(UnitsOf(Shares)) - Shares[g] + Shares'[g]
  BY <1>3, <1>9, <1>10, UnitsUpdate
<1>12. Cardinality(Units') = Cardinality(Units) + d
  BY <1>2, <1>4, <1>5, <1>11 DEF Shares
<1>13. Inside' + Cardinality(Units') = Total
  BY <1>1, <1>5, <1>12
<1> QED
  BY <1>8, <1>13 DEF Conservation, Inside

(* The case where nothing crosses the border of the semaphore.             *)
LEMMA KeepPermits ==
  ASSUME TypeOK, TypeOK', Conservation, NEW g \in Futures,
         \A h \in Futures : Share(h)' = Share(h),
         Inside' = Inside
  PROVE  Conservation'
<1>1. Share(g) \in Nat
  BY ShareType
<1>3. Inside \in Int
  BY InsideType
<1>2. Share(g)' = Share(g) + 0 /\ Inside' = Inside - 0
  BY <1>1, <1>3
<1> QED
  BY <1>2, MovePermits

(* The types that counting needs.                                          *)
LEMMA AmountTypes ==
  ASSUME TypeOK
  PROVE  /\ permits \in Nat /\ pool \in Nat /\ forgotten \in Nat
         /\ need \in [Futures -> Nat] /\ guard \in [Futures -> Nat]
         /\ rel \in [Futures -> Nat]
         /\ status \in [Futures -> {"none", "WAITING", "ACQUIRED", "GIVEUP"}]
         /\ Requests \subseteq Nat
<1>1. Requests \subseteq Nat
  BY SemaphoreAssumption
<1> QED
  BY <1>1 DEF TypeOK

(* Conservation is preserved.                                              *)
LEMMA ConservationStep ==
  ASSUME TypeOK, TypeOK', CasInv, TaskInv, Conservation, NEW f \in Futures, Step(f)
  PROVE  Conservation'
<1> USE DEF queueVars
<1>0. /\ permits \in Nat /\ pool \in Nat /\ forgotten \in Nat
      /\ need \in [Futures -> Nat] /\ guard \in [Futures -> Nat]
      /\ rel \in [Futures -> Nat]
      /\ status \in [Futures -> {"none", "WAITING", "ACQUIRED", "GIVEUP"}]
      /\ Requests \subseteq Nat
  BY AmountTypes
<1>t. /\ pc[f] # "rel" => rel[f] = 0
      /\ pc[f] \in {"new", "queue", "wait", "done"} => guard[f] = 0
      /\ pc[f] \in {"new", "queue"} => status[f] = "none"
      /\ pc[f] = "ready" => need[f] = 0
      /\ pc[f] \in {"held", "done"} => status[f] \in {"none", "GIVEUP"}
  BY DEF TaskInv
<1>1. ASSUME NEW n \in Requests, TryAcquire(f, n)
      PROVE  Conservation'
  <2>1. \A h \in Futures \ {f} : Share(h)' = Share(h)
    BY <1>0, <1>t, <1>1 DEF TryAcquire, Goto, Share
  <2>2. Share(f)' = Share(f) + n
    <3>1. /\ guard[f] = 0 /\ rel[f] = 0 /\ status[f] = "none" /\ n \in Nat
          /\ guard'[f] = n /\ rel'[f] = 0 /\ status'[f] = "none"
      BY <1>0, <1>t, <1>1 DEF TryAcquire
    <3>2. Share(f) = 0 + 0 + 0 /\ Share(f)' = n + 0 + 0
      BY <3>1 DEF Share
    <3>3. n \in Nat
      BY <3>1
    <3> QED
      BY ONLY <3>2, <3>3
  <2>3. Inside' = Inside - n
    BY <1>0, <1>t, <1>1 DEF TryAcquire, Goto, Inside
  <2>4. n \in Int
    BY <1>0
  <2> QED
    BY <2>1, <2>2, <2>3, <2>4, MovePermits
<1>2. ASSUME NEW n \in Requests, PollFails(f, n)
      PROVE  Conservation'
  <2>1. \A h \in Futures : Share(h)' = Share(h)
    BY <1>0, <1>t, <1>2 DEF PollFails, Goto, Share
  <2>2. Inside' = Inside
    BY <1>0, <1>t, <1>2 DEF PollFails, Goto, Inside
  <2> QED
    BY <2>1, <2>2, KeepPermits
<1>3. CASE Queue(f)
  <2>1. \A h \in Futures : Share(h)' = Share(h)
    BY <1>0, <1>t, <1>3 DEF Queue, CallRelease, Goto, Share
  <2>2. Inside' = Inside
    BY <1>0, <1>t, <1>3 DEF Queue, CallRelease, Goto, Inside
  <2> QED
    BY <2>1, <2>2, KeepPermits
<1>4. CASE PollReady(f)
  <2>1. \A h \in Futures : Share(h)' = Share(h)
    BY <1>0, <1>t, <1>4 DEF PollReady, Goto, Share
  <2>2. Inside' = Inside
    BY <1>0, <1>t, <1>4 DEF PollReady, Goto, Inside
  <2> QED
    BY <2>1, <2>2, KeepPermits
<1>5. CASE DropFuture(f)
  <2>1. \A h \in Futures : Share(h)' = Share(h)
    <3>1. \A h \in Futures \ {f} : Share(h)' = Share(h)
      BY <1>0, <1>t, <1>5 DEF DropFuture, CallRelease, Goto, Share
    <3>2. /\ guard'[f] = guard[f] /\ rel[f] = 0 /\ status'[f] = "GIVEUP"
          /\ rel'[f] = IF status[f] = "ACQUIRED" THEN need[f] ELSE 0
          /\ guard[f] \in Nat /\ need[f] \in Nat
      BY <1>0, <1>t, <1>5 DEF DropFuture, CallRelease, Goto
    <3>3. PICK x \in Nat : x = IF status[f] = "ACQUIRED" THEN need[f] ELSE 0
      BY <3>2
    <3>4. Share(f) = guard[f] + 0 + x /\ Share(f)' = guard[f] + x + 0
      BY <3>2, <3>3 DEF Share
    <3>5. guard[f] \in Nat
      BY <3>2
    <3>6. Share(f)' = Share(f)
      <4>1. x \in Nat
        OBVIOUS
      <4> QED
        BY ONLY <3>4, <3>5, <4>1
    <3> QED
      BY <3>1, <3>6
  <2>2. Inside' = Inside
    BY <1>0, <1>t, <1>5 DEF DropFuture, CallRelease, Goto, Inside
  <2> QED
    BY <2>1, <2>2, KeepPermits
<1>6. CASE ReleaseLock(f)
  <2>1. \A h \in Futures \ {f} : Share(h)' = Share(h)
    BY <1>0, <1>t, <1>6 DEF ReleaseLock, Goto, Share
  <2>2. Share(f)' = Share(f) + (0 - rel[f])
    <3>1. PICK x \in Nat : x = IF status[f] = "ACQUIRED" THEN need[f] ELSE 0
      BY <1>0
    <3>2. /\ guard'[f] = guard[f] /\ rel'[f] = 0 /\ need'[f] = need[f]
          /\ status'[f] = status[f] /\ guard[f] \in Nat /\ rel[f] \in Nat
      BY <1>0, <1>6 DEF ReleaseLock
    <3>3. Share(f) = guard[f] + rel[f] + x /\ Share(f)' = guard[f] + 0 + x
      BY <3>1, <3>2 DEF Share
    <3>4. guard[f] \in Nat /\ rel[f] \in Nat /\ x \in Nat
      BY <3>2
    <3> QED
      BY ONLY <3>3, <3>4
  <2>3. Inside' = Inside - (0 - rel[f])
    BY <1>0, <1>t, <1>6 DEF ReleaseLock, Goto, Inside
  <2>4. (0 - rel[f]) \in Int
    BY <1>0
  <2> QED
    BY <2>1, <2>2, <2>3, <2>4, MovePermits
<1>7. CASE ReleaseSkip(f)
  <2>1. \A h \in Futures : Share(h)' = Share(h)
    BY <1>0, <1>t, <1>7 DEF ReleaseSkip, Share
  <2>2. Inside' = Inside
    BY <1>0, <1>t, <1>7 DEF ReleaseSkip, Inside
  <2> QED
    BY <2>1, <2>2, KeepPermits
<1>8. CASE ReleaseShort(f)
  <2>1. \A h \in Futures : Share(h)' = Share(h)
    BY <1>0, <1>t, <1>8 DEF ReleaseShort, ReleaseReturn, Goto, Share
  <2>2. Inside' = Inside
    BY <1>0, <1>t, <1>8 DEF ReleaseShort, ReleaseReturn, Goto, Inside
  <2> QED
    BY <2>1, <2>2, KeepPermits
<1>9. CASE ReleaseTry(f)
  <2>1. \A h \in Futures : Share(h)' = Share(h)
    BY <1>0, <1>t, <1>9 DEF ReleaseTry, Goto, Share
  <2>2. Inside' = Inside
    BY <1>0, <1>t, <1>9 DEF ReleaseTry, Goto, Inside
  <2> QED
    BY <2>1, <2>2, KeepPermits
<1>10. CASE ReleaseGrant(f)
  <2>1. PICK w \in Futures : w = Head(waiters)
    BY <1>10, QueueFacts DEF ReleaseGrant, CasInv
  <2>2. \A h \in Futures \ {w} : Share(h)' = Share(h)
    BY <1>0, <1>t, <1>10, <2>1 DEF ReleaseGrant, Share
  <2>3. Share(w)' = Share(w) + need[w]
    <3>1. /\ status[w] = "WAITING" /\ status'[w] = "ACQUIRED"
          /\ guard'[w] = guard[w] /\ rel'[w] = rel[w] /\ need'[w] = need[w]
          /\ guard[w] \in Nat /\ rel[w] \in Nat /\ need[w] \in Nat
      BY <1>0, <1>t, <1>10, <2>1 DEF ReleaseGrant
    <3>2. Share(w) = guard[w] + rel[w] + 0
      BY <3>1 DEF Share
    <3>3. Share(w)' = guard[w] + rel[w] + need[w]
      BY <3>1 DEF Share
    <3>4. guard[w] \in Nat /\ rel[w] \in Nat /\ need[w] \in Nat
      BY <3>1
    <3> QED
      BY ONLY <3>2, <3>3, <3>4
  <2>4. Inside' = Inside - need[w]
    <3>1. /\ permits' = permits /\ forgotten' = forgotten
          /\ pool' = pool - need[w] /\ need[w] \in Nat
          /\ permits \in Nat /\ pool \in Nat /\ forgotten \in Nat
      BY <1>0, <1>t, <1>10, <2>1 DEF ReleaseGrant
    <3>2. /\ permits \in Nat /\ pool \in Nat /\ forgotten \in Nat
          /\ need[w] \in Nat
      BY <3>1
    <3>3. permits + (pool - need[w]) + forgotten
            = (permits + pool + forgotten) - need[w]
      BY ONLY <3>2
    <3> QED
      BY <3>1, <3>3 DEF Inside
  <2>5. need[w] \in Int
    BY <1>0, <2>1
  <2> QED
    BY <2>1, <2>2, <2>3, <2>4, <2>5, MovePermits
<1>11. CASE ReleaseLost(f)
  <2>1. \A h \in Futures : Share(h)' = Share(h)
    BY <1>0, <1>t, <1>11 DEF ReleaseLost, ReleaseReturn, Goto, Share
  <2>2. Inside' = Inside
    BY <1>0, <1>t, <1>11 DEF ReleaseLost, ReleaseReturn, Goto, Inside
  <2> QED
    BY <2>1, <2>2, KeepPermits
<1>12. CASE ReleaseFlush(f)
  <2>1. \A h \in Futures : Share(h)' = Share(h)
    BY <1>0, <1>t, <1>12 DEF ReleaseFlush, ReleaseReturn, Goto, Share
  <2>2. Inside' = Inside
    BY <1>0, <1>t, <1>12 DEF ReleaseFlush, ReleaseReturn, Goto, Inside
  <2> QED
    BY <2>1, <2>2, KeepPermits
<1>13. CASE DropGuard(f)
  <2>1. \A h \in Futures : Share(h)' = Share(h)
    <3>1. \A h \in Futures \ {f} : Share(h)' = Share(h)
      BY <1>0, <1>t, <1>13 DEF DropGuard, CallRelease, Goto, Share
    <3>2. /\ guard'[f] = 0 /\ rel[f] = 0 /\ status'[f] = status[f]
          /\ rel'[f] = guard[f] /\ need'[f] = need[f]
          /\ guard[f] \in Nat /\ need[f] \in Nat
      BY <1>0, <1>t, <1>13 DEF DropGuard, CallRelease, Goto
    <3>3. status[f] # "ACQUIRED"
      BY <1>t, <1>13 DEF DropGuard
    <3>4. Share(f) = guard[f] + 0 + 0
      BY <3>2, <3>3 DEF Share
    <3>5. Share(f)' = 0 + guard[f] + 0
      BY <3>2, <3>3 DEF Share
    <3>6. guard[f] \in Nat
      BY <3>2
    <3>7. Share(f)' = Share(f)
      BY ONLY <3>4, <3>5, <3>6
    <3> QED
      BY <3>1, <3>7
  <2>2. Inside' = Inside
    BY <1>0, <1>t, <1>13 DEF DropGuard, CallRelease, Goto, Inside
  <2> QED
    BY <2>1, <2>2, KeepPermits
<1>14. ASSUME NEW n \in 1..guard[f], ReleasePart(f, n)
      PROVE  Conservation'
  <2>1. \A h \in Futures : Share(h)' = Share(h)
    <3>1. \A h \in Futures \ {f} : Share(h)' = Share(h)
      BY <1>0, <1>t, <1>14 DEF ReleasePart, CallRelease, Goto, Share
    <3>2. /\ guard'[f] = guard[f] - n /\ rel[f] = 0 /\ status'[f] = status[f]
          /\ rel'[f] = n /\ need'[f] = need[f]
          /\ guard[f] \in Nat /\ need[f] \in Nat /\ n \in Nat
      BY <1>0, <1>t, <1>14 DEF ReleasePart, CallRelease, Goto
    <3>3. status[f] # "ACQUIRED"
      BY <1>t, <1>14 DEF ReleasePart
    <3>4. Share(f) = guard[f] + 0 + 0
      BY <3>2, <3>3 DEF Share
    <3>5. Share(f)' = (guard[f] - n) + n + 0
      BY <3>2, <3>3 DEF Share
    <3>6. guard[f] \in Nat /\ n \in Nat
      BY <3>2
    <3>7. Share(f)' = Share(f)
      BY ONLY <3>4, <3>5, <3>6
    <3> QED
      BY <3>1, <3>7
  <2>2. Inside' = Inside
    BY <1>0, <1>t, <1>14 DEF ReleasePart, CallRelease, Goto, Inside
  <2> QED
    BY <2>1, <2>2, KeepPermits
<1>15. CASE Forget(f)
  <2>1. \A h \in Futures \ {f} : Share(h)' = Share(h)
    BY <1>0, <1>t, <1>15 DEF Forget, Goto, Share
  <2>2. Share(f)' = Share(f) + (0 - guard[f])
    <3>1. /\ guard'[f] = 0 /\ rel'[f] = 0 /\ rel[f] = 0 /\ guard[f] \in Nat
          /\ status[f] # "ACQUIRED" /\ status'[f] = status[f]
      BY <1>0, <1>t, <1>15 DEF Forget
    <3>2. Share(f) = guard[f] + 0 + 0 /\ Share(f)' = 0 + 0 + 0
      BY <3>1 DEF Share
    <3>3. guard[f] \in Nat
      BY <3>1
    <3> QED
      BY ONLY <3>2, <3>3
  <2>3. Inside' = Inside - (0 - guard[f])
    BY <1>0, <1>t, <1>15 DEF Forget, Goto, Inside
  <2>4. (0 - guard[f]) \in Int
    BY <1>0
  <2> QED
    BY <2>1, <2>2, <2>3, <2>4, MovePermits
<1>16. ASSUME NEW n \in 1..forgotten, Release(f, n)
      PROVE  Conservation'
  <2>1. \A h \in Futures \ {f} : Share(h)' = Share(h)
    BY <1>0, <1>t, <1>16 DEF Release, CallRelease, Goto, Share
  <2>2. Share(f)' = Share(f) + n
    <3>1. /\ guard'[f] = guard[f] /\ rel[f] = 0 /\ rel'[f] = n
          /\ status[f] = "none" /\ status'[f] = "none"
          /\ guard[f] \in Nat /\ n \in Nat
      BY <1>0, <1>t, <1>16 DEF Release, CallRelease
    <3>2. Share(f) = guard[f] + 0 + 0 /\ Share(f)' = guard[f] + n + 0
      BY <3>1 DEF Share
    <3>3. guard[f] \in Nat /\ n \in Nat
      BY <3>1
    <3> QED
      BY ONLY <3>2, <3>3
  <2>3. Inside' = Inside - n
    BY <1>0, <1>16 DEF Release, Inside
  <2>4. n \in Int
    BY <1>0
  <2> QED
    BY <2>1, <2>2, <2>3, <2>4, MovePermits
<1>17. CASE Acquire(f)
  <2>1. \A h \in Futures : Share(h)' = Share(h)
    BY <1>0, <1>t, <1>17 DEF Acquire, Goto, Share
  <2>2. Inside' = Inside
    BY <1>0, <1>t, <1>17 DEF Acquire, Goto, Inside
  <2> QED
    BY <2>1, <2>2, KeepPermits
<1> QED
  BY <1>1, <1>2, <1>3, <1>4, <1>5, <1>6, <1>7, <1>8, <1>9, <1>10, <1>11, <1>12, <1>13, <1>14, <1>15, <1>16, <1>17, ZenonT(30) DEF Step, OwnStep, ReleaseStep

-----------------------------------------------------------------------------
(* The invariant holds initially: all permits are in the counter.          *)
LEMMA InitIndInv == Init => IndInv
<1> SUFFICES ASSUME Init PROVE IndInv
  OBVIOUS
<1> USE SemaphoreAssumption DEF Init
<1>1. TypeOK /\ LockInv /\ TaskInv /\ QueueInv /\ CasInv /\ NoBarging /\ NoStall
  BY DEF TypeOK, PcNames, LockInv, TaskInv, Releasing, QueueInv, CasInv,
         NoBarging, NoStall
<1>2. \A f \in Futures : Share(f) = 0
  BY DEF Share
<1>3. Units = {}
  BY <1>2 DEF Units
<1>4. Conservation
  BY <1>2, <1>3, FS_EmptySet DEF Conservation
<1> QED
  BY <1>1, <1>4 DEF IndInv

(* Every step preserves it.                                                *)
LEMMA NextIndInv == IndInv /\ [Next]_vars => IndInv'
<1> SUFFICES ASSUME IndInv, [Next]_vars PROVE IndInv'
  OBVIOUS
<1>1. CASE Next
  <2>1. PICK f \in Futures : Step(f)
    BY <1>1 DEF Next, Step
  <2>2. TypeOK'
    BY <2>1, TypeStep DEF IndInv
  <2>3. LockInv' /\ TaskInv'
    BY <2>1, LockTaskStep DEF IndInv
  <2>4. QueueInv'
    BY <2>1, QueueStep DEF IndInv
  <2>5. CasInv'
    BY <2>1, CasStep DEF IndInv
  <2>6. NoBarging'
    BY <2>1, BargeStep DEF IndInv
  <2>7. NoStall'
    BY <2>1, StallStep DEF IndInv
  <2>8. Conservation'
    BY <2>1, <2>2, ConservationStep DEF IndInv
  <2> QED
    BY <2>2, <2>3, <2>4, <2>5, <2>6, <2>7, <2>8 DEF IndInv
<1>2. CASE UNCHANGED vars
  <2> USE <1>2 DEF vars, IndInv
  <2>1. TypeOK'
    BY DEF TypeOK
  <2>2. LockInv' /\ TaskInv'
    BY Zenon DEF LockInv, TaskInv, Releasing
  <2>a. QueueInv'
    BY KeepQueue
  <2>b. CasInv'
    BY DEF CasInv
  <2>3. NoBarging' /\ NoStall'
    BY DEF NoBarging, NoStall, Releasing
  <2>4. \A f : Share(f)' = Share(f)
    BY DEF Share
  <2>5. Units' = Units
    BY <2>4 DEF Units
  <2>6. Conservation'
    BY <2>4, <2>5 DEF Conservation
  <2> QED
    BY <2>1, <2>2, <2>a, <2>b, <2>3, <2>6
<1> QED
  BY <1>1, <1>2

(* The semaphore's inductive invariant holds in every behaviour.           *)
THEOREM SemaphoreInvariant == Spec => []IndInv
BY InitIndInv, NextIndInv, PTL DEF Spec

(* Types are respected: no counter ever goes below zero.                   *)
THEOREM SemaphoreTypes == Spec => []TypeOK
<1>1. IndInv => TypeOK
  BY DEF IndInv
<1> QED
  BY <1>1, SemaphoreInvariant, PTL

(* No permit is lost or created by any interleaving of acquires, releases, *)
(* cancellations and drops.                                                *)
THEOREM PermitsConserved == Spec => []Conservation
<1>1. IndInv => Conservation
  BY DEF IndInv
<1> QED
  BY <1>1, SemaphoreInvariant, PTL

(* While anybody is queued, try_acquire finds nothing to take.             *)
THEOREM QueueNotOvertaken == Spec => []NoBarging
<1>1. IndInv => NoBarging
  BY DEF IndInv
<1> QED
  BY <1>1, SemaphoreInvariant, PTL

(* No wake-up is lost: with no release() under way the first waiter really *)
(* lacks permits.                                                          *)
THEOREM NoLostWakeup == Spec => []NoStall
<1>1. IndInv => NoStall
  BY DEF IndInv
<1> QED
  BY <1>1, SemaphoreInvariant, PTL

-----------------------------------------------------------------------------
(* What FirstInLine says of one step.                                      *)
InLine ==
  \A f \in Futures :
    /\ status[f] = "WAITING" /\ status'[f] = "ACQUIRED" =>
         \A i \in 1..Len(waiters) :
           waiters[i] = f => \A j \in 1..(i-1) : status[waiters[j]] = "GIVEUP"
    /\ pc[f] = "new" /\ pc'[f] = "held" => waiters = <<>>

(* Only release() grants, and only to the head of the queue, which holds   *)
(* every future once; and only a first poll with permits to take gets a    *)
(* guard at once, when NoBarging says nobody waits.                        *)
LEMMA StepInLine == IndInv /\ [Next]_vars => [InLine]_vars
<1> SUFFICES ASSUME IndInv, Next PROVE InLine
  OBVIOUS
<1> USE SemaphoreAssumption
<1>1. PICK g \in Futures : Step(g)
  BY DEF Next, Step
<1>2. TypeOK /\ QueueInv /\ NoBarging /\ TaskInv /\ CasInv
  BY DEF IndInv
<1>3. ASSUME NEW f \in Futures, status[f] = "WAITING", status'[f] = "ACQUIRED"
      PROVE  ReleaseGrant(g) /\ f = Head(waiters)
  <2>1. ReleaseGrant(g)
    BY <1>1, <1>2, <1>3, Zenon DEF Step, OwnStep, ReleaseStep, TypeOK, TryAcquire,
       PollFails, Queue, PollReady, DropFuture, ReleaseLock, ReleaseSkip,
       ReleaseShort, ReleaseTry, ReleaseLost, ReleaseFlush, DropGuard,
       ReleasePart, Forget, Release, Acquire
  <2> QED
    BY <1>2, <1>3, <2>1 DEF ReleaseGrant, TypeOK
<1>4. ASSUME NEW f \in Futures, status[f] = "WAITING", status'[f] = "ACQUIRED",
             NEW i \in 1..Len(waiters), waiters[i] = f,
             NEW j \in 1..(i-1)
      PROVE  FALSE
  <2>1. f = Head(waiters) /\ waiters \in Seq(Futures)
    <3>1. f = Head(waiters)
      BY <1>3, <1>4
    <3>2. waiters \in Seq(Futures)
      BY <1>2 DEF TypeOK
    <3> QED
      BY <3>1, <3>2
  <2>0. Len(waiters) \in Nat
    BY <2>1
  <2>2. 1 \in 1..Len(waiters) /\ Len(waiters) # 0 /\ i # 1
    <3>1. i \in 1..Len(waiters) /\ j \in 1..(i-1)
      OBVIOUS
    <3> QED
      BY ONLY <2>0, <3>1
  <2>3. waiters[1] = f
    BY <2>0, <2>1, <2>2
  <2> QED
    BY <1>2, <1>4, <2>0, <2>2, <2>3, Zenon DEF QueueInv
<1>5. ASSUME NEW f \in Futures, pc[f] = "new", pc'[f] = "held"
      PROVE  permits # 0
  <2>1. PICK n \in Requests : TryAcquire(g, n)
    BY <1>1, <1>2, <1>5, Zenon DEF Step, OwnStep, ReleaseStep, TypeOK, Goto,
       CallRelease, ReleaseReturn,
       PollFails, Queue, PollReady, DropFuture, ReleaseLock, ReleaseSkip,
       ReleaseShort, ReleaseTry, ReleaseGrant, ReleaseLost, ReleaseFlush,
       DropGuard, ReleasePart, Forget, Release, Acquire
  <2> QED
    BY <1>2, <2>1 DEF TryAcquire, TypeOK
<1> QED
  BY <1>2, <1>4, <1>5 DEF InLine, NoBarging

(* Permits are granted in the order of the queue ("strict queue fairness").*)
THEOREM GrantedInOrder == Spec => FirstInLine
<1>1. IndInv /\ [Next]_vars => [InLine]_vars
  BY StepInLine
<1> QED
  BY <1>1, SemaphoreInvariant, PTL DEF Spec, FirstInLine, InLine

(* The semaphore's state is well formed, try_acquire barges past nobody,   *)
(* and no waiter is left in front of enough permits by release().          *)
THEOREM SemaphoreIsSafe == Spec => []SemaphoreSafe
BY SemaphoreTypes, QueueNotOvertaken, NoLostWakeup, PTL DEF SemaphoreSafe

-----------------------------------------------------------------------------
(* The promise of the semaphore.                                          *)
-----------------------------------------------------------------------------

(* A future that waits for permits has asked for some.                     *)
Asking ==
  \A f \in Futures :
    pc[f] \in {"queue", "wait"} \/ (Releasing(f) /\ ret[f] = "wait") => need[f] \in Requests

(* No step of the semaphore makes a waiting future's request empty.        *)
LEMMA NextAsking ==
  ASSUME TypeOK, Asking, [Next]_vars
  PROVE  Asking'
<1>0. /\ pc \in [Futures -> PcNames] /\ ret \in [Futures -> {"wait", "held", "done"}]
      /\ need \in [Futures -> Nat]
  BY DEF TypeOK
<1>1. ASSUME UNCHANGED <<pc, ret, need>>
      PROVE  Asking'
  BY <1>1 DEF Asking, Releasing
<1>2. ASSUME NEW f \in Futures, UNCHANGED <<ret, need>>, Releasing(f), NEW l,
             Goto(f, l), l \in {"rel", "loop", "cas", ret[f]}
      PROVE  Asking'
  BY <1>0, <1>2 DEF Asking, Releasing, Goto
<1>3. ASSUME NEW f \in Futures, UNCHANGED need, NEW n, NEW l,
             CallRelease(f, n, l), l = "wait" => pc[f] = "queue"
      PROVE  Asking'
  BY <1>0, <1>3 DEF Asking, Releasing, CallRelease, Goto
<1>4. ASSUME NEW f \in Futures, UNCHANGED ret, NEW l, NEW n, Goto(f, l),
             need' = need \/ need' = [need EXCEPT ![f] = n],
             l \in {"new", "held", "ready", "done"} \/ (l = "queue" /\ need'[f] \in Requests)
      PROVE  Asking'
  BY <1>0, <1>4 DEF Asking, Releasing, Goto
<1>5. CASE UNCHANGED vars
  BY <1>1, <1>5 DEF vars
<1>6. ASSUME NEW f \in Futures, ReleaseStep(f)
      PROVE  Asking'
  BY <1>1, <1>2, <1>6 DEF ReleaseStep, ReleaseLock, ReleaseSkip, ReleaseShort,
     ReleaseTry, ReleaseGrant, ReleaseLost, ReleaseFlush, ReleaseReturn, Releasing
<1>7. ASSUME NEW f \in Futures,
             \/ Queue(f) \/ DropFuture(f) \/ DropGuard(f)
             \/ \E n \in 1..guard[f] : ReleasePart(f, n)
             \/ \E n \in 1..forgotten : Release(f, n)
      PROVE  Asking'
  BY <1>3, <1>7 DEF Queue, DropFuture, DropGuard, ReleasePart, Release
<1>8. ASSUME NEW f \in Futures,
             \/ \E n \in Requests : TryAcquire(f, n) \/ PollFails(f, n)
             \/ PollReady(f) \/ Forget(f) \/ Acquire(f)
      PROVE  Asking'
  <2>1. ASSUME NEW n \in Requests, PollFails(f, n) PROVE Asking'
    <3>1. need'[f] \in Requests
      BY <1>0, <2>1 DEF PollFails
    <3> QED
      BY <1>4, <2>1, <3>1, Zenon DEF PollFails
  <2> QED
    BY <1>4, <1>8, <2>1 DEF TryAcquire, PollReady, Forget, Acquire
<1> QED
  BY <1>5, <1>6, <1>7, <1>8 DEF Next, OwnStep

-----------------------------------------------------------------------------
(* The line the queue stands for, under the steps that touch it.           *)

(* It stays when neither the queue nor anybody's waiting changes.          *)
LEMMA LineKept ==
  ASSUME UNCHANGED waiters,
         \A f \in Futures : status'[f] = "WAITING" <=> status[f] = "WAITING",
         \A f \in Futures : status[f] = "WAITING" => need'[f] = need[f]
  PROVE  Line' = Line
<1>1. Lined' = Lined
  BY DEF Lined
<1>2. \A f, g : Before(g, f)' <=> Before(g, f)
  BY DEF Before
<1>3. \A f \in Lined : need'[f] = need[f]
  BY DEF Lined
<1> QED
  BY <1>1, <1>2, <1>3 DEF Line

(* It loses f when f leaves and the others keep their order.               *)
LEMMA LineWithout ==
  ASSUME NEW f, Lined' = Lined \ {f},
         \A g, h \in Lined \ {f} : Before(h, g)' <=> Before(h, g),
         \A g \in Lined \ {f} : need'[g] = need[g]
  PROVE  Line' = Fifo!Without(f)
<1>1. DOMAIN Line = Lined /\ \A g \in Lined : Line[g].n = need[g] /\ Line[g].ahead = {h \in Lined : Before(h, g)}
  BY DEF Line
<1>2. Line' = [g \in Lined \ {f} |-> [n |-> need[g], ahead |-> {h \in Lined \ {f} : Before(h, g)}]]
  <2>1. \A g \in Lined \ {f} : {h \in Lined \ {f} : Before(h, g)'} = {h \in Lined \ {f} : Before(h, g)}
    OBVIOUS
  <2> QED
    BY <2>1, Zenon DEF Line
<1>3. \A g \in Lined : Line[g].ahead \ {f} = {h \in Lined \ {f} : Before(h, g)}
  BY <1>1
<1> QED
  BY <1>1, <1>2, <1>3, ZenonT(40) DEF Fifo!Without, Fifo!Waiting

(* The head of the queue has nobody in front; popping it keeps the order   *)
(* of the others.                                                          *)
LEMMA PopLine ==
  ASSUME TypeOK, QueueInv, waiters # <<>>, waiters' = Tail(waiters),
         \A g \in Futures \ {Head(waiters)} : status'[g] = status[g],
         status'[Head(waiters)] # "WAITING"
  PROVE  /\ Lined' = Lined \ {Head(waiters)}
         /\ \A g, h \in Lined \ {Head(waiters)} : Before(h, g)' <=> Before(h, g)
         /\ \A g : ~Before(g, Head(waiters))
<1> DEFINE w == Head(waiters)
<1>1. /\ w \in Futures /\ w = waiters[1] /\ Len(waiters) \in Nat /\ Len(waiters) >= 1
      /\ Len(waiters') = Len(waiters) - 1
      /\ \A i \in 1..Len(waiters') : waiters'[i] = waiters[i + 1]
  BY QueueFacts
<1>2. \A i \in 1..Len(waiters) : waiters[i] = w => i = 1
  BY <1>1 DEF QueueInv
<1> HIDE DEF w
<1>3. \A i \in 1..Len(waiters') : i + 1 \in 1..Len(waiters)
  BY <1>1
<1>4. \A i \in 1..Len(waiters) : waiters[i] # w => i - 1 \in 1..Len(waiters') /\ waiters'[i - 1] = waiters[i]
  BY <1>1
<1>5. Lined' = Lined \ {w}
  <2>1. ASSUME NEW g \in Lined' PROVE g \in Lined \ {w}
    BY <1>1, <1>3, <2>1, ZenonT(30) DEF Lined, w
  <2>2. ASSUME NEW g \in Lined \ {w} PROVE g \in Lined'
    BY <1>4, <2>2, ZenonT(30) DEF Lined, w
  <2> QED
    BY <2>1, <2>2
<1>6. ASSUME NEW g \in Lined \ {w}, NEW h \in Lined \ {w}
      PROVE  Before(h, g)' <=> Before(h, g)
  <2>1. ASSUME Before(h, g)' PROVE Before(h, g)
    <3>1. PICK i \in 1..Len(waiters'), j \in 1..Len(waiters') : i < j /\ waiters'[i] = h /\ waiters'[j] = g
      BY <2>1 DEF Before
    <3>2. i + 1 < j + 1 /\ waiters[i + 1] = h /\ waiters[j + 1] = g
      BY <1>1, <3>1
    <3> QED
      BY <1>3, <3>2 DEF Before
  <2>2. ASSUME Before(h, g) PROVE Before(h, g)'
    <3>1. PICK i \in 1..Len(waiters), j \in 1..Len(waiters) : i < j /\ waiters[i] = h /\ waiters[j] = g
      BY <2>2 DEF Before
    <3>2. /\ i - 1 \in 1..Len(waiters') /\ j - 1 \in 1..Len(waiters') /\ i - 1 < j - 1
          /\ waiters'[i - 1] = h /\ waiters'[j - 1] = g
      BY <1>1, <1>4, <3>1
    <3> QED
      BY <3>2, Zenon DEF Before
  <2> QED
    BY <2>1, <2>2
<1>7. \A g : ~Before(g, w)
  BY <1>1, <1>2 DEF Before
<1> QED
  BY <1>5, <1>6, <1>7 DEF w

(* queue() puts f behind everybody.                                        *)
LEMMA PushLine ==
  ASSUME TypeOK, QueueInv, NEW f \in Futures, status[f] = "none", UNCHANGED need,
         waiters' = Append(waiters, f), status' = [status EXCEPT ![f] = "WAITING"]
  PROVE  /\ f \notin Lined
         /\ Line' = [g \in Lined \cup {f} |-> IF g = f THEN [n |-> need[f], ahead |-> Lined] ELSE Line[g]]
<1>1. /\ waiters \in Seq(Futures) /\ Len(waiters) \in Nat /\ Len(waiters') = Len(waiters) + 1
      /\ \A i \in 1..Len(waiters) : waiters'[i] = waiters[i] /\ waiters[i] # f
      /\ waiters'[Len(waiters) + 1] = f
  <2>1. waiters \in Seq(Futures)
    BY DEF TypeOK
  <2>2. \A i \in 1..Len(waiters) : waiters[i] # f
    BY DEF QueueInv
  <2> QED
    BY <2>1, <2>2
<1>2. \A g \in Futures : status'[g] = IF g = f THEN "WAITING" ELSE status[g]
  BY DEF TypeOK
<1>3. f \notin Lined
  BY DEF Lined
<1>4. Lined' = Lined \cup {f}
  <2>1. ASSUME NEW g \in Futures \ {f}
        PROVE  (\E i \in 1..Len(waiters') : waiters'[i] = g) <=> (\E i \in 1..Len(waiters) : waiters[i] = g)
    BY <1>1
  <2>2. \E i \in 1..Len(waiters') : waiters'[i] = f
    BY <1>1
  <2> QED
    BY <1>2, <2>1, <2>2 DEF Lined
<1>5. ASSUME NEW g \in Lined, NEW h \in Lined
      PROVE  Before(h, g)' <=> Before(h, g)
  <2>1. g # f /\ h # f
    BY <1>3
  <2>2. ASSUME NEW i \in 1..Len(waiters'), waiters'[i] # f
        PROVE  i \in 1..Len(waiters) /\ waiters'[i] = waiters[i]
    BY <1>1, <2>2
  <2>3. 1..Len(waiters) \subseteq 1..Len(waiters')
    BY <1>1
  <2> QED
    BY <1>1, <2>1, <2>2, <2>3 DEF Before
<1>6. \A g \in Lined : Before(g, f)'
  <2>1. ASSUME NEW g \in Lined PROVE Before(g, f)'
    <3>1. PICK i \in 1..Len(waiters) : waiters[i] = g
      BY DEF Lined
    <3>2. i < Len(waiters) + 1 /\ i \in 1..Len(waiters') /\ Len(waiters) + 1 \in 1..Len(waiters')
      BY <1>1
    <3> QED
      BY <1>1, <3>1, <3>2 DEF Before
  <2> QED
    BY <2>1
<1>7. \A g : ~Before(f, g)'
  <2>1. \A i \in 1..Len(waiters') : waiters'[i] = f => i = Len(waiters')
    BY <1>1
  <2> QED
    BY <1>1, <2>1 DEF Before
<1>8. \A g \in Lined' : {h \in Lined' : Before(h, g)'} = IF g = f THEN Lined ELSE {h \in Lined : Before(h, g)}
  BY <1>3, <1>4, <1>5, <1>6, <1>7
<1>9. \A g \in Lined : Line[g] = [n |-> need[g], ahead |-> {h \in Lined : Before(h, g)}]
  BY DEF Line
<1> QED
  BY <1>3, <1>4, <1>8, <1>9, Zenon DEF Line

(* Who answers for what, when it changes for one future.                   *)
LEMMA OwnsOne ==
  ASSUME NEW f \in Futures, NEW n, Share(f)' = n,
         \A g \in Futures \ {f} : Share(g)' = Share(g)
  PROVE  Owns' = [Owns EXCEPT ![f] = n]
BY ZenonT(40) DEF Owns

LEMMA OwnsSame ==
  ASSUME \A g \in Futures : Share(g)' = Share(g)
  PROVE  Owns' = Owns
BY DEF Owns

(* Steps that show nothing: the first poll that fails, the poll that finds *)
(* the grant, drops that hand permits to release(), and what release()     *)
(* does between locking and granting.                                      *)
LEMMA HiddenStep ==
  ASSUME IndInv, NEW f \in Futures,
         \/ \E n \in Requests : PollFails(f, n)
         \/ PollReady(f) \/ (DropFuture(f) /\ status[f] # "WAITING")
         \/ ReleaseShort(f) \/ ReleaseTry(f) \/ ReleaseLost(f) \/ ReleaseFlush(f)
         \/ (ReleaseLock(f) /\ rel[f] = 0)
         \/ DropGuard(f) \/ \E n \in 1..guard[f] : ReleasePart(f, n)
         \/ Acquire(f)
  PROVE  UNCHANGED <<permits + pool, Line, Owns, forgotten>>
<1>1. TypeOK /\ TaskInv
  BY DEF IndInv
<1>2. permits' + pool' = permits + pool /\ forgotten' = forgotten /\ UNCHANGED waiters
  BY <1>1 DEF TypeOK, PollFails, PollReady, DropFuture, ReleaseShort, ReleaseTry, ReleaseLost,
     ReleaseFlush, ReleaseLock, DropGuard, ReleasePart, Acquire, queueVars
<1>3. /\ \A g \in Futures : status'[g] = "WAITING" <=> status[g] = "WAITING"
      /\ \A g \in Futures : status[g] = "WAITING" => need'[g] = need[g]
  <2>1. CASE \E n \in Requests : PollFails(f, n)
    BY <1>1, <2>1 DEF TypeOK, TaskInv, PollFails
  <2>2. CASE PollReady(f) \/ Acquire(f)
    BY <1>1, <2>2 DEF TypeOK, TaskInv, PollReady, Acquire
  <2>3. CASE DropFuture(f) /\ status[f] # "WAITING"
    BY <1>1, <2>3 DEF TypeOK, DropFuture
  <2>4. CASE \/ ReleaseShort(f) \/ ReleaseTry(f) \/ ReleaseLost(f) \/ ReleaseFlush(f)
             \/ ReleaseLock(f) \/ DropGuard(f) \/ \E n \in 1..guard[f] : ReleasePart(f, n)
    BY <2>4, ZenonT(40) DEF ReleaseShort, ReleaseTry, ReleaseLost, ReleaseFlush, ReleaseLock, DropGuard, ReleasePart
  <2> QED
    BY <2>1, <2>2, <2>3, <2>4, ZenonT(40)
<1>4. \A g \in Futures : Share(g)' = Share(g)
  <2>1. CASE \E n \in Requests : PollFails(f, n)
    BY <1>1, <2>1 DEF TypeOK, TaskInv, Share, PollFails
  <2>2. CASE PollReady(f)
    BY <1>1, <2>2 DEF TypeOK, TaskInv, Share, PollReady
  <2>3. CASE DropFuture(f)
    BY <1>1, <2>3 DEF TypeOK, TaskInv, Share, DropFuture, CallRelease
  <2>4. CASE ReleaseShort(f) \/ ReleaseTry(f) \/ ReleaseLost(f) \/ ReleaseFlush(f)
    BY <2>4, ZenonT(40) DEF Share, ReleaseShort, ReleaseTry, ReleaseLost, ReleaseFlush
  <2>5. CASE ReleaseLock(f) /\ rel[f] = 0
    BY <1>1, <2>5 DEF TypeOK, Share, ReleaseLock
  <2>6. CASE DropGuard(f)
    BY <1>1, <2>6 DEF TypeOK, TaskInv, Share, DropGuard, CallRelease
  <2>7. ASSUME NEW n \in 1..guard[f], ReleasePart(f, n)
        PROVE  \A g \in Futures : Share(g)' = Share(g)
    BY <1>1, <2>7 DEF TypeOK, TaskInv, Share, ReleasePart, CallRelease
  <2>8. CASE Acquire(f)
    BY <1>1, <2>8, Zenon DEF TypeOK, TaskInv, Share, Acquire
  <2> QED
    BY <2>1, <2>2, <2>3, <2>4, <2>5, <2>6, <2>7, <2>8, ZenonT(40)
<1> QED
  BY <1>2, <1>3, <1>4, LineKept, OwnsSame, Zenon

(* A first poll takes permits only when nobody waits.                      *)
LEMMA TakeStep ==
  ASSUME IndInv, NEW f \in Futures, NEW n \in Requests, TryAcquire(f, n)
  PROVE  Fifo!Take(f)
<1>1. TypeOK /\ TaskInv /\ NoBarging /\ n \in Nat /\ n > 0
  BY SemaphoreAssumption DEF IndInv
<1>2. /\ permits >= n /\ permits' = permits - n /\ pc[f] = "new"
      /\ guard' = [guard EXCEPT ![f] = n]
      /\ UNCHANGED <<pool, waiters, need, status, rel, forgotten>>
  BY DEF TryAcquire, queueVars
<1>3. waiters = <<>> /\ n \in 1..(permits + pool) /\ (permits + pool)' = (permits + pool) - n
  BY <1>1, <1>2 DEF NoBarging, TypeOK
<1>4. Lined = {} /\ DOMAIN Line = {}
  <2>1. Lined = {}
    BY <1>3 DEF Lined
  <2> QED
    BY <2>1 DEF Line
<1>5. Line' = Line
  BY <1>2, LineKept
<1>6. Share(f)' = Share(f) + n /\ \A g \in Futures \ {f} : Share(g)' = Share(g)
  BY <1>1, <1>2 DEF Share, TaskInv, TypeOK
<1>7. Owns' = [Owns EXCEPT ![f] = Owns[f] + n]
  <2>1. Owns[f] = Share(f)
    BY DEF Owns
  <2> QED
    BY <1>6, <2>1, OwnsOne
<1> QED
  BY <1>2, <1>3, <1>4, <1>5, <1>7, Zenon DEF Fifo!Take, Fifo!Waiting

LEMMA LineUpStep ==
  ASSUME IndInv, Asking, NEW f \in Futures, Queue(f)
  PROVE  Fifo!LineUp(f)
<1>1. TypeOK /\ TaskInv /\ QueueInv
  BY DEF IndInv
<1>2. /\ pc[f] = "queue" /\ pool' = pool + permits /\ permits' = 0
      /\ waiters' = Append(waiters, f) /\ status' = [status EXCEPT ![f] = "WAITING"]
      /\ rel' = [rel EXCEPT ![f] = 0] /\ UNCHANGED <<need, guard, forgotten>>
  BY DEF Queue, CallRelease
<1>3. status[f] = "none" /\ rel[f] = 0 /\ need[f] \in Requests
  BY <1>1, <1>2, ZenonT(40) DEF TaskInv, Asking
<1>4. /\ f \notin Lined
      /\ Line' = [g \in Lined \cup {f} |-> IF g = f THEN [n |-> need[f], ahead |-> Lined] ELSE Line[g]]
  BY <1>1, <1>2, <1>3, PushLine, Zenon
<1>5. permits' + pool' = permits + pool
  BY <1>1, <1>2 DEF TypeOK
<1>6. \A g \in Futures : Share(g)' = Share(g)
  BY <1>1, <1>2, <1>3 DEF Share, TypeOK
<1>7. DOMAIN Line = Lined
  BY DEF Line
<1> QED
  BY <1>2, <1>3, <1>4, <1>5, <1>6, <1>7, OwnsSame, Zenon DEF Fifo!LineUp, Fifo!Waiting

(* A grant serves the oldest request: the head of the queue waits and the  *)
(* pool holds what it asks for.                                            *)
LEMMA ServeStep ==
  ASSUME IndInv, NEW f \in Futures, ReleaseGrant(f)
  PROVE  Fifo!Serve(Head(waiters)) /\ Head(waiters) \in Futures
<1>1. TypeOK /\ TaskInv /\ QueueInv /\ CasInv
  BY DEF IndInv
<1>2. waiters # <<>> /\ pool >= need[Head(waiters)]
  BY <1>1 DEF CasInv, ReleaseGrant
<1>3. PICK w \in Futures : w = Head(waiters)
  BY <1>1, <1>2, QueueFacts
<1>4. /\ pc[f] = "cas" /\ status[w] = "WAITING" /\ status' = [status EXCEPT ![w] = "ACQUIRED"]
      /\ pool' = pool - need[w] /\ waiters' = Tail(waiters)
      /\ UNCHANGED <<permits, need, guard, rel, forgotten>>
  BY <1>3 DEF ReleaseGrant
<1>5. /\ \A g \in Futures \ {w} : status'[g] = status[g]
      /\ status'[w] = "ACQUIRED"
  BY <1>1, <1>4, <1>3 DEF TypeOK
<1>6. /\ Lined' = Lined \ {w}
      /\ \A g, h \in Lined \ {w} : Before(h, g)' <=> Before(h, g)
      /\ \A g : ~Before(g, w)
  BY <1>1, <1>4, <1>2, <1>3, <1>5, PopLine
<1>7. w \in Lined
  <2>1. w = waiters[1] /\ 1 \in 1..Len(waiters)
    BY <1>1, <1>2, <1>3, QueueFacts
  <2> QED
    BY <1>4, <2>1 DEF Lined
<1>8. DOMAIN Line = Lined /\ Line[w].n = need[w] /\ Line[w].ahead = {}
  BY <1>6, <1>7 DEF Line
<1>9. Line' = Fifo!Without(w)
  BY <1>4, <1>6, LineWithout
<1>10. /\ need[w] <= permits + pool
       /\ permits' + pool' = (permits + pool) - need[w]
  BY <1>1, <1>4, <1>2, <1>3 DEF TypeOK
<1>11. Share(w)' = Share(w) + need[w] /\ \A g \in Futures \ {w} : Share(g)' = Share(g)
  <2>1. guard[w] \in Nat /\ rel[w] \in Nat /\ need[w] \in Nat
    BY <1>1, <1>3 DEF TypeOK
  <2>2. Share(w) = guard[w] + rel[w] /\ Share(w)' = guard[w] + rel[w] + need[w]
    BY <1>4, <1>5, <2>1 DEF Share
  <2>3. \A g \in Futures \ {w} : Share(g)' = Share(g)
    BY <1>4, <1>5 DEF Share
  <2> QED
    BY <2>2, <2>3
<1>12. Owns' = [Owns EXCEPT ![w] = Owns[w] + need[w]]
  <2>1. Owns[w] = Share(w)
    BY <1>3 DEF Owns
  <2> QED
    BY <1>3, <1>11, <2>1, OwnsOne
<1>13. Fifo!Serve(w)
  BY <1>4, <1>7, <1>8, <1>9, <1>10, <1>12 DEF Fifo!Serve, Fifo!Waiting
<1> QED
  BY <1>3, <1>13

(* A waiting future that is dropped leaves the line where it stands.       *)
LEMMA LeaveStep ==
  ASSUME IndInv, NEW f \in Futures, DropFuture(f), status[f] = "WAITING"
  PROVE  Fifo!Leave(f) \/ UNCHANGED <<permits + pool, Line, Owns, forgotten>>
<1>1. TypeOK /\ TaskInv
  BY DEF IndInv
<1>2. /\ pc[f] \in {"wait", "ready"} /\ status' = [status EXCEPT ![f] = "GIVEUP"]
      /\ rel' = [rel EXCEPT ![f] = 0]
      /\ UNCHANGED <<permits, pool, waiters, need, guard, forgotten>>
  BY Zenon DEF DropFuture, CallRelease, queueVars
<1>3. rel[f] = 0 /\ \A g \in Futures : status'[g] = IF g = f THEN "GIVEUP" ELSE status[g]
  BY <1>1, <1>2 DEF TaskInv, TypeOK
<1>4. Lined' = Lined \ {f} /\ \A g, h : Before(h, g)' <=> Before(h, g)
  <2>1. Lined' = Lined \ {f}
    BY <1>2, <1>3 DEF Lined
  <2>2. \A g, h : Before(h, g)' <=> Before(h, g)
    BY <1>2 DEF Before
  <2> QED
    BY <2>1, <2>2
<1>5. Line' = Fifo!Without(f)
  BY <1>2, <1>4, LineWithout
<1>6. \A g \in Futures : Share(g)' = Share(g)
  BY <1>1, <1>2, <1>3 DEF Share, TypeOK
<1>7. CASE f \in Lined
  <2>1. DOMAIN Line = Lined
    BY DEF Line
  <2> QED
    BY <1>2, <1>5, <1>6, <1>7, <2>1, OwnsSame DEF Fifo!Leave, Fifo!Waiting
<1>8. CASE f \notin Lined
  <2>1. Lined' = Lined
    BY <1>4, <1>8
  <2>2. Line' = Line
    BY <1>2, <1>4, <2>1 DEF Line
  <2> QED
    BY <1>2, <1>6, <2>2, OwnsSame
<1> QED
  BY <1>7, <1>8

(* release() gives back what it was called with.                           *)
LEMMA GiveBackStep ==
  ASSUME IndInv, NEW f \in Futures, ReleaseLock(f), rel[f] # 0
  PROVE  Fifo!GiveBack(f)
<1>1. TypeOK /\ TaskInv
  BY DEF IndInv
<1>2. /\ pool' = pool + rel[f] /\ rel' = [rel EXCEPT ![f] = 0]
      /\ UNCHANGED <<permits, waiters, need, status, guard, forgotten>>
  BY DEF ReleaseLock
<1>3. Line' = Line
  BY <1>2, LineKept
<1>4. Share(f)' = Share(f) - rel[f] /\ \A g \in Futures \ {f} : Share(g)' = Share(g)
  BY <1>1, <1>2 DEF Share, TypeOK
<1>5. Owns[f] = Share(f) /\ rel[f] \in 1..Share(f) /\ permits' + pool' = (permits + pool) + rel[f]
  BY <1>1, <1>2 DEF Owns, Share, TypeOK
<1>6. Owns' = [Owns EXCEPT ![f] = Owns[f] - rel[f]]
  BY <1>4, <1>5, OwnsOne
<1> QED
  BY <1>2, <1>3, <1>5, <1>6, ZenonT(40) DEF Fifo!GiveBack

(* mem::forget of a guard, and release() of forgotten permits.             *)
LEMMA LostStep ==
  ASSUME IndInv, NEW f \in Futures, Forget(f) \/ \E n \in 1..forgotten : Release(f, n)
  PROVE  Fifo!ForgetOwn(f) \/ Fifo!Recover(f)
<1>1. TypeOK /\ TaskInv
  BY DEF IndInv
<1>2. UNCHANGED <<permits, pool, waiters, need, status>>
  BY DEF Forget, Release, queueVars
<1>3. Line' = Line
  BY <1>2, LineKept
<1>4. Owns[f] = Share(f)
  BY DEF Owns
<1>5. CASE Forget(f)
  <2>1. pc[f] = "held" /\ forgotten' = forgotten + guard[f] /\ guard' = [guard EXCEPT ![f] = 0] /\ UNCHANGED rel
    BY <1>5 DEF Forget
  <2>2. Share(f) = guard[f] /\ Share(f)' = 0 /\ \A g \in Futures \ {f} : Share(g)' = Share(g)
    <3>1. rel[f] = 0 /\ status[f] # "ACQUIRED" /\ guard[f] \in Nat
      BY <1>1, <2>1, Zenon DEF TaskInv, TypeOK
    <3>2. guard'[f] = 0 /\ \A g \in Futures \ {f} : guard'[g] = guard[g]
      BY <1>1, <2>1 DEF TypeOK
    <3> QED
      BY <1>2, <2>1, <3>1, <3>2 DEF Share
  <2>3. Owns' = [Owns EXCEPT ![f] = 0]
    BY <2>2, OwnsOne
  <2> QED
    BY <1>2, <1>3, <1>4, <2>1, <2>2, <2>3 DEF Fifo!ForgetOwn
<1>6. ASSUME NEW n \in 1..forgotten, Release(f, n)
      PROVE  Fifo!Recover(f)
  <2>1. pc[f] = "new" /\ forgotten' = forgotten - n /\ rel' = [rel EXCEPT ![f] = n] /\ UNCHANGED guard
    BY <1>6 DEF Release, CallRelease
  <2>2. Share(f)' = Share(f) + n /\ \A g \in Futures \ {f} : Share(g)' = Share(g)
    <3>1. rel[f] = 0 /\ status[f] # "ACQUIRED" /\ guard[f] \in Nat
      BY <1>1, <2>1 DEF TaskInv, TypeOK
    <3>2. rel'[f] = n /\ \A g \in Futures \ {f} : rel'[g] = rel[g]
      BY <1>1, <2>1 DEF TypeOK
    <3> QED
      BY <1>2, <2>1, <3>1, <3>2 DEF Share
  <2>3. Owns' = [Owns EXCEPT ![f] = Owns[f] + n]
    BY <1>4, <2>2, OwnsOne
  <2> QED
    BY <1>2, <1>3, <2>1, <2>3, Zenon DEF Fifo!Recover
<1> QED
  BY <1>5, <1>6

LEMMA StepKeepsFifo ==
  ASSUME IndInv, Asking, [Next]_vars
  PROVE  [Fifo!Next]_(Fifo!absVars)
<1> DEFINE Hidden == UNCHANGED <<permits + pool, Line, Owns, forgotten>>
<1>1. Hidden => UNCHANGED Fifo!absVars
  BY DEF Fifo!absVars
<1>2. CASE UNCHANGED vars
  <2>1. \A g \in Futures : Share(g)' = Share(g)
    BY <1>2 DEF vars, Share
  <2>2. Line' = Line /\ Owns' = Owns
    BY <1>2, <2>1, LineKept, OwnsSame DEF vars
  <2> QED
    BY <1>1, <1>2, <2>2 DEF vars
<1>3. CASE Next
  <2>1. PICK f \in Futures : Step(f)
    BY <1>3 DEF Next, Step
  <2>2. CASE ReleaseSkip(f)
    <3>1. /\ waiters # <<>> /\ status[Head(waiters)] = "GIVEUP" /\ waiters' = Tail(waiters)
          /\ UNCHANGED <<permits, pool, need, status, guard, rel, forgotten>>
      BY <2>2 DEF ReleaseSkip
    <3>2. /\ Lined' = Lined \ {Head(waiters)}
          /\ \A g, h \in Lined \ {Head(waiters)} : Before(h, g)' <=> Before(h, g)
      BY <3>1, PopLine DEF IndInv
    <3>3. Head(waiters) \notin Lined
      BY <3>1 DEF Lined
    <3>4. Line' = Line
      BY <3>1, <3>2, <3>3, Zenon DEF Line
    <3>5. \A g \in Futures : Share(g)' = Share(g)
      BY <3>1 DEF Share
    <3> QED
      BY <1>1, <3>1, <3>4, <3>5, OwnsSame
  <2>3. CASE DropFuture(f) /\ status[f] = "WAITING"
    BY <1>1, <2>3, LeaveStep DEF Fifo!Next
  <2>4. CASE ReleaseLock(f) /\ rel[f] # 0
    BY <2>4, GiveBackStep DEF Fifo!Next
  <2>5. CASE Queue(f)
    BY <2>5, LineUpStep DEF Fifo!Next
  <2>6. CASE \E n \in Requests : TryAcquire(f, n)
    BY <2>6, TakeStep DEF Fifo!Next
  <2>7. CASE ReleaseGrant(f)
    BY <2>7, ServeStep DEF Fifo!Next
  <2>8. CASE Forget(f) \/ \E n \in 1..forgotten : Release(f, n)
    BY <2>8, LostStep DEF Fifo!Next
  <2>9. \/ ReleaseSkip(f) \/ (DropFuture(f) /\ status[f] = "WAITING") \/ (ReleaseLock(f) /\ rel[f] # 0)
        \/ Queue(f) \/ (\E n \in Requests : TryAcquire(f, n)) \/ ReleaseGrant(f)
        \/ (Forget(f) \/ \E n \in 1..forgotten : Release(f, n))
        \/ Hidden
    <3> HIDE DEF Hidden
    <3>1. \/ \E n \in Requests : PollFails(f, n)
          \/ PollReady(f) \/ (DropFuture(f) /\ status[f] # "WAITING")
          \/ ReleaseShort(f) \/ ReleaseTry(f) \/ ReleaseLost(f) \/ ReleaseFlush(f)
          \/ (ReleaseLock(f) /\ rel[f] = 0)
          \/ DropGuard(f) \/ (\E n \in 1..guard[f] : ReleasePart(f, n))
          \/ Acquire(f)
          => Hidden
      BY HiddenStep, Zenon DEF Hidden
    <3> QED
      BY <2>1, <3>1, Zenon DEF Step, OwnStep, ReleaseStep
  <2> HIDE DEF Hidden
  <2> QED
    BY <1>1, <2>2, <2>3, <2>4, <2>5, <2>6, <2>7, <2>8, <2>9
<1> QED
  BY <1>2, <1>3

(* The semaphore implements the plain counter with one strict FIFO line,   *)
(* for any number of futures and permits, whatever is cancelled, forgotten *)
(* or preempted in the middle of release().                                *)
THEOREM SemaphoreKeepsPromise == Spec => ImplementsFifo
<1>1. Init => Asking /\ Fifo!Init
  <2>1. Init => Asking
    BY DEF Init, Asking, Releasing
  <2>2. ASSUME Init PROVE Line = [f \in {} |-> 0] /\ Owns = [f \in Futures |-> 0] /\ permits + pool = Total
    <3>1. Lined = {}
      BY <2>2 DEF Init, Lined
    <3>2. \A f \in Futures : Share(f) = 0
      BY <2>2 DEF Init, Share
    <3> QED
      BY <2>2, <3>1, <3>2, SemaphoreAssumption DEF Init, Line, Owns
  <2> QED
    BY <2>1, <2>2 DEF Init, Fifo!Init
<1>2. IndInv /\ Asking /\ [Next]_vars => Asking'
  BY NextAsking DEF IndInv
<1>3. IndInv /\ Asking /\ [Next]_vars => [Fifo!Next]_(Fifo!absVars)
  BY StepKeepsFifo
<1> QED
  BY <1>1, <1>2, <1>3, SemaphoreInvariant, PTL DEF Spec, ImplementsFifo, Fifo!Spec

-----------------------------------------------------------------------------
(* The read-write lock.                                                   *)
-----------------------------------------------------------------------------

(* The lock's steps are the semaphore's.                                   *)
LEMMA RwStepIsStep == [RwNext]_rwVars => [Next]_vars
<1> USE RwLockAssumption
<1> SUFFICES ASSUME [RwNext]_rwVars PROVE [Next]_vars
  OBVIOUS
<1>1. CASE UNCHANGED rwVars
  BY <1>1 DEF rwVars
<1>2. ASSUME NEW f \in Futures, NEW n \in {1, Total}, TryLock(f, n)
      PROVE  Next
  BY <1>2 DEF TryLock, Next, OwnStep
<1>3. ASSUME NEW f \in Futures, PollLock(f)
      PROVE  Next
  BY <1>3 DEF PollLock, Next, OwnStep
<1>4. ASSUME NEW f \in Futures, WaitOrUnlock(f)
      PROVE  Next
  BY <1>4 DEF WaitOrUnlock, Next, OwnStep
<1>5. ASSUME NEW f \in Futures, Downgrade(f)
      PROVE  Next
  <2>1. Total - 1 \in 1..guard[f]
    BY <1>5, SemaphoreAssumption DEF Downgrade
  <2> QED
    BY <1>5, <2>1 DEF Downgrade, Next, OwnStep
<1>6. ASSUME NEW f \in Futures, NEW v \in Values, Write(f, v)
      PROVE  UNCHANGED vars
  BY <1>6 DEF Write
<1> QED
  BY <1>1, <1>2, <1>3, <1>4, <1>5, <1>6 DEF RwNext

(* A guard of all permits leaves none for another guard.                   *)
LEMMA FullGuardExcludes == IndInv => Exclusion
<1> SUFFICES ASSUME IndInv, NEW f \in Futures, NEW g \in Futures, f # g,
                    guard[f] = Total
             PROVE  guard[g] = 0
  BY DEF Exclusion
<1> USE SemaphoreAssumption
<1>1. TypeOK /\ Conservation
  BY DEF IndInv
<1>2. Share(f) \in Nat /\ Share(g) \in Nat
  BY <1>1, ShareType
<1>3. Shares \in [Futures -> 0..Total] /\ Units = UnitsOf(Shares)
  <2>1. \A h \in Futures : Share(h) \in 0..Total
    BY <1>1, ShareType DEF Conservation
  <2> QED
    BY <2>1 DEF Shares, Units, UnitsOf
<1>4. Share(f) + Share(g) <= Cardinality(Units)
  BY <1>3, TwoSharesWithinUnits DEF Shares
<1>5. Cardinality(Units) \in Nat
  BY <1>3, UnitsFinite, FS_CardinalityType
<1>6. Cardinality(Units) <= Total
  <2>1. permits \in Nat /\ pool \in Nat /\ forgotten \in Nat
    BY <1>1 DEF TypeOK
  <2> QED
    BY <1>1, <1>5, <2>1 DEF Conservation
<1>7. guard[f] <= Share(f) /\ guard[g] <= Share(g) /\ guard[g] \in Nat
  BY <1>1 DEF TypeOK, Share
<1> QED
  BY <1>2, <1>4, <1>5, <1>6, <1>7

-----------------------------------------------------------------------------
(* The lock's own invariant: what the semaphore guarantees, the types of   *)
(* the data, and that every guard still shows the data.                    *)
RwInv == IndInv /\ RwTypeOK /\ StableUnderGuard

(* No guard exists at first.                                               *)
LEMMA InitRwInv == RwInit => RwInv
<1> SUFFICES ASSUME RwInit PROVE RwInv
  OBVIOUS
<1>1. IndInv
  BY InitIndInv DEF RwInit
<1>2. RwTypeOK
  BY <1>1 DEF IndInv, RwInit, RwTypeOK
<1>3. StableUnderGuard
  BY DEF RwInit, Init, StableUnderGuard
<1> QED
  BY <1>1, <1>2, <1>3 DEF RwInv

(* A guard is created with the data it shows; only the holder of all       *)
(* permits writes, and then no other guard exists.                         *)
LEMMA NextRwInv == RwInv /\ [RwNext]_rwVars => RwInv'
<1> SUFFICES ASSUME RwInv, [RwNext]_rwVars PROVE RwInv'
  OBVIOUS
<1> USE DEF RwInv
<1>1. IndInv'
  BY RwStepIsStep, NextIndInv
<1>2. TypeOK /\ TypeOK'
  BY <1>1 DEF IndInv
<1>3. CASE UNCHANGED rwVars
  <2>1. RwTypeOK'
    BY <1>2, <1>3 DEF rwVars, RwTypeOK
  <2>2. StableUnderGuard'
    BY <1>3 DEF rwVars, vars, StableUnderGuard
  <2> QED
    BY <1>1, <2>1, <2>2
<1>4. ASSUME NEW f \in Futures, NEW n \in {1, Total}, TryLock(f, n)
      PROVE  RwInv'
  <2>1. RwTypeOK'
    BY <1>2, <1>4 DEF TryLock, RwTypeOK
  <2>2. \A g \in Futures : guard'[g] = IF g = f THEN n ELSE guard[g]
    BY <1>2, <1>4 DEF TryLock, TryAcquire, TypeOK
  <2>3. \A g \in Futures : seen'[g] = IF g = f THEN data ELSE seen[g]
    BY <1>4 DEF TryLock, RwTypeOK
  <2>4. StableUnderGuard'
    BY <1>4, <2>2, <2>3 DEF TryLock, StableUnderGuard
  <2> QED
    BY <1>1, <2>1, <2>4
<1>5. ASSUME NEW f \in Futures, PollLock(f)
      PROVE  RwInv'
  <2>1. RwTypeOK'
    BY <1>2, <1>5 DEF PollLock, RwTypeOK
  <2>2. \A g \in Futures \ {f} : guard'[g] = guard[g]
    BY <1>2, <1>5 DEF PollLock, PollReady, TypeOK
  <2>3. \A g \in Futures : seen'[g] = IF g = f THEN data ELSE seen[g]
    BY <1>5 DEF PollLock, RwTypeOK
  <2>4. StableUnderGuard'
    BY <1>5, <2>2, <2>3 DEF PollLock, StableUnderGuard
  <2> QED
    BY <1>1, <2>1, <2>4
<1>6. ASSUME NEW f \in Futures, WaitOrUnlock(f)
      PROVE  RwInv'
  <2>1. RwTypeOK'
    BY <1>2, <1>6 DEF WaitOrUnlock, RwTypeOK
  <2>2. \A g \in Futures : guard'[g] = guard[g] \/ guard'[g] = 0
    BY <1>2, <1>6, ZenonT(40) DEF WaitOrUnlock, PollFails, Queue, DropFuture, ReleaseStep,
         ReleaseLock, ReleaseSkip, ReleaseShort, ReleaseTry, ReleaseGrant,
         ReleaseLost, ReleaseFlush, DropGuard, Acquire, TypeOK
  <2>3. StableUnderGuard'
    BY <1>6, <2>2 DEF WaitOrUnlock, StableUnderGuard
  <2> QED
    BY <1>1, <2>1, <2>3
<1>7. ASSUME NEW f \in Futures, Downgrade(f)
      PROVE  RwInv'
  <2>1. RwTypeOK'
    BY <1>2, <1>7 DEF Downgrade, RwTypeOK
  <2>2. /\ guard[f] > 0
        /\ \A g \in Futures \ {f} : guard'[g] = guard[g]
    BY <1>2, <1>7, RwLockAssumption DEF Downgrade, ReleasePart, TypeOK
  <2>3. StableUnderGuard'
    BY <1>7, <2>2 DEF Downgrade, StableUnderGuard
  <2> QED
    BY <1>1, <2>1, <2>3
<1>8. ASSUME NEW f \in Futures, NEW v \in Values, Write(f, v)
      PROVE  RwInv'
  <2>1. RwTypeOK'
    BY <1>2, <1>8 DEF Write, RwTypeOK
  <2>2. \A g \in Futures \ {f} : guard'[g] = 0
    BY <1>8, FullGuardExcludes DEF Write, vars, Exclusion
  <2>3. seen'[f] = data'
    BY <1>8 DEF Write, RwTypeOK
  <2>4. StableUnderGuard'
    BY <2>2, <2>3 DEF StableUnderGuard
  <2> QED
    BY <1>1, <2>1, <2>4
<1> QED
  BY <1>3, <1>4, <1>5, <1>6, <1>7, <1>8 DEF RwNext

(* Mutual exclusion of Mutex and RwLock, for any number of futures and     *)
(* permits: a guard of all permits is the only guard.                      *)
THEOREM RwLockExclusion == RwSpec => []Exclusion
<1>1. RwInv => Exclusion
  BY FullGuardExcludes DEF RwInv
<1> QED
  BY <1>1, InitRwInv, NextRwInv, PTL DEF RwSpec

(* Readers see a stable value, and a downgraded writer its own.            *)
THEOREM RwLockStable == RwSpec => []StableUnderGuard
<1>1. RwInv => StableUnderGuard
  BY DEF RwInv
<1> QED
  BY <1>1, InitRwInv, NextRwInv, PTL DEF RwSpec

(* RwLock and Mutex: a write guard is alone and no guard sees the data     *)
(* change under it.                                                        *)
THEOREM RwLockIsSafe == RwSpec => []RwLockSafe
<1>1. RwInv => RwLockSafe
  BY FullGuardExcludes DEF RwInv, RwLockSafe
<1> QED
  BY <1>1, InitRwInv, NextRwInv, PTL DEF RwSpec

-----------------------------------------------------------------------------
(* A step that changes at most f's guard changes at most f's mode.         *)
LEMMA ModeOf ==
  ASSUME NEW f \in Futures, NEW n,
         \A g \in Futures : guard'[g] = IF g = f THEN n ELSE guard[g]
  PROVE  Mode' = [Mode EXCEPT ![f] = Kind(n)]
<1>1. \A g \in Futures : Kind(guard'[g]) = IF g = f THEN Kind(n) ELSE Kind(guard[g])
  OBVIOUS
<1> QED
  BY <1>1, Zenon DEF Mode

(* A future that gets a guard of n permits locks: Exclusion of the state   *)
(* it gets into says that the lock was free for it.                        *)
LEMMA GuardLocks ==
  ASSUME NEW f \in Futures, NEW n \in Nat, n > 0, guard[f] = 0, Exclusion',
         \A g \in Futures : guard'[g] = IF g = f THEN n ELSE guard[g],
         seen' = [seen EXCEPT ![f] = data], data' = data
  PROVE  Promise!Step
<1>1. Mode' = [Mode EXCEPT ![f] = Kind(n)]
  BY ModeOf
<1>2. CASE n = Total
  <2>1. \A g \in Futures : guard[g] = 0
    BY <1>2 DEF Exclusion
  <2>2. Kind(n) = "write" /\ \A g \in Futures : Mode[g] = "none"
    BY <1>2, <2>1 DEF Mode, Kind
  <2> QED
    BY <1>1, <2>2, Zenon DEF Promise!Step, Promise!LockWrite
<1>3. CASE n # Total
  <2>1. \A g \in Futures : guard[g] # Total \/ guard[g] = 0
    BY DEF Exclusion
  <2>2. Kind(n) = "read" /\ Mode[f] = "none" /\ \A g \in Futures : Mode[g] # "write"
    BY <1>3, <2>1 DEF Mode, Kind
  <2> QED
    BY <1>1, <2>2, Zenon DEF Promise!Step, Promise!LockRead
<1> QED
  BY <1>2, <1>3

(* Every step of the lock is a step of the promise or changes nothing the  *)
(* promise shows.                                                          *)
LEMMA StepKeepsPromise ==
  RwInv /\ Asking /\ Exclusion' /\ [RwNext]_rwVars => [Promise!Step]_Promise!promiseVars
<1> SUFFICES ASSUME RwInv, Asking, Exclusion', [RwNext]_rwVars
             PROVE  [Promise!Step]_Promise!promiseVars
  OBVIOUS
<1>1. /\ TaskInv /\ guard \in [Futures -> Nat] /\ need \in [Futures -> Nat]
      /\ Total \in Nat /\ Total > 0
  BY SemaphoreAssumption, RwLockAssumption DEF RwInv, IndInv, TypeOK
<1>2. CASE UNCHANGED rwVars
  BY <1>2 DEF rwVars, vars, Promise!promiseVars, Mode
<1>3. ASSUME NEW f \in Futures, NEW n \in {1, Total}, TryLock(f, n)
      PROVE  Promise!Step
  <2>1. n \in Nat /\ n > 0
    BY <1>1
  <2>2. /\ guard[f] = 0
        /\ \A g \in Futures : guard'[g] = IF g = f THEN n ELSE guard[g]
    BY <1>1, <1>3, Zenon DEF TryLock, TryAcquire, TaskInv
  <2> QED
    BY <1>1, <1>3, <2>1, <2>2, GuardLocks, ZenonT(40) DEF TryLock
<1>4. ASSUME NEW f \in Futures, PollLock(f)
      PROVE  Promise!Step
  <2>1. need[f] \in Nat /\ need[f] > 0
    BY <1>1, <1>4, SemaphoreAssumption DEF Asking, PollLock, PollReady
  <2>2. /\ guard[f] = 0
        /\ \A g \in Futures : guard'[g] = IF g = f THEN need[f] ELSE guard[g]
    BY <1>1, <1>4, Zenon DEF PollLock, PollReady, TaskInv
  <2> QED
    BY <1>1, <1>4, <2>1, <2>2, GuardLocks, Zenon DEF PollLock
<1>5. ASSUME NEW f \in Futures, WaitOrUnlock(f)
      PROVE  [Promise!Step]_Promise!promiseVars
  <2>1. CASE guard' = guard
    BY <1>5, <2>1 DEF WaitOrUnlock, Promise!promiseVars, Mode
  <2>2. CASE DropGuard(f) /\ guard[f] # 0
    <3>1. \A g \in Futures : guard'[g] = IF g = f THEN 0 ELSE guard[g]
      BY <1>1, <2>2 DEF DropGuard
    <3>2. Mode' = [Mode EXCEPT ![f] = "none"] /\ Mode[f] # "none"
      BY <2>2, <3>1, ModeOf DEF Mode, Kind
    <3> QED
      BY <1>5, <3>2, Zenon DEF WaitOrUnlock, Promise!Step, Promise!Unlock
  <2>3. CASE DropGuard(f) /\ guard[f] = 0
    <3>1. guard' = guard
      BY <1>1, <2>3 DEF DropGuard
    <3> QED
      BY <2>1, <3>1
  <2>4. DropGuard(f) \/ guard' = guard
    BY <1>5, Zenon DEF WaitOrUnlock, PollFails, Queue, DropFuture, ReleaseStep,
       ReleaseLock, ReleaseSkip, ReleaseShort, ReleaseTry, ReleaseGrant,
       ReleaseLost, ReleaseFlush, Acquire
  <2> QED
    BY <2>1, <2>2, <2>3, <2>4
<1>6. ASSUME NEW f \in Futures, Downgrade(f)
      PROVE  Promise!Step
  <2>1. guard[f] = Total /\ Total > 1
    BY <1>6 DEF Downgrade
  <2>2. \A g \in Futures : guard'[g] = IF g = f THEN 1 ELSE guard[g]
    BY <1>1, <1>6, <2>1 DEF Downgrade, ReleasePart
  <2>3. Kind(1) = "read" /\ Mode[f] = "write"
    BY <1>1, <2>1 DEF Kind, Mode
  <2>4. Mode' = [Mode EXCEPT ![f] = "read"]
    BY <2>2, <2>3, ModeOf
  <2> QED
    BY <1>6, <2>3, <2>4, Zenon DEF Downgrade, Promise!Step, Promise!Downgrade
<1>7. ASSUME NEW f \in Futures, NEW v \in Values, Write(f, v)
      PROVE  Promise!Step
  <2>1. Mode[f] = "write" /\ Mode' = Mode
    BY <1>1, <1>7 DEF Write, vars, Mode, Kind
  <2> QED
    BY <1>7, <2>1, Zenon DEF Write, Promise!Step, Promise!Assign
<1> QED
  BY <1>2, <1>3, <1>4, <1>5, <1>6, <1>7 DEF RwNext

(* RwLock and Mutex implement what their callers rely on, for any number   *)
(* of futures and permits: who holds the lock how, and what each sees, is  *)
(* at every moment what the plain lock of LockPromise allows.              *)
THEOREM RwLockKeepsPromise == RwSpec => ImplementsLock
<1>1. RwInit => RwInv /\ Asking /\ Promise!Start
  <2>1. RwInit => RwInv
    BY InitRwInv
  <2>2. RwInit => Asking
    BY DEF RwInit, Init, Asking, Releasing
  <2>3. RwInit => Promise!Start
    BY DEF RwInit, Init, Promise!Start, Mode, Kind
  <2> QED
    BY <2>1, <2>2, <2>3
<1>2. RwInv /\ Asking /\ [RwNext]_rwVars => RwInv' /\ Asking'
  BY NextRwInv, RwStepIsStep, NextAsking DEF RwInv, IndInv
<1>3. RwInv => Exclusion
  BY FullGuardExcludes DEF RwInv
<1> QED
  BY <1>1, <1>2, <1>3, StepKeepsPromise, PTL DEF RwSpec, ImplementsLock, Promise!Spec
==============================================================================
