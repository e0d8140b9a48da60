---------------------------- MODULE ThreadProofs -----------------------------
(*************************************************************************)
(* Proofs about threads and the programs they run: the scheduler, for    *)
(* any number of threads, and the loader, for every image and page size. *)
(*************************************************************************)
EXTENDS Scheduler, ElfLoad, TLAPS

(* A leaf names a prover only where the default order, Zenon and then SMT, *)
(* does not find its proof soon.                                           *)
USE ZenonT(5), SMTT(30)

-----------------------------------------------------------------------------
(* The scheduler.                                                         *)
-----------------------------------------------------------------------------

(* What is in the queue, in the list of the dead and on the stacks.        *)
LEMMA Types ==
  ASSUME TypeOK
  PROVE  /\ Len(ready) \in Nat /\ \A i \in 1..Len(ready) : ready[i] \in Threads
         /\ Len(terminated) \in Nat
         /\ \A i \in 1..Len(terminated) : terminated[i] \in Threads
         /\ \A u \in All : Len(frames[u]) \in Nat /\ (frames[u] # <<>> <=> Len(frames[u]) > 0)
         /\ \A u \in All : \A i \in 1..Len(frames[u]) :
              frames[u][i] \in Frame /\ frames[u][i].next \in All \cup {None}
         /\ None \notin All /\ Idle \in All /\ Idle \notin Threads /\ Threads \subseteq All
<1>1. \A S : \A q \in Seq(S) : Len(q) \in Nat /\ (q # <<>> <=> Len(q) > 0) /\ \A i \in 1..Len(q) : q[i] \in S
  OBVIOUS
<1>2. ready \in Seq(Threads) /\ terminated \in Seq(Threads) /\ \A u \in All : frames[u] \in Seq(Frame)
  BY DEF TypeOK
<1>3. \A r \in Frame : r.next \in All \cup {None}
  BY DEF Frame
<1>4. None \notin All /\ Idle \in All /\ Idle \notin Threads /\ Threads \subseteq All
  BY SchedulerAssumption DEF All
<1>5. \A u \in All : \A i \in 1..Len(frames[u]) : frames[u][i] \in Frame
  BY <1>1, <1>2, Zenon
<1> QED
  BY <1>1, <1>2, <1>3, <1>4, <1>5, Zenon

(* A sequence with an element more.                                        *)
LEMMA Appended ==
  ASSUME NEW S, NEW q \in Seq(S), NEW x \in S
  PROVE  /\ Append(q, x) \in Seq(S) /\ Len(Append(q, x)) = Len(q) + 1
         /\ \A i \in 1..Len(q) : Append(q, x)[i] = q[i]
         /\ Append(q, x)[Len(q) + 1] = x
OBVIOUS

(* The first elements of a sequence.                                       *)
LEMMA Shortened ==
  ASSUME NEW S, NEW q \in Seq(S), NEW m \in 0..Len(q)
  PROVE  /\ SubSeq(q, 1, m) \in Seq(S) /\ Len(SubSeq(q, 1, m)) = m
         /\ \A i \in 1..m : SubSeq(q, 1, m)[i] = q[i]
OBVIOUS

(* A thread that a yield holds waits for the CPU and is claimed nowhere    *)
(* else.                                                                   *)
LEMMA HeldOnce ==
  ASSUME QueueInv, NEW u \in All, NEW i \in 1..Len(frames[u]), NEW x \in Threads, frames[u][i].next = x
  PROVE  /\ status[x] \in {"Ready", "Terminating"} /\ x # current
         /\ \A j \in 1..Len(ready) : ready[j] # x
         /\ \A v \in All : \A j \in 1..Len(frames[v]) : frames[v][j].next = x => u = v /\ i = j
<1>1. frames[u][i].next \in Threads
  OBVIOUS
<1>2. /\ status[frames[u][i].next] \in {"Ready", "Terminating"}
      /\ frames[u][i].next # current
      /\ \A j \in 1..Len(ready) : ready[j] # frames[u][i].next
      /\ \A v \in All : \A j \in 1..Len(frames[v]) :
           frames[u][i].next = frames[v][j].next => u = v /\ i = j
  BY <1>1 DEF QueueInv
<1> QED
  BY <1>2

(* The stacks after a yield was pushed on one.                             *)
LEMMA Pushed ==
  ASSUME TypeOK, NEW t \in All, NEW r \in Frame,
         frames' = [frames EXCEPT ![t] = Append(@, r)]
  PROVE  /\ frames' \in [All -> Seq(Frame)]
         /\ \A u \in All \ {t} : frames'[u] = frames[u]
         /\ Len(frames'[t]) = Len(frames[t]) + 1
         /\ \A i \in 1..Len(frames[t]) : frames'[t][i] = frames[t][i]
         /\ frames'[t][Len(frames[t]) + 1] = r
<1>1. frames \in [All -> Seq(Frame)] /\ frames[t] \in Seq(Frame)
  BY DEF TypeOK
<1>2. frames'[t] = Append(frames[t], r) /\ \A u \in All \ {t} : frames'[u] = frames[u]
  BY <1>1
<1>3. Append(frames[t], r) \in Seq(Frame)
  BY <1>1
<1> QED
  BY <1>1, <1>2, <1>3, Appended

(* The stacks after the innermost yield of one got another thread.         *)
LEMMA TopSet ==
  ASSUME NEW q \in Seq(Frame), q # <<>>, NEW n \in All \cup {None}
  PROVE  \E p \in Seq(Frame) :
           /\ p = [q EXCEPT ![Len(q)].next = n]
           /\ Len(p) = Len(q)
           /\ \A i \in 1..(Len(q) - 1) : p[i] = q[i]
           /\ p[Len(q)].next = n /\ p[Len(q)].suspend = q[Len(q)].suspend
<1> DEFINE s == [q[Len(q)] EXCEPT !.next = n]
           p == [q EXCEPT ![Len(q)] = s]
<1>1. Len(q) \in Nat /\ Len(q) > 0 /\ q[Len(q)] \in Frame
  OBVIOUS
<1>2. s \in Frame /\ s.next = n /\ s.suspend = q[Len(q)].suspend
  BY <1>1 DEF Frame
<1>3. /\ p \in Seq(Frame) /\ Len(p) = Len(q) /\ p[Len(q)] = s
      /\ \A i \in 1..(Len(q) - 1) : p[i] = q[i]
  <2> HIDE DEF s
  <2> QED
    BY <1>1, <1>2
<1>4. p = [q EXCEPT ![Len(q)].next = n]
  OBVIOUS
<1> HIDE DEF p, s
<1> QED
  BY <1>2, <1>3, <1>4, Zenon

-----------------------------------------------------------------------------
(* A thread that nothing claims, created or woken, enters the queue.       *)
LEMMA EnqueueStep ==
  ASSUME IndInv, NEW x \in Threads, status[x] \in {"absent", "Suspend"},
         status' = [status EXCEPT ![x] = "Ready"], ready' = Append(ready, x),
         UNCHANGED <<terminated, current, frames>>,
         registered' = registered \cup {x} \/ (registered' = registered /\ status[x] = "Suspend")
  PROVE  IndInv'
<1>1. /\ TypeOK /\ OneRunning /\ QueueInv /\ ReadyKept /\ FrameInv /\ DeadInv /\ OnlyDeadDestroyed
      /\ status \in [All -> Statuses] /\ ready \in Seq(Threads) /\ registered \subseteq All
  BY DEF IndInv, TypeOK
<1>2. /\ status'[x] = "Ready" /\ \A u \in All \ {x} : status'[u] = status[u]
      /\ status' \in [All -> Statuses] /\ x # current /\ x \in All /\ x # Idle
  BY <1>1, Types DEF Statuses, OneRunning
<1>3. /\ ready' \in Seq(Threads) /\ Len(ready') = Len(ready) + 1
      /\ \A i \in 1..Len(ready) : ready'[i] = ready[i]
      /\ ready'[Len(ready) + 1] = x
  BY <1>1, Appended
<1>4. TypeOK'
  BY <1>1, <1>2, <1>3 DEF TypeOK
<1>5. OneRunning'
  BY <1>1, <1>2, Types DEF OneRunning, TypeOK
<1>6. /\ \A i \in 1..Len(ready) : ready[i] # x
      /\ \A u \in All : \A i \in 1..Len(frames[u]) : frames[u][i].next # x
  <2>1. QueueInv
    BY <1>1
  <2>2. \A i \in 1..Len(ready) : ready[i] # x
    BY <2>1 DEF QueueInv
  <2>3. \A u \in All : \A i \in 1..Len(frames[u]) : frames[u][i].next # x
    BY <2>1 DEF QueueInv
  <2> QED
    BY <2>2, <2>3
<1>7. QueueInv'
  BY <1>1, <1>2, <1>3, <1>6, Types DEF QueueInv
<1>8. ReadyKept'
  BY <1>1, <1>2, <1>3, Types DEF ReadyKept
<1>9. FrameInv'
  BY <1>1 DEF FrameInv, Top
<1>10. DeadInv'
  BY <1>1, <1>2, Types DEF DeadInv
<1>11. OnlyDeadDestroyed'
  BY <1>1, <1>2 DEF OnlyDeadDestroyed
<1> QED
  BY <1>4, <1>5, <1>7, <1>8, <1>9, <1>10, <1>11 DEF IndInv

(* A thread is created suspended, or marked to be stopped: its place in    *)
(* the queue or in a yield stays.                                          *)
LEMMA MarkStep ==
  ASSUME IndInv, NEW x \in Threads, NEW s, status' = [status EXCEPT ![x] = s],
         \/ s = "Suspend" /\ status[x] = "absent" /\ registered' = registered \cup {x}
         \/ s = "Terminating" /\ x \in registered /\ registered' = registered
              /\ status[x] \notin {"Terminated", "Terminating"},
         UNCHANGED <<ready, terminated, current, frames>>
  PROVE  IndInv'
<1>1. /\ TypeOK /\ OneRunning /\ QueueInv /\ ReadyKept /\ FrameInv /\ DeadInv /\ OnlyDeadDestroyed
      /\ status \in [All -> Statuses] /\ registered \subseteq All
  BY DEF IndInv, TypeOK
<1>2. /\ status'[x] = s /\ \A u \in All \ {x} : status'[u] = status[u]
      /\ status' \in [All -> Statuses] /\ x \in All /\ x # Idle
  BY <1>1, Types DEF Statuses
<1>3. TypeOK'
  BY <1>1, <1>2 DEF TypeOK
<1>4. OneRunning'
  BY <1>1, <1>2, Types DEF OneRunning, TypeOK
<1>5. QueueInv'
  BY <1>1, <1>2, Types DEF QueueInv
<1>6. ReadyKept'
  BY <1>1, <1>2, Types DEF ReadyKept
<1>7. FrameInv'
  BY <1>1 DEF FrameInv, Top
<1>8. DeadInv'
  BY <1>1, <1>2, Types DEF DeadInv
<1>9. OnlyDeadDestroyed'
  BY <1>1, <1>2 DEF OnlyDeadDestroyed
<1> QED
  BY <1>3, <1>4, <1>5, <1>6, <1>7, <1>8, <1>9 DEF IndInv

(* A yield takes the first Ready thread out of the queue.                  *)
LEMMA ClaimStep ==
  ASSUME IndInv, NEW t \in All, current = t, NEW suspend \in BOOLEAN, t = Idle => ~suspend,
         NEW k \in 1..Len(ready), status[ready[k]] = "Ready",
         \A j \in 1..(k - 1) : status[ready[j]] # "Ready",
         UNCHANGED <<status, registered, terminated, current>>
  PROVE  /\ ready' = SubSeq(ready, k + 1, Len(ready))
         /\ frames' = [frames EXCEPT ![t] = Append(@, [suspend |-> suspend, next |-> ready[k]])]
         => IndInv'
<1>0. SUFFICES ASSUME ready' = SubSeq(ready, k + 1, Len(ready)),
                      frames' = [frames EXCEPT ![t] = Append(@, [suspend |-> suspend, next |-> ready[k]])]
               PROVE  IndInv'
  OBVIOUS
<1>1. /\ TypeOK /\ OneRunning /\ QueueInv /\ ReadyKept /\ FrameInv /\ DeadInv /\ OnlyDeadDestroyed
      /\ ready \in Seq(Threads) /\ frames \in [All -> Seq(Frame)]
  BY DEF IndInv, TypeOK
<1>2. PICK n \in Threads : n = ready[k]
  BY <1>1, Types
<1>3. PICK r \in Frame : r = [suspend |-> suspend, next |-> n]
  BY <1>2, Types, <1>1, Zenon DEF Frame
<1>4. r.next = n /\ r.suspend = suspend
  BY <1>3
<1>5. /\ frames' \in [All -> Seq(Frame)]
      /\ \A u \in All \ {t} : frames'[u] = frames[u]
      /\ Len(frames'[t]) = Len(frames[t]) + 1
      /\ \A i \in 1..Len(frames[t]) : frames'[t][i] = frames[t][i]
      /\ frames'[t][Len(frames[t]) + 1] = r
  BY <1>0, <1>1, <1>2, <1>3, Pushed
<1>6. /\ ready' \in Seq(Threads) /\ Len(ready') = Len(ready) - k
      /\ \A i \in 1..(Len(ready) - k) : ready'[i] = ready[i + k]
  BY <1>0, <1>1
<1>7. TypeOK'
  BY <1>1, <1>5, <1>6 DEF TypeOK
<1>8. OneRunning' /\ DeadInv' /\ OnlyDeadDestroyed'
  BY <1>1 DEF OneRunning, DeadInv, OnlyDeadDestroyed
<1>9. \A i \in 1..Len(ready') : \E m \in 1..Len(ready) : m = i + k /\ m # k /\ ready'[i] = ready[m]
  <2>1. Len(ready) \in Nat
    BY <1>1, Types
  <2>2. \A i \in 1..(Len(ready) - k) : i + k \in 1..Len(ready) /\ i + k # k
    BY <2>1
  <2> QED
    BY <1>6, <2>2
<1>10. /\ \A u \in All : \A i \in 1..Len(frames'[u]) :
            \/ i \in 1..Len(frames[u]) /\ frames'[u][i] = frames[u][i]
            \/ u = t /\ i = Len(frames[t]) + 1 /\ frames'[u][i].next = n
       /\ \A u \in All : \A i \in 1..Len(frames[u]) :
            i \in 1..Len(frames'[u]) /\ frames'[u][i] = frames[u][i]
  <2>1. Len(frames[t]) \in Nat
    BY <1>1, Types
  <2>2. /\ \A i \in 1..(Len(frames[t]) + 1) : i \in 1..Len(frames[t]) \/ i = Len(frames[t]) + 1
        /\ \A i \in 1..Len(frames[t]) : i \in 1..(Len(frames[t]) + 1)
    BY <2>1
  <2> QED
    BY <1>4, <1>5, <2>2, Zenon
<1>11. /\ \A i \in 1..Len(ready) : ready[i] = n => i = k
       /\ status[n] = "Ready" /\ n # current
       /\ \A u \in All : \A i \in 1..Len(frames[u]) : frames[u][i].next # n
  <2>1. QueueInv /\ n = ready[k]
    BY <1>1, <1>2
  <2>2. (\A i \in 1..Len(ready) : ready[i] = n => i = k) /\ n # current
    BY <2>1 DEF QueueInv
  <2>3. \A u \in All : \A i \in 1..Len(frames[u]) : frames[u][i].next # n
    BY <2>1 DEF QueueInv
  <2> QED
    BY <1>2, <2>2, <2>3
<1>12. ASSUME NEW i \in 1..Len(ready')
       PROVE  /\ status'[ready'[i]] \in {"Ready", "Terminating"} /\ ready'[i] # current'
              /\ \A j \in 1..Len(ready') : ready'[i] = ready'[j] => i = j
  <2>1. PICK m \in 1..Len(ready) : m = i + k /\ m # k /\ ready'[i] = ready[m]
    BY <1>9
  <2>2. /\ status[ready[m]] \in {"Ready", "Terminating"} /\ ready[m] # current
        /\ \A j \in 1..Len(ready) : ready[m] = ready[j] => m = j
    BY <1>1 DEF QueueInv
  <2>3. ASSUME NEW j \in 1..Len(ready'), ready'[i] = ready'[j]
        PROVE  i = j
    <3>1. PICK o \in 1..Len(ready) : o = j + k /\ ready'[j] = ready[o]
      BY <1>9
    <3>2. m = o
      BY <2>1, <2>2, <2>3, <3>1
    <3>3. i \in Int /\ j \in Int /\ k \in Int
      BY <1>6
    <3> QED
      BY <2>1, <3>1, <3>2, <3>3
  <2> QED
    BY <2>1, <2>2, <2>3
<1>a. ASSUME NEW u \in All, NEW i \in 1..Len(frames'[u]), frames'[u][i].next \in Threads
      PROVE  /\ status'[frames'[u][i].next] \in {"Ready", "Terminating"}
             /\ frames'[u][i].next # current'
             /\ \A j \in 1..Len(ready') : ready'[j] # frames'[u][i].next
             /\ \A v \in All : \A j \in 1..Len(frames'[v]) :
                  frames'[u][i].next = frames'[v][j].next => u = v /\ i = j
  <2>1. PICK x \in Threads : x = frames'[u][i].next
    BY <1>a
  <2>2. CASE i \in 1..Len(frames[u]) /\ frames'[u][i] = frames[u][i]
    <3>1. frames[u][i].next = x /\ x # n
      BY <1>11, <2>1, <2>2
    <3>2. /\ status[x] \in {"Ready", "Terminating"} /\ x # current
          /\ \A j \in 1..Len(ready) : ready[j] # x
          /\ \A v \in All : \A j \in 1..Len(frames[v]) : frames[v][j].next = x => u = v /\ i = j
      BY <1>1, <2>2, <3>1, HeldOnce
    <3>3. \A j \in 1..Len(ready') : ready'[j] # x
      BY <1>9, <3>2
    <3>4. ASSUME NEW v \in All, NEW j \in 1..Len(frames'[v]), frames'[v][j].next = x
          PROVE  u = v /\ i = j
      <4>1. j \in 1..Len(frames[v]) /\ frames'[v][j] = frames[v][j]
        BY <1>10, <3>1, <3>4
      <4> QED
        BY <3>2, <3>4, <4>1
    <3> QED
      BY <2>1, <3>2, <3>3, <3>4
  <2>3. CASE u = t /\ i = Len(frames[t]) + 1 /\ x = n
    <3>1. ASSUME NEW j \in 1..Len(ready')
          PROVE  ready'[j] # x
      <4>1. PICK m \in 1..Len(ready) : m # k /\ ready'[j] = ready[m]
        BY <1>9, Zenon
      <4> QED
        BY <1>11, <2>3, <4>1
    <3>2. ASSUME NEW v \in All, NEW j \in 1..Len(frames'[v]), frames'[v][j].next = x
          PROVE  u = v /\ i = j
      <4>1. ~(j \in 1..Len(frames[v]) /\ frames'[v][j] = frames[v][j])
        BY <1>11, <2>3, <3>2
      <4> QED
        BY <1>10, <2>3, <4>1
    <3> QED
      BY <1>11, <2>1, <2>3, <3>1, <3>2
  <2> QED
    BY <1>10, <2>1, <2>2, <2>3
<1>13. QueueInv'
  BY <1>12, <1>a DEF QueueInv
<1>14. ReadyKept'
  <2> SUFFICES ASSUME NEW x \in Threads, status[x] = "Ready"
               PROVE  \/ \E i \in 1..Len(ready') : ready'[i] = x
                      \/ \E u \in All : \E i \in 1..Len(frames'[u]) : frames'[u][i].next = x
    BY DEF ReadyKept
  <2>1. CASE x = n
    <3>1. Len(frames[t]) + 1 \in 1..Len(frames'[t])
      BY <1>1, <1>5, Types
    <3> QED
      BY <1>4, <1>5, <2>1, <3>1
  <2>2. ASSUME NEW i \in 1..Len(ready), ready[i] = x, x # n
        PROVE  \E j \in 1..Len(ready') : ready'[j] = x
    <3>1. i \in Int /\ k \in Int /\ Len(ready) \in Nat /\ ~(i \in 1..(k - 1)) /\ i # k
      BY <1>1, <1>2, <2>2, Types
    <3>2. i - k \in 1..(Len(ready) - k) /\ (i - k) + k = i
      BY <3>1
    <3>3. i - k \in 1..Len(ready') /\ ready'[i - k] = ready[i]
      BY <1>6, <3>2
    <3> QED
      BY <2>2, <3>3
  <2>3. ASSUME NEW u \in All, NEW i \in 1..Len(frames[u]), frames[u][i].next = x
        PROVE  i \in 1..Len(frames'[u]) /\ frames'[u][i].next = x
    BY <1>10, <2>3
  <2>4. \/ \E i \in 1..Len(ready) : ready[i] = x
        \/ \E u \in All : \E i \in 1..Len(frames[u]) : frames[u][i].next = x
    BY <1>1 DEF ReadyKept
  <2> QED
    BY <2>1, <2>2, <2>3, <2>4, Zenon
<1>15. FrameInv'
  <2>1. \A u \in All \ {current'} : frames'[u] # <<>> => Top(u)'.next = None
    BY <1>1, <1>5 DEF FrameInv, Top
  <2>2. n # Idle
    BY <1>1, Types
  <2>3. ASSUME NEW u \in All, NEW i \in 1..Len(frames'[u])
        PROVE  /\ u = Idle => ~frames'[u][i].suspend
               /\ frames'[u][i].next = Idle => frames'[u][i].suspend
    <3>1. CASE i \in 1..Len(frames[u]) /\ frames'[u][i] = frames[u][i]
      BY <1>1, <3>1 DEF FrameInv
    <3>2. CASE u = t /\ i = Len(frames[t]) + 1 /\ frames'[u][i].next = n
      BY <1>4, <1>5, <2>2, <3>2
    <3> QED
      BY <1>10, <3>1, <3>2
  <2> QED
    BY <2>1, <2>3 DEF FrameInv
<1> QED
  BY <1>7, <1>8, <1>13, <1>14, <1>15 DEF IndInv

(* Yields change and threads that are not Ready leave the queue, but no    *)
(* yield takes or gives up a thread other than the idle one.               *)
LEMMA SameClaims ==
  ASSUME IndInv, TypeOK', UNCHANGED <<status, registered, terminated, current>>,
         \/ ready' = ready
         \/ ready' = <<>> /\ \A j \in 1..Len(ready) : status[ready[j]] # "Ready",
         \A u \in All : \A i \in 1..Len(frames'[u]) :
           \/ i \in 1..Len(frames[u]) /\ frames'[u][i].next = frames[u][i].next
           \/ frames'[u][i].next \notin Threads,
         \A u \in All : \A i \in 1..Len(frames[u]) : frames[u][i].next \in Threads =>
           i \in 1..Len(frames'[u]) /\ frames'[u][i].next = frames[u][i].next,
         FrameInv'
  PROVE  IndInv'
<1>1. /\ TypeOK /\ OneRunning /\ QueueInv /\ ReadyKept /\ FrameInv /\ DeadInv /\ OnlyDeadDestroyed
  BY DEF IndInv
<1>2. OneRunning' /\ DeadInv' /\ OnlyDeadDestroyed'
  BY <1>1 DEF OneRunning, DeadInv, OnlyDeadDestroyed
<1>3. \A i \in 1..Len(ready') : i \in 1..Len(ready) /\ ready'[i] = ready[i]
  OBVIOUS
<1>4. ASSUME NEW i \in 1..Len(ready')
      PROVE  /\ status'[ready'[i]] \in {"Ready", "Terminating"} /\ ready'[i] # current'
             /\ \A j \in 1..Len(ready') : ready'[i] = ready'[j] => i = j
  BY <1>1, <1>3 DEF QueueInv
<1>5. ASSUME NEW u \in All, NEW i \in 1..Len(frames'[u]), frames'[u][i].next \in Threads
      PROVE  /\ status'[frames'[u][i].next] \in {"Ready", "Terminating"}
             /\ frames'[u][i].next # current'
             /\ \A j \in 1..Len(ready') : ready'[j] # frames'[u][i].next
             /\ \A v \in All : \A j \in 1..Len(frames'[v]) :
                  frames'[u][i].next = frames'[v][j].next => u = v /\ i = j
  <2>1. i \in 1..Len(frames[u]) /\ frames'[u][i].next = frames[u][i].next
    BY <1>5
  <2>2. \A v \in All : \A j \in 1..Len(frames'[v]) : frames'[u][i].next = frames'[v][j].next
          => j \in 1..Len(frames[v]) /\ frames[v][j].next = frames[u][i].next
    BY <1>5, <2>1
  <2> QED
    BY <1>1, <1>3, <1>5, <2>1, <2>2 DEF QueueInv
<1>6. QueueInv'
  BY <1>4, <1>5 DEF QueueInv
<1>7. ReadyKept'
  BY <1>1 DEF ReadyKept
<1> QED
  BY <1>1, <1>2, <1>6, <1>7 DEF IndInv

(* A yield finds no Ready thread: the queue is empty afterwards, and a     *)
(* suspending yield goes on without a thread.                              *)
LEMMA DropStep ==
  ASSUME IndInv, NEW t \in All, current = t, NEW suspend \in BOOLEAN, t = Idle => ~suspend,
         \A j \in 1..Len(ready) : status[ready[j]] # "Ready", ready' = <<>>,
         frames' = IF suspend
                     THEN [frames EXCEPT ![t] = Append(@, [suspend |-> TRUE, next |-> None])]
                     ELSE frames,
         UNCHANGED <<status, registered, terminated, current>>
  PROVE  IndInv'
<1>1. TypeOK /\ FrameInv /\ frames \in [All -> Seq(Frame)]
  BY DEF IndInv, TypeOK
<1>2. CASE ~suspend
  <2>1. frames' = frames
    BY <1>2
  <2>2. TypeOK' /\ FrameInv'
    BY <1>1, <2>1 DEF TypeOK, FrameInv, Top
  <2> QED
    BY <2>1, <2>2, SameClaims
<1>3. CASE suspend
  <2>1. PICK r \in Frame : r = [suspend |-> TRUE, next |-> None]
    BY Zenon DEF Frame
  <2>2. r.next = None /\ r.suspend = TRUE /\ t # Idle /\ None \notin All /\ Idle \in All
        /\ None \notin Threads
    BY <1>1, <1>3, <2>1, Types
  <2>3. /\ frames' \in [All -> Seq(Frame)]
        /\ \A u \in All \ {t} : frames'[u] = frames[u]
        /\ Len(frames'[t]) = Len(frames[t]) + 1
        /\ \A i \in 1..Len(frames[t]) : frames'[t][i] = frames[t][i]
        /\ frames'[t][Len(frames[t]) + 1] = r
    BY <1>1, <1>3, <2>1, Pushed
  <2>4. TypeOK'
    BY <1>1, <2>3 DEF TypeOK
  <2>5. Len(frames[t]) \in Nat
    BY <1>1, Types
  <2>6. /\ \A i \in 1..Len(frames[t]) : i \in 1..Len(frames'[t])
        /\ \A i \in 1..Len(frames'[t]) : i \in 1..Len(frames[t]) \/ i = Len(frames[t]) + 1
    BY <2>3, <2>5
  <2>7. \A u \in All : \A i \in 1..Len(frames'[u]) :
          \/ i \in 1..Len(frames[u]) /\ frames'[u][i] = frames[u][i]
          \/ u = t /\ frames'[u][i] = r
    BY <2>3, <2>6
  <2>8. \A u \in All : \A i \in 1..Len(frames[u]) : i \in 1..Len(frames'[u]) /\ frames'[u][i] = frames[u][i]
    BY <2>3, <2>6
  <2>9. FrameInv'
    <3>1. \A u \in All \ {current'} : frames'[u] # <<>> => Top(u)'.next = None
      BY <1>1, <2>3 DEF FrameInv, Top
    <3>2. ASSUME NEW u \in All, NEW i \in 1..Len(frames'[u])
          PROVE  /\ u = Idle => ~frames'[u][i].suspend
                 /\ frames'[u][i].next = Idle => frames'[u][i].suspend
      BY <1>1, <2>2, <2>7 DEF FrameInv
    <3> QED
      BY <3>1, <3>2 DEF FrameInv
  <2> QED
    BY <2>2, <2>4, <2>7, <2>8, <2>9, SameClaims
<1> QED
  BY <1>2, <1>3

(* A suspending yield takes the idle thread.                               *)
LEMMA IdleStep ==
  ASSUME IndInv, NEW t \in All, PickIdle(t)
  PROVE  IndInv'
<1>1. /\ TypeOK /\ FrameInv /\ frames \in [All -> Seq(Frame)] /\ current = t /\ frames[t] # <<>>
      /\ frames' = [frames EXCEPT ![t][Len(frames[t])].next = Idle]
      /\ UNCHANGED <<status, registered, ready, terminated, current>>
      /\ frames[t][Len(frames[t])].suspend /\ frames[t][Len(frames[t])].next = None
  BY DEF IndInv, TypeOK, PickIdle, Top
<1>2. /\ Idle \in All \cup {None} /\ Idle \in All /\ Idle \notin Threads
      /\ None \notin Threads /\ None \notin All
  BY <1>1, Types
<1>3. /\ frames' \in [All -> Seq(Frame)]
      /\ \A u \in All \ {t} : frames'[u] = frames[u]
      /\ Len(frames'[t]) = Len(frames[t])
      /\ \A i \in 1..(Len(frames[t]) - 1) : frames'[t][i] = frames[t][i]
      /\ frames'[t][Len(frames[t])].next = Idle
      /\ frames'[t][Len(frames[t])].suspend = frames[t][Len(frames[t])].suspend
  <2>1. frames[t] \in Seq(Frame)
    BY <1>1
  <2>2. PICK p \in Seq(Frame) :
          /\ p = [frames[t] EXCEPT ![Len(frames[t])].next = Idle]
          /\ Len(p) = Len(frames[t])
          /\ \A i \in 1..(Len(frames[t]) - 1) : p[i] = frames[t][i]
          /\ p[Len(frames[t])].next = Idle
          /\ p[Len(frames[t])].suspend = frames[t][Len(frames[t])].suspend
    BY <1>1, <1>2, <2>1, TopSet, ZenonT(40)
  <2>3. frames' = [frames EXCEPT ![t] = p]
    BY <1>1, <2>2
  <2>4. frames'[t] = p /\ (\A u \in All \ {t} : frames'[u] = frames[u]) /\ frames' \in [All -> Seq(Frame)]
    BY <1>1, <2>2, <2>3
  <2> QED
    BY <2>2, <2>4
<1>4. TypeOK'
  BY <1>1, <1>3 DEF TypeOK
<1>5. Len(frames[t]) \in Nat /\ Len(frames[t]) > 0
  BY <1>1, Types
<1>6. \A i \in 1..Len(frames[t]) : i \in 1..(Len(frames[t]) - 1) \/ i = Len(frames[t])
  BY <1>5
<1>7. \A u \in All : Len(frames'[u]) = Len(frames[u])
  BY <1>3
<1>8. \A u \in All : \A i \in 1..Len(frames[u]) :
        \/ frames'[u][i] = frames[u][i]
        \/ u = t /\ i = Len(frames[t])
  BY <1>3, <1>6
<1>9. FrameInv'
  <2>1. \A u \in All \ {current'} : frames'[u] # <<>> => Top(u)'.next = None
    BY <1>1, <1>3 DEF FrameInv, Top
  <2>2. ASSUME NEW u \in All, NEW i \in 1..Len(frames'[u])
        PROVE  /\ u = Idle => ~frames'[u][i].suspend
               /\ frames'[u][i].next = Idle => frames'[u][i].suspend
    BY <1>1, <1>3, <1>7, <1>8 DEF FrameInv
  <2> QED
    BY <2>1, <2>2 DEF FrameInv
<1> QED
  BY <1>1, <1>2, <1>3, <1>4, <1>7, <1>8, <1>9, SameClaims

(* What a yield that switches has in its hands: another thread, waiting    *)
(* for the CPU, that is claimed nowhere else.                              *)
LEMMA Held ==
  ASSUME IndInv, NEW t \in All, current = t, frames[t] # <<>>, Top(t).next # None
  PROVE  \E n \in All, l \in Nat :
           /\ n = Top(t).next /\ l = Len(frames[t])
           /\ n # t /\ l \in 1..Len(frames[t]) /\ frames[t][l].next = n
           /\ n \in Threads => status[n] \in {"Ready", "Terminating"}
           /\ n = Idle => frames[t][l].suspend
           /\ \A i \in 1..Len(ready) : ready[i] # n
           /\ \A u \in All : \A i \in 1..Len(frames[u]) :
                frames[u][i].next = n /\ n \in Threads => u = t /\ i = l
<1>1. PICK l \in Nat : l = Len(frames[t]) /\ l \in 1..Len(frames[t])
  BY Types DEF IndInv
<1>2. PICK n \in All : n = frames[t][l].next /\ n = Top(t).next
  BY <1>1, Types DEF IndInv, Top
<1>3. QueueInv /\ FrameInv /\ \A i \in 1..Len(ready) : ready[i] \in Threads
  BY Types DEF IndInv
<1>4. n = Idle => frames[t][l].suspend /\ t # Idle
  BY <1>1, <1>2, <1>3, Zenon DEF FrameInv
<1>5. n \in Threads => /\ status[n] \in {"Ready", "Terminating"} /\ n # t
                       /\ \A i \in 1..Len(ready) : ready[i] # n
                       /\ \A u \in All : \A i \in 1..Len(frames[u]) : frames[u][i].next = n => u = t /\ i = l
  <2>1. QueueInv /\ l \in 1..Len(frames[t]) /\ n = frames[t][l].next
    BY <1>1, <1>2, <1>3
  <2> QED
    BY <2>1, HeldOnce
<1>6. n \in Threads \/ n = Idle
  BY DEF All
<1>7. Idle \notin Threads
  BY SchedulerAssumption
<1>8. /\ n # t /\ \A i \in 1..Len(ready) : ready[i] # n
      /\ n \in Threads => status[n] \in {"Ready", "Terminating"}
      /\ \A u \in All : \A i \in 1..Len(frames[u]) :
           frames[u][i].next = n /\ n \in Threads => u = t /\ i = l
  BY <1>3, <1>4, <1>5, <1>6, <1>7
<1> QED
  BY <1>1, <1>2, <1>4, <1>8, Zenon

(* The stacks after a switch: the yield that switched holds nobody, the    *)
(* yield that a thread resumes from is over and held nobody.               *)
LEMMA SwitchedFrames ==
  ASSUME IndInv, NEW t \in All, SwitchThread(t), NEW n \in All, n = Top(t).next, n # t
  PROVE  /\ frames' \in [All -> Seq(Frame)]
         /\ \A u \in All \ {t, n} : frames'[u] = frames[u]
         /\ Len(frames'[t]) = Len(frames[t]) /\ frames'[t][Len(frames[t])].next = None
         /\ \A u \in All : \A i \in 1..Len(frames'[u]) :
              /\ i \in 1..Len(frames[u])
              /\ frames'[u][i].suspend = frames[u][i].suspend
              /\ \/ frames'[u][i].next = frames[u][i].next /\ ~(u = t /\ i = Len(frames[t]))
                 \/ frames'[u][i].next = None
         /\ \A u \in All : \A i \in 1..Len(frames[u]) :
              \/ u = t /\ i = Len(frames[t])
              \/ frames[u][i].next = None
              \/ i \in 1..Len(frames'[u]) /\ frames'[u][i].next = frames[u][i].next
<1>0. /\ frames' = [frames EXCEPT ![t][Len(frames[t])].next = None,
                                  ![n] = IF frames[n] # <<>> THEN SubSeq(@, 1, Len(@) - 1) ELSE @]
      /\ current = t /\ frames[t] # <<>>
  BY DEF SwitchThread
<1>1. /\ frames \in [All -> Seq(Frame)] /\ FrameInv /\ TypeOK
      /\ frames[t] \in Seq(Frame) /\ frames[n] \in Seq(Frame) /\ None \in All \cup {None}
  BY DEF IndInv, TypeOK
<1>2. PICK p \in Seq(Frame) :
        /\ p = [frames[t] EXCEPT ![Len(frames[t])].next = None]
        /\ Len(p) = Len(frames[t])
        /\ \A i \in 1..(Len(frames[t]) - 1) : p[i] = frames[t][i]
        /\ p[Len(frames[t])].next = None
        /\ p[Len(frames[t])].suspend = frames[t][Len(frames[t])].suspend
  BY <1>0, <1>1, TopSet, Zenon
<1>3. Len(frames[n]) \in Nat /\ (frames[n] # <<>> <=> Len(frames[n]) > 0)
      /\ Len(frames[t]) \in Nat /\ Len(frames[t]) > 0
  BY <1>0, <1>1, Types
<1>4. PICK s \in Seq(Frame) :
        /\ s = IF frames[n] # <<>> THEN SubSeq(frames[n], 1, Len(frames[n]) - 1) ELSE frames[n]
        /\ \A i \in 1..Len(s) : i \in 1..Len(frames[n]) /\ s[i] = frames[n][i]
        /\ \A i \in 1..Len(frames[n]) : i \in 1..Len(s) \/ i = Len(frames[n])
  <2>1. CASE frames[n] # <<>>
    <3> DEFINE s == SubSeq(frames[n], 1, Len(frames[n]) - 1)
    <3>1. /\ s \in Seq(Frame) /\ Len(s) = Len(frames[n]) - 1
          /\ \A i \in 1..(Len(frames[n]) - 1) : s[i] = frames[n][i]
      <4>1. Len(frames[n]) - 1 \in 0..Len(frames[n])
        BY <1>3, <2>1
      <4> QED
        BY <1>1, <4>1, Shortened
    <3>2. s = IF frames[n] # <<>> THEN SubSeq(frames[n], 1, Len(frames[n]) - 1) ELSE frames[n]
      BY <2>1
    <3> HIDE DEF s
    <3>3. /\ \A i \in 1..Len(s) : i \in 1..Len(frames[n]) /\ s[i] = frames[n][i]
          /\ \A i \in 1..Len(frames[n]) : i \in 1..Len(s) \/ i = Len(frames[n])
      BY <1>3, <2>1, <3>1
    <3> QED
      BY <3>1, <3>2, <3>3, Zenon
  <2>2. CASE frames[n] = <<>>
    BY <1>1, <2>2
  <2> QED
    BY <2>1, <2>2
<1>5. frames' = [frames EXCEPT ![t] = p, ![n] = s]
  BY <1>0, <1>1, <1>2, <1>4
<1>6. /\ frames'[t] = p /\ frames'[n] = s /\ frames' \in [All -> Seq(Frame)]
      /\ \A u \in All \ {t, n} : frames'[u] = frames[u]
  BY <1>1, <1>5, Zenon
<1>7. \A i \in 1..Len(frames[t]) : i \in 1..(Len(frames[t]) - 1) \/ i = Len(frames[t])
  BY <1>3
<1>8. \A i \in 1..Len(frames[n]) : i = Len(frames[n]) => frames[n][i].next = None
  BY <1>0, <1>1, <1>3 DEF FrameInv, Top
<1>9. ASSUME NEW u \in All, NEW i \in 1..Len(frames'[u])
      PROVE  /\ i \in 1..Len(frames[u])
             /\ frames'[u][i].suspend = frames[u][i].suspend
             /\ \/ frames'[u][i].next = frames[u][i].next /\ ~(u = t /\ i = Len(frames[t]))
                \/ frames'[u][i].next = None
  <2>1. CASE u = t
    BY <1>2, <1>6, <1>7, <2>1, Zenon
  <2>2. CASE u = n
    BY <1>4, <1>6, <2>2, Zenon
  <2>3. CASE u \notin {t, n}
    BY <1>6, <2>3
  <2> QED
    BY <2>1, <2>2, <2>3
<1>10. ASSUME NEW u \in All, NEW i \in 1..Len(frames[u])
       PROVE  \/ u = t /\ i = Len(frames[t])
              \/ frames[u][i].next = None
              \/ i \in 1..Len(frames'[u]) /\ frames'[u][i].next = frames[u][i].next
  <2>1. CASE u = t
    BY <1>2, <1>6, <1>7, <2>1
  <2>2. CASE u = n
    BY <1>4, <1>6, <1>8, <2>2, Zenon
  <2>3. CASE u \notin {t, n}
    BY <1>6, <2>3
  <2> QED
    BY <2>1, <2>2, <2>3
<1> QED
  BY <1>2, <1>6, <1>9, <1>10

(* The CPU goes from one thread to another.                                *)
LEMMA SwitchStep ==
  ASSUME IndInv, NEW t \in All, SwitchThread(t)
  PROVE  IndInv'
<1>1. /\ TypeOK /\ OneRunning /\ QueueInv /\ ReadyKept /\ FrameInv /\ DeadInv /\ OnlyDeadDestroyed
      /\ current = t /\ frames[t] # <<>> /\ Top(t).next # None
  BY DEF IndInv, SwitchThread
<1>2. PICK n \in All, l \in Nat :
        /\ n = Top(t).next /\ l = Len(frames[t])
        /\ n # t /\ l \in 1..Len(frames[t]) /\ frames[t][l].next = n
        /\ n \in Threads => status[n] \in {"Ready", "Terminating"}
        /\ n = Idle => frames[t][l].suspend
        /\ \A i \in 1..Len(ready) : ready[i] # n
        /\ \A u \in All : \A i \in 1..Len(frames[u]) :
             frames[u][i].next = n /\ n \in Threads => u = t /\ i = l
  BY <1>1, Held
<1>3. PICK off \in {"Terminated", "Suspend", "Ready"} :
        /\ off = StatusOff(t, Top(t).suspend)
        /\ status[t] = "Terminating" <=> off = "Terminated"
        /\ t = Idle => off = "Ready"
  <2>1. t = Idle => status[t] # "Terminating" /\ ~Top(t).suspend
    BY <1>1, <1>2 DEF DeadInv, FrameInv, Top
  <2> QED
    BY <2>1 DEF StatusOff
<1>4. PICK dead \in {terminated, Append(terminated, t)} :
        /\ dead # terminated => off = "Terminated" /\ t \in Threads
        /\ terminated' = IF frames[n] # <<>> THEN <<>> ELSE dead
        /\ registered' = IF frames[n] # <<>> THEN registered \ {dead[i] : i \in 1..Len(dead)}
                                             ELSE registered
  BY <1>2, <1>3, Zenon DEF SwitchThread, All
<1>5. /\ status' = [status EXCEPT ![t] = off, ![n] = StatusOn(n)]
      /\ ready' = ReadyOff(t, off) /\ current' = n
  BY <1>2, <1>3 DEF SwitchThread
<1>6. /\ frames' \in [All -> Seq(Frame)]
      /\ \A u \in All \ {t, n} : frames'[u] = frames[u]
      /\ Len(frames'[t]) = Len(frames[t]) /\ frames'[t][Len(frames[t])].next = None
      /\ \A u \in All : \A i \in 1..Len(frames'[u]) :
           /\ i \in 1..Len(frames[u])
           /\ frames'[u][i].suspend = frames[u][i].suspend
           /\ \/ frames'[u][i].next = frames[u][i].next /\ ~(u = t /\ i = Len(frames[t]))
              \/ frames'[u][i].next = None
      /\ \A u \in All : \A i \in 1..Len(frames[u]) :
           \/ u = t /\ i = Len(frames[t])
           \/ frames[u][i].next = None
           \/ i \in 1..Len(frames'[u]) /\ frames'[u][i].next = frames[u][i].next
  BY <1>2, SwitchedFrames
<1>7. /\ status \in [All -> Statuses] /\ ready \in Seq(Threads) /\ terminated \in Seq(Threads)
      /\ registered \subseteq All /\ Idle \notin Threads /\ None \notin All /\ Threads \subseteq All
      /\ Idle \in All /\ All = Threads \cup {Idle}
  BY <1>1, Types DEF TypeOK, All
<1>8. /\ status'[t] = off /\ status'[n] \in {"Running", "Terminating"}
      /\ \A u \in All \ {t, n} : status'[u] = status[u]
      /\ status' \in [All -> Statuses] /\ (n = Idle => status'[n] = "Running")
  <2>1. n # t /\ (n \in Threads => status[n] \in {"Ready", "Terminating"}) /\ (n \in Threads \/ n = Idle)
    BY <1>2 DEF All
  <2>2. status[Idle] \in {"Running", "Ready"}
    BY <1>1 DEF DeadInv
  <2>3. StatusOn(n) \in {"Running", "Terminating"} /\ (n = Idle => StatusOn(n) = "Running")
    BY <2>1, <2>2 DEF StatusOn
  <2>4. PICK on \in {"Running", "Terminating"} : on = StatusOn(n)
    BY <2>3
  <2>5. status' = [status EXCEPT ![t] = off, ![n] = on] /\ status \in [All -> Statuses]
    BY <1>5, <1>7, <2>4
  <2>6. status'[t] = off /\ status'[n] = on /\ (\A u \in All \ {t, n} : status'[u] = status[u])
        /\ status' \in [All -> Statuses]
    BY <2>1, <2>5 DEF Statuses
  <2> QED
    BY <2>3, <2>4, <2>6
<1>9. /\ ready' \in Seq(Threads)
      /\ \A i \in 1..Len(ready) : i \in 1..Len(ready') /\ ready'[i] = ready[i]
      /\ \A i \in 1..Len(ready') :
           \/ i \in 1..Len(ready) /\ ready'[i] = ready[i]
           \/ i = Len(ready) + 1 /\ ready'[i] = t /\ off = "Ready" /\ t \in Threads
      /\ off = "Ready" /\ t \in Threads => \E i \in 1..Len(ready') : ready'[i] = t
  <2>1. CASE off = "Ready" /\ t \in Threads
    <3>1. ready' = Append(ready, t) /\ Len(ready) \in Nat
      BY <1>1, <1>5, <1>7, <2>1, Types DEF ReadyOff
    <3>2. /\ ready' \in Seq(Threads) /\ Len(ready') = Len(ready) + 1
          /\ \A i \in 1..Len(ready) : ready'[i] = ready[i]
          /\ ready'[Len(ready) + 1] = t
      BY <1>7, <2>1, <3>1, Appended
    <3>3. /\ \A i \in 1..Len(ready) : i \in 1..Len(ready') /\ ready'[i] = ready[i]
          /\ \A i \in 1..Len(ready') : i \in 1..Len(ready) \/ i = Len(ready) + 1
          /\ Len(ready) + 1 \in 1..Len(ready')
      BY <3>1, <3>2
    <3> QED
      BY <2>1, <3>2, <3>3
  <2>2. CASE ~(off = "Ready" /\ t \in Threads)
    <3>1. ready' = ready
      BY <1>5, <1>7, <2>2 DEF ReadyOff
    <3> QED
      BY <1>7, <2>2, <3>1
  <2> QED
    BY <2>1, <2>2
<1>10. /\ dead \in Seq(Threads)
       /\ \A i \in 1..Len(dead) : dead[i] \in Threads /\ status'[dead[i]] = "Terminated"
  <2>1. \A x \in Threads : status[x] = "Terminated" => status'[x] = "Terminated"
    BY <1>1, <1>2, <1>7, <1>8 DEF OneRunning
  <2>2. CASE dead = terminated
    BY <1>1, <1>7, <2>1, <2>2, Types DEF DeadInv
  <2>3. CASE dead # terminated
    <3>1. dead = Append(terminated, t) /\ t \in Threads /\ status'[t] = "Terminated"
          /\ Len(terminated) \in Nat
      BY <1>1, <1>4, <1>8, <2>3, Types
    <3>2. /\ dead \in Seq(Threads) /\ Len(dead) = Len(terminated) + 1
          /\ \A i \in 1..Len(terminated) : dead[i] = terminated[i]
          /\ dead[Len(terminated) + 1] = t
      BY <1>7, <3>1, Appended
    <3>3. \A i \in 1..Len(dead) : i \in 1..Len(terminated) \/ i = Len(terminated) + 1
      BY <3>1, <3>2
    <3> QED
      BY <1>1, <2>1, <3>1, <3>2, <3>3, Types DEF DeadInv
  <2> QED
    BY <2>2, <2>3
<1>11. TypeOK'
  <2>1. <<>> \in Seq(Threads) /\ terminated' \in {<<>>, dead} /\ registered' \subseteq registered
    BY <1>4
  <2>2. current' \in All /\ registered' \subseteq All
    BY <1>5, <1>7, <2>1
  <2>3. terminated' \in Seq(Threads)
    BY <1>10, <2>1, ZenonT(40)
  <2>4. status' \in [All -> Statuses] /\ ready' \in Seq(Threads) /\ frames' \in [All -> Seq(Frame)]
    BY <1>6, <1>8, <1>9
  <2> QED
    BY <2>2, <2>3, <2>4 DEF TypeOK
<1>12. OneRunning'
  <2>1. \A x \in Threads : status[x] = "Running" => x = t
    BY <1>1 DEF OneRunning
  <2>2. current' = n /\ n # t
    BY <1>2, <1>5
  <2> QED
    BY <1>7, <1>8, <2>1, <2>2 DEF OneRunning
<1>13. /\ n # t /\ current' = n /\ \A i \in 1..Len(ready) : ready[i] # n
       /\ \A i \in 1..Len(ready) : ready[i] # t /\ ready[i] \in Threads
  BY <1>1, <1>2, <1>5, Types DEF QueueInv
<1>14. ASSUME NEW i \in 1..Len(ready')
       PROVE  /\ status'[ready'[i]] \in {"Ready", "Terminating"} /\ ready'[i] # current'
              /\ \A j \in 1..Len(ready') : ready'[i] = ready'[j] => i = j
  <2>1. CASE i \in 1..Len(ready) /\ ready'[i] = ready[i]
    <3>1. /\ status[ready[i]] \in {"Ready", "Terminating"}
          /\ \A j \in 1..Len(ready) : ready[i] = ready[j] => i = j
      BY <1>1, <2>1, ZenonT(40) DEF QueueInv
    <3>2. status'[ready[i]] = status[ready[i]]
      BY <1>7, <1>8, <1>13, <2>1
    <3>3. ASSUME NEW j \in 1..Len(ready'), ready'[i] = ready'[j]
          PROVE  i = j
      BY <1>9, <1>13, <2>1, <3>1, <3>3, ZenonT(40)
    <3> QED
      BY <1>13, <2>1, <3>1, <3>2, <3>3
  <2>2. CASE i = Len(ready) + 1 /\ ready'[i] = t /\ off = "Ready" /\ t \in Threads
    <3>1. ASSUME NEW j \in 1..Len(ready'), ready'[i] = ready'[j]
          PROVE  i = j
      BY <1>9, <1>13, <2>2, <3>1
    <3> QED
      BY <1>8, <1>13, <2>2, <3>1, Zenon
  <2> QED
    BY <1>9, <2>1, <2>2
<1>15. ASSUME NEW u \in All, NEW i \in 1..Len(frames'[u]), frames'[u][i].next \in Threads
       PROVE  /\ status'[frames'[u][i].next] \in {"Ready", "Terminating"}
              /\ frames'[u][i].next # current'
              /\ \A j \in 1..Len(ready') : ready'[j] # frames'[u][i].next
              /\ \A v \in All : \A j \in 1..Len(frames'[v]) :
                   frames'[u][i].next = frames'[v][j].next => u = v /\ i = j
  <2>1. PICK x \in Threads : x = frames'[u][i].next /\ x # None /\ x \in All
    BY <1>7, <1>15
  <2>2. i \in 1..Len(frames[u]) /\ frames[u][i].next = x /\ ~(u = t /\ i = Len(frames[t]))
    BY <1>6, <2>1
  <2>3. /\ status[x] \in {"Ready", "Terminating"} /\ x # current
        /\ \A j \in 1..Len(ready) : ready[j] # x
        /\ \A v \in All : \A j \in 1..Len(frames[v]) : frames[v][j].next = x => u = v /\ i = j
    <3>1. QueueInv
      BY <1>1
    <3>2. i \in 1..Len(frames[u]) /\ frames[u][i].next = x
      BY <2>2
    <3> QED
      BY <3>1, <3>2, HeldOnce
  <2>4. x # n /\ x # t
    BY <1>1, <1>2, <2>2, <2>3
  <2>5. status'[x] = status[x]
    BY <1>8, <2>1, <2>4
  <2>6. ASSUME NEW j \in 1..Len(ready')
        PROVE  ready'[j] # x
    BY <1>9, <2>3, <2>4
  <2>7. ASSUME NEW v \in All, NEW j \in 1..Len(frames'[v]), frames'[v][j].next = x
        PROVE  u = v /\ i = j
    <3>1. j \in 1..Len(frames[v]) /\ frames[v][j].next = x
      BY <1>6, <2>1, <2>7
    <3> QED
      BY <2>3, <3>1
  <2> QED
    BY <1>13, <2>1, <2>3, <2>4, <2>5, <2>6, <2>7
<1>16. QueueInv'
  BY <1>14, <1>15 DEF QueueInv
<1>17. ReadyKept'
  <2> SUFFICES ASSUME NEW x \in Threads, status'[x] = "Ready"
               PROVE  \/ \E i \in 1..Len(ready') : ready'[i] = x
                      \/ \E u \in All : \E i \in 1..Len(frames'[u]) : frames'[u][i].next = x
    BY DEF ReadyKept
  <2>1. CASE x = t
    BY <1>8, <1>9, <2>1
  <2>2. CASE x # t
    <3>1. x # n /\ status[x] = "Ready" /\ x # None
      BY <1>7, <1>8, <2>2
    <3>2. \/ \E i \in 1..Len(ready) : ready[i] = x
          \/ \E u \in All : \E i \in 1..Len(frames[u]) : frames[u][i].next = x
      BY <1>1, <3>1 DEF ReadyKept
    <3>3. ASSUME NEW i \in 1..Len(ready), ready[i] = x
          PROVE  i \in 1..Len(ready') /\ ready'[i] = x
      BY <1>9, <3>3
    <3>4. ASSUME NEW u \in All, NEW i \in 1..Len(frames[u]), frames[u][i].next = x
          PROVE  i \in 1..Len(frames'[u]) /\ frames'[u][i].next = x
      BY <1>2, <1>6, <3>1, <3>4
    <3> QED
      BY <3>2, <3>3, <3>4, Zenon
  <2> QED
    BY <2>1, <2>2
<1>18. FrameInv'
  <2>1. ASSUME NEW u \in All, u # current', frames'[u] # <<>>
        PROVE  frames'[u][Len(frames'[u])].next = None
    <3>1. CASE u = t
      BY <1>6, <3>1
    <3>2. CASE u # t
      BY <1>1, <1>5, <1>6, <2>1, <3>2 DEF FrameInv, Top
    <3> QED
      BY <3>1, <3>2
  <2>2. ASSUME NEW u \in All, NEW i \in 1..Len(frames'[u])
        PROVE  /\ u = Idle => ~frames'[u][i].suspend
               /\ frames'[u][i].next = Idle => frames'[u][i].suspend
    <3>1. /\ i \in 1..Len(frames[u]) /\ frames'[u][i].suspend = frames[u][i].suspend
          /\ frames'[u][i].next = frames[u][i].next \/ frames'[u][i].next = None
      BY <1>6
    <3> QED
      BY <1>1, <1>7, <3>1 DEF FrameInv
  <2> QED
    BY <2>1, <2>2 DEF FrameInv, Top
<1>19. DeadInv'
  <2>1. \A i \in 1..Len(terminated') : status'[terminated'[i]] = "Terminated"
    BY <1>4, <1>10
  <2>2. Idle \in registered'
    BY <1>1, <1>4, <1>7, <1>10 DEF DeadInv
  <2>3. status'[Idle] \in {"Running", "Ready"}
    BY <1>1, <1>3, <1>7, <1>8 DEF DeadInv
  <2> QED
    BY <2>1, <2>2, <2>3 DEF DeadInv
<1>20. OnlyDeadDestroyed'
  <2> SUFFICES ASSUME NEW x \in All \ registered'
               PROVE  status'[x] \in {"absent", "Terminated"}
    BY DEF OnlyDeadDestroyed
  <2>1. CASE x \in registered
    BY <1>4, <1>10, <2>1
  <2>2. CASE x \notin registered
    <3>1. status[x] \in {"absent", "Terminated"} /\ x # Idle
      BY <1>1, <2>2 DEF OnlyDeadDestroyed, DeadInv
    <3>2. x # t
      BY <1>1, <3>1 DEF OneRunning
    <3>3. x # n
      BY <1>2, <1>7, <3>1
    <3> QED
      BY <1>8, <3>1, <3>2, <3>3
  <2> QED
    BY <2>1, <2>2
<1> QED
  BY <1>11, <1>12, <1>16, <1>17, <1>18, <1>19, <1>20 DEF IndInv

(* A step of a yield that looks for the next thread.                       *)
LEMMA PopStep ==
  ASSUME IndInv, NEW t \in All, current = t, NEW suspend \in BOOLEAN, t = Idle => ~suspend,
         PopNext(t, suspend), UNCHANGED <<status, registered, terminated, current>>
  PROVE  IndInv'
<1>1. ASSUME NEW k \in 1..Len(ready), status[ready[k]] = "Ready",
             \A j \in 1..(k - 1) : status[ready[j]] # "Ready",
             ready' = SubSeq(ready, k + 1, Len(ready)),
             frames' = [frames EXCEPT ![t] = Append(@, [suspend |-> suspend, next |-> ready[k]])]
      PROVE  IndInv'
  BY <1>1, ClaimStep, Zenon
<1>2. ASSUME \A j \in 1..Len(ready) : status[ready[j]] # "Ready", ready' = <<>>,
             frames' = IF suspend
                         THEN [frames EXCEPT ![t] = Append(@, [suspend |-> TRUE, next |-> None])]
                         ELSE frames
      PROVE  IndInv'
  BY <1>2, DropStep, Zenon
<1> QED
  BY <1>1, <1>2, Zenon DEF PopNext

(* Every step of the scheduler keeps the inductive invariant.              *)
LEMMA NextKeepsIndInv ==
  ASSUME IndInv, [Next]_vars
  PROVE  IndInv'
<1>1. ASSUME NEW x \in Threads, NEW s \in BOOLEAN, CreateThread(x, s)
      PROVE  IndInv'
  <2>1. CASE s
    BY <1>1, <2>1, MarkStep, Zenon DEF CreateThread
  <2>2. CASE ~s
    BY <1>1, <2>2, EnqueueStep, Zenon DEF CreateThread
  <2> QED
    BY <2>1, <2>2
<1>2. ASSUME NEW x \in Threads, WakeThread(x)
      PROVE  IndInv'
  BY <1>2, EnqueueStep, Zenon DEF WakeThread
<1>3. ASSUME NEW x \in Threads, StopThread(x)
      PROVE  IndInv'
  BY <1>3, MarkStep, Zenon DEF StopThread
<1>4. ASSUME NEW t \in All, ThreadYield(t)
      PROVE  IndInv'
  BY <1>4, PopStep, Zenon DEF ThreadYield, Executing
<1>5. ASSUME NEW t \in All, TimerYield(t)
      PROVE  IndInv'
  BY <1>5, FALSE \in BOOLEAN, PopStep, Zenon DEF TimerYield
<1>6. ASSUME NEW t \in All, YieldStep(t)
      PROVE  IndInv'
  BY <1>6, IdleStep, SwitchStep DEF YieldStep
<1>7. CASE UNCHANGED vars
  <2>1. UNCHANGED <<status, registered, ready, terminated, current, frames>>
    BY <1>7 DEF vars
  <2>2. TypeOK' /\ OneRunning' /\ DeadInv' /\ OnlyDeadDestroyed'
    BY <2>1 DEF IndInv, TypeOK, OneRunning, DeadInv, OnlyDeadDestroyed
  <2>3. QueueInv'
    <3>1. QueueInv
      BY DEF IndInv
    <3> QED
      BY <2>1, <3>1 DEF QueueInv
  <2>4. ReadyKept' /\ FrameInv'
    BY <2>1, Zenon DEF IndInv, ReadyKept, FrameInv, Top
  <2> QED
    BY <2>2, <2>3, <2>4 DEF IndInv
<1> QED
  BY <1>1, <1>2, <1>3, <1>4, <1>5, <1>6, <1>7, Zenon DEF Next

(* kmain leaves the scheduler with nothing queued.                         *)
LEMMA InitIndInv ==
  ASSUME Init
  PROVE  IndInv
<1>1. Kernel \in All /\ Idle \in All /\ Kernel # Idle /\ Idle \notin Threads
  BY SchedulerAssumption DEF All
<1>2. /\ TypeOK
      /\ status[Kernel] = "Running" /\ status[Idle] = "Running"
      /\ \A u \in All \ {Kernel, Idle} : status[u] = "absent"
      /\ Len(ready) = 0 /\ Len(terminated) = 0 /\ \A u \in All : frames[u] = <<>>
  BY <1>1 DEF Init, TypeOK, Statuses
<1>3. OneRunning /\ DeadInv /\ OnlyDeadDestroyed
  BY <1>1, <1>2 DEF Init, OneRunning, DeadInv, OnlyDeadDestroyed, All
<1>4. QueueInv /\ FrameInv
  BY <1>2 DEF QueueInv, FrameInv
<1>5. ReadyKept
  BY <1>1, <1>2 DEF ReadyKept, All
<1> QED
  BY <1>2, <1>3, <1>4, <1>5 DEF IndInv

(* The claims on a thread, one by one.                                     *)
LEMMA ClaimsAre ==
  ASSUME NEW t
  PROVE  /\ \A i \in 1..Len(ready) : ready[i] = t => <<None, i>> \in Claims(t)
         /\ \A u \in All : \A i \in 1..Len(frames[u]) : frames[u][i].next = t => <<u, i>> \in Claims(t)
         /\ \A c \in Claims(t) :
              \/ \E i \in 1..Len(ready) : ready[i] = t /\ c = <<None, i>>
              \/ \E u \in All : \E i \in 1..Len(frames[u]) : frames[u][i].next = t /\ c = <<u, i>>
BY DEF Claims

(* The inductive invariant says that a thread is claimed at most once.     *)
LEMMA IndInvClaims ==
  ASSUME IndInv
  PROVE  ClaimedOnce
<1>1. TypeOK /\ QueueInv /\ ReadyKept
  BY DEF IndInv
<1> SUFFICES ASSUME NEW t \in Threads
             PROVE  /\ status[t] = "Ready" => Claims(t) # {}
                    /\ \A c, d \in Claims(t) : c = d
                    /\ \A c \in Claims(t) : status[t] \in {"Ready", "Terminating"}
  BY DEF ClaimedOnce
<1>2. status[t] = "Ready" => Claims(t) # {}
  BY <1>1, ClaimsAre, Zenon DEF ReadyKept
<1>3. ASSUME NEW c \in Claims(t), NEW d \in Claims(t)
      PROVE  c = d /\ status[t] \in {"Ready", "Terminating"}
  <2>1. ASSUME NEW i \in 1..Len(ready), ready[i] = t, c = <<None, i>>
        PROVE  c = d /\ status[t] \in {"Ready", "Terminating"}
    <3>1. /\ status[t] \in {"Ready", "Terminating"}
          /\ \A j \in 1..Len(ready) : ready[j] = t => i = j
      BY <1>1, <2>1 DEF QueueInv
    <3>2. \A u \in All : \A j \in 1..Len(frames[u]) : frames[u][j].next # t
      BY <1>1, <2>1, HeldOnce
    <3> QED
      BY <2>1, <3>1, <3>2, ClaimsAre
  <2>2. ASSUME NEW u \in All, NEW i \in 1..Len(frames[u]), frames[u][i].next = t, c = <<u, i>>
        PROVE  c = d /\ status[t] \in {"Ready", "Terminating"}
    <3>1. /\ status[t] \in {"Ready", "Terminating"}
          /\ \A j \in 1..Len(ready) : ready[j] # t
          /\ \A v \in All : \A j \in 1..Len(frames[v]) : frames[v][j].next = t => u = v /\ i = j
      BY <1>1, <2>2, HeldOnce
    <3> QED
      BY <2>2, <3>1, ClaimsAre
  <2> QED
    BY <2>1, <2>2, ClaimsAre
<1> QED
  BY <1>2, <1>3

(* The inductive invariant makes every switch safe.                        *)
LEMMA IndInvSwitch ==
  ASSUME IndInv
  PROVE  SafeSwitch
<1>1. TypeOK /\ DeadInv /\ OnlyDeadDestroyed /\ current \in All /\ Idle \notin Threads
  BY Types DEF IndInv, TypeOK
<1> SUFFICES ASSUME frames[current] # <<>>, Top(current).next # None
             PROVE  /\ Top(current).next # current /\ Top(current).next \in registered
                    /\ Top(current).next \in Threads
                         => status[Top(current).next] \in {"Ready", "Terminating"}
  BY DEF SafeSwitch
<1>2. PICK n \in All : /\ n = Top(current).next /\ n # current
                       /\ n \in Threads => status[n] \in {"Ready", "Terminating"}
  BY <1>1, Held
<1>3. n \in registered
  BY <1>1, <1>2 DEF DeadInv, OnlyDeadDestroyed, All
<1> QED
  BY <1>2, <1>3

(* The scheduler is safe, however the timer nests yields on the stacks:    *)
(* one thread runs, every Ready thread is queued in READY_THREADS or held  *)
(* by one yield exactly once, thread_yield_internal switches only to a     *)
(* live registered thread, and only threads that left the CPU for good are *)
(* destroyed.                                                              *)
THEOREM SchedulerIsSafe == Spec => []SchedulerSafe
<1>1. Init => IndInv
  BY InitIndInv
<1>2. IndInv /\ [Next]_vars => IndInv'
  BY NextKeepsIndInv
<1>3. IndInv => SchedulerSafe
  BY IndInvClaims, IndInvSwitch DEF IndInv, SchedulerSafe
<1> QED
  BY <1>1, <1>2, <1>3, PTL DEF Spec

-----------------------------------------------------------------------------
(* Division with remainder.                                               *)
-----------------------------------------------------------------------------

(* Division with remainder.                                                *)
LEMMA ModRange ==
  ASSUME NEW n \in Nat, n > 0, NEW a \in Nat
  PROVE  a % n \in 0..(n - 1) /\ a \div n \in Nat /\ a = (n * (a \div n)) + (a % n)
OBVIOUS

LEMMA Quotients ==
  ASSUME NEW n \in Nat, n > 0, NEW q \in Int, NEW p \in Int, n * q - n * p < n, n * p - n * q < n
  PROVE  q = p
<1>1. ASSUME NEW d \in Int, d > 0 PROVE n * d >= n
  BY <1>1
<1>2. CASE q > p
  <2>1. n * q - n * p = n * (q - p) /\ q - p > 0
    BY <1>2
  <2> QED
    BY <1>1, <2>1
<1>3. CASE p > q
  <2>1. n * p - n * q = n * (p - q) /\ p - q > 0
    BY <1>3
  <2> QED
    BY <1>1, <2>1
<1> QED
  BY <1>2, <1>3

-----------------------------------------------------------------------------
(* Loading an image.                                                      *)
-----------------------------------------------------------------------------

LEMMA SegmentIs ==
    ASSUME NEW s \in Segments
    PROVE  s.vaddr \in Nat /\ s.offset \in Nat /\ s.filesz \in Nat /\ s.memsz \in Nat
BY ElfAssumption DEF Segment

-----------------------------------------------------------------------------
(* Pages are counted by their number; q * PAGE_SIZE is where one starts.   *)
LEMMA Grid ==
    ASSUME NEW p \in Int, NEW q \in Int
    PROVE  /\ p * PAGE_SIZE \in Int /\ (p + 1) * PAGE_SIZE = p * PAGE_SIZE + PAGE_SIZE
           /\ p < q => p * PAGE_SIZE + PAGE_SIZE <= q * PAGE_SIZE
           /\ p * PAGE_SIZE < q * PAGE_SIZE => p < q
           /\ p \in Nat => p * PAGE_SIZE \in Nat
<1> PICK n \in Nat : n = PAGE_SIZE /\ n > 0 BY ElfAssumption
<1>1. p * n \in Int /\ (p + 1) * n = p * n + n /\ (p \in Nat => p * n \in Nat) OBVIOUS
<1>2. ASSUME NEW a \in Int, NEW b \in Int, a <= b PROVE a * n <= b * n
  <2>1. (b - a) * n >= 0 BY <1>2
  <2>2. (b - a) * n = b * n - a * n OBVIOUS
  <2>3. a * n \in Int /\ b * n \in Int OBVIOUS
  <2> QED BY <2>1, <2>2, <2>3
<1>3. p < q => (p + 1) * n <= q * n BY <1>2
<1>4. q <= p => q * n <= p * n BY <1>2
<1>5. q * n \in Int OBVIOUS
<1>6. p * n < q * n => p < q BY <1>1, <1>4, <1>5
<1> QED BY <1>1, <1>3, <1>6

LEMMA FloorIs ==
    ASSUME NEW x \in Nat
    PROVE  /\ x \div PAGE_SIZE \in Nat /\ Floor(x) = (x \div PAGE_SIZE) * PAGE_SIZE /\ Floor(x) \in Nat
           /\ Floor(x) <= x /\ x < Floor(x) + PAGE_SIZE
<1> PICK n \in Nat : n = PAGE_SIZE /\ n > 0 BY ElfAssumption
<1>1. x % n \in 0..(n - 1) /\ x \div n \in Nat /\ x = (n * (x \div n)) + (x % n) BY ModRange
<1> PICK q \in Nat : q = x \div n BY <1>1
<1>2. n * q = q * n /\ q * n \in Nat OBVIOUS
<1>3. Floor(x) = q * n BY DEF Floor
<1> QED BY <1>1, <1>2, <1>3

LEMMA TopPage == High \in Nat /\ High \div PAGE_SIZE \in Nat
<1>1. High \in Nat BY ElfAssumption
<1> QED BY <1>1, FloorIs

LEMMA CeilIs ==
    ASSUME NEW x \in Nat
    PROVE  /\ Ceil(x) \in Nat /\ x <= Ceil(x) /\ Ceil(x) < x + PAGE_SIZE
           /\ \E q \in Nat : Ceil(x) = q * PAGE_SIZE
<1>1. PAGE_SIZE \in Nat /\ PAGE_SIZE > 0 BY ElfAssumption
<1> PICK y \in Nat : y = x + PAGE_SIZE - 1 BY <1>1
<1>2. /\ y \div PAGE_SIZE \in Nat /\ Floor(y) = (y \div PAGE_SIZE) * PAGE_SIZE /\ Floor(y) \in Nat
      /\ Floor(y) <= y /\ y < Floor(y) + PAGE_SIZE BY FloorIs
<1>3. Ceil(x) = Floor(y) BY DEF Ceil
<1> QED BY <1>1, <1>2, <1>3

(* The end of the last page is the only page boundary so close.            *)
LEMMA CeilOnly ==
    ASSUME NEW x \in Nat, NEW q \in Nat, x <= q * PAGE_SIZE, q * PAGE_SIZE < x + PAGE_SIZE
    PROVE  Ceil(x) = q * PAGE_SIZE
<1>1. PAGE_SIZE \in Nat /\ PAGE_SIZE > 0 BY ElfAssumption
<1>2. PICK p \in Nat : Ceil(x) = p * PAGE_SIZE /\ x <= p * PAGE_SIZE /\ p * PAGE_SIZE < x + PAGE_SIZE BY CeilIs
<1>3. p * PAGE_SIZE \in Int /\ q * PAGE_SIZE \in Int BY Grid
<1>4. ~(p < q)
  <2>1. p < q => p * PAGE_SIZE + PAGE_SIZE <= q * PAGE_SIZE BY Grid
  <2> QED BY <1>1, <1>2, <1>3, <2>1
<1>5. ~(q < p)
  <2>1. q < p => q * PAGE_SIZE + PAGE_SIZE <= p * PAGE_SIZE BY Grid
  <2> QED BY <1>1, <1>2, <1>3, <2>1
<1> QED BY <1>2, <1>4, <1>5

(* The page of an address of a segment is one that the segment covers.     *)
LEMMA PageOfByte ==
    ASSUME NEW s \in Segments, ~Reserved(s.vaddr, s.memsz), NEW a \in Span(s)
    PROVE  a \div PAGE_SIZE \in Covers(s)
<1>1. PAGE_SIZE \in Nat /\ PAGE_SIZE > 0 /\ High \in Nat BY ElfAssumption
<1>2. s.vaddr \in Nat /\ s.memsz \in Nat BY SegmentIs
<1>3. a \in Nat /\ s.vaddr <= a /\ a < s.vaddr + s.memsz /\ s.vaddr + s.memsz < High /\ s.vaddr + s.memsz \in Nat
    BY <1>1, <1>2 DEF Span, Reserved
<1> PICK v \in Nat, e \in Nat : v = s.vaddr /\ e = s.vaddr + s.memsz BY <1>2
<1> PICK q \in Nat : q = a \div PAGE_SIZE BY <1>3, FloorIs
<1> PICK h \in Nat : h = High \div PAGE_SIZE BY TopPage
<1> PICK b \in Nat : b = v \div PAGE_SIZE BY FloorIs
<1>4. q * PAGE_SIZE \in Nat /\ q * PAGE_SIZE <= a /\ a < q * PAGE_SIZE + PAGE_SIZE BY <1>3, FloorIs
<1>5. h * PAGE_SIZE \in Nat /\ High < h * PAGE_SIZE + PAGE_SIZE BY <1>1, FloorIs
<1>6. b * PAGE_SIZE \in Nat /\ b * PAGE_SIZE <= v /\ Floor(v) = b * PAGE_SIZE BY FloorIs
<1>7. q <= h
  <2>1. h < q => h * PAGE_SIZE + PAGE_SIZE <= q * PAGE_SIZE BY Grid
  <2> QED BY <1>1, <1>3, <1>4, <1>5, <2>1
<1>8. b * PAGE_SIZE <= q * PAGE_SIZE
  <2>1. q < b => q * PAGE_SIZE + PAGE_SIZE <= b * PAGE_SIZE BY Grid
  <2>2. ~(q < b) BY <1>1, <1>3, <1>4, <1>6, <2>1
  <2>3. b < q => b * PAGE_SIZE + PAGE_SIZE <= q * PAGE_SIZE BY Grid
  <2> QED BY <1>1, <1>4, <1>6, <2>2, <2>3
<1>9. q * PAGE_SIZE < Ceil(e)
  <2>1. Ceil(e) \in Nat /\ e <= Ceil(e) BY CeilIs
  <2> QED BY <1>3, <1>4, <2>1
<1>10. q \in 0..(High \div PAGE_SIZE) BY <1>7
<1> QED BY <1>6, <1>8, <1>9, <1>10 DEF Covers, PagesOf

(* What alloc_static asks for.  The end is the end of the segment's last   *)
(* page; where the first page is passed over, the rest is asked for.       *)
Asks(c, a, n) ==
    /\ c.start \in Nat /\ c.size \in Nat /\ Ceil(c.size) \in Nat
    /\ c.size # 0 => c.start + Ceil(c.size) = Ceil(a + n)
    /\ ~Shares(Floor(a)) => c.start = Floor(a) /\ (c.size = 0 => Ceil(a + n) = Floor(a))
    /\ Shares(Floor(a)) => c.start = Floor(a) + PAGE_SIZE /\ (c.size = 0 => Ceil(a + n) <= Floor(a) + PAGE_SIZE)

LEMMA ClaimIs ==
    ASSUME NEW a \in Nat, NEW n \in Nat, NEW c, c = Claim(a, n)
    PROVE  Asks(c, a, n)
<1>1. PAGE_SIZE \in Nat /\ PAGE_SIZE > 0 BY ElfAssumption
<1> PICK q \in Nat : q = a \div PAGE_SIZE BY FloorIs
<1> PICK f \in Nat : f = Floor(a) BY FloorIs
<1>2. f = q * PAGE_SIZE /\ f <= a /\ a < f + PAGE_SIZE BY FloorIs
<1> PICK e \in Nat : e = a + n OBVIOUS
<1> PICK m \in Nat : m = n + a - f BY <1>2
<1>3. m = e - f /\ m >= 0 BY <1>2
<1>4. CASE ~Shares(Floor(a))
  <2>1. c.start = f /\ c.size = m
    <3>1. c = [start |-> f + 0, size |-> IF m < 0 THEN 0 ELSE m - 0] BY <1>4 DEF Claim
    <3> QED BY <1>3, <3>1
  <2>2. PICK t \in Nat : Ceil(m) = t * PAGE_SIZE /\ m <= t * PAGE_SIZE /\ t * PAGE_SIZE < m + PAGE_SIZE BY CeilIs
  <2>3. t * PAGE_SIZE \in Nat BY <1>1
  <2>4. (q + t) * PAGE_SIZE = f + t * PAGE_SIZE BY <1>1, <1>2
  <2>5. e <= (q + t) * PAGE_SIZE /\ (q + t) * PAGE_SIZE < e + PAGE_SIZE BY <1>1, <1>3, <2>2, <2>3, <2>4
  <2>6. Ceil(e) = (q + t) * PAGE_SIZE BY <2>5, CeilOnly
  <2>7. m = 0 => Ceil(e) = f
    <3> SUFFICES ASSUME m = 0 PROVE Ceil(e) = f OBVIOUS
    <3>1. e <= q * PAGE_SIZE /\ q * PAGE_SIZE < e + PAGE_SIZE BY <1>1, <1>2, <1>3
    <3> QED BY <1>2, <3>1, CeilOnly
  <2> QED BY <1>4, <2>1, <2>2, <2>3, <2>4, <2>6, <2>7 DEF Asks
<1>5. CASE Shares(Floor(a))
  <2> PICK z \in Nat : z = IF m < PAGE_SIZE THEN 0 ELSE m - PAGE_SIZE BY <1>1, <1>3
  <2>1. c.start = f + PAGE_SIZE /\ c.size = z
    <3>1. c = [start |-> f + PAGE_SIZE, size |-> IF m < PAGE_SIZE THEN 0 ELSE m - PAGE_SIZE] BY <1>5 DEF Claim
    <3> QED BY <3>1
  <2>2. PICK t \in Nat : Ceil(z) = t * PAGE_SIZE /\ z <= t * PAGE_SIZE /\ t * PAGE_SIZE < z + PAGE_SIZE BY CeilIs
  <2>3. t * PAGE_SIZE \in Nat BY <1>1
  <2>4. ((q + 1) + t) * PAGE_SIZE = f + PAGE_SIZE + t * PAGE_SIZE BY <1>1, <1>2
  <2>5. z # 0 => Ceil(e) = f + PAGE_SIZE + t * PAGE_SIZE
    <3> SUFFICES ASSUME z # 0 PROVE Ceil(e) = f + PAGE_SIZE + t * PAGE_SIZE OBVIOUS
    <3>1. e = f + PAGE_SIZE + z BY <1>1, <1>3
    <3>2. e <= ((q + 1) + t) * PAGE_SIZE /\ ((q + 1) + t) * PAGE_SIZE < e + PAGE_SIZE
        BY <1>1, <2>2, <2>3, <2>4, <3>1
    <3> QED BY <2>4, <3>2, CeilOnly
  <2>6. z = 0 => Ceil(e) <= f + PAGE_SIZE
    <3> SUFFICES ASSUME z = 0 PROVE Ceil(e) <= f + PAGE_SIZE OBVIOUS
    <3>1. e <= f + PAGE_SIZE BY <1>1, <1>3
    <3>2. PICK k \in Nat : Ceil(e) = k * PAGE_SIZE /\ k * PAGE_SIZE < e + PAGE_SIZE BY CeilIs
    <3>3. (q + 1) * PAGE_SIZE = f + PAGE_SIZE /\ k * PAGE_SIZE \in Nat BY <1>1, <1>2
    <3>4. q + 1 < k => (q + 1) * PAGE_SIZE + PAGE_SIZE <= k * PAGE_SIZE BY Grid
    <3>5. k < q + 1 => k * PAGE_SIZE + PAGE_SIZE <= (q + 1) * PAGE_SIZE BY Grid
    <3> QED BY <1>1, <3>1, <3>2, <3>3, <3>4, <3>5
  <2> QED BY <1>1, <1>5, <2>1, <2>2, <2>3, <2>5, <2>6 DEF Asks
<1> QED BY <1>4, <1>5

(* The pages of a segment are those asked for and, where its first page is *)
(* shared, that page.                                                      *)
LEMMA WantIs ==
    ASSUME NEW s \in Segments, NEW c, c = Claim(s.vaddr, s.memsz),
           NEW want, want = PagesOf(c.start, c.start + Ceil(c.size))
    PROVE  /\ \A p \in Covers(s) : (c.size # 0 /\ p \in want) \/ (Shares(Floor(s.vaddr)) /\ p * PAGE_SIZE = Floor(s.vaddr))
           /\ c.size # 0 => want \subseteq Covers(s)
<1>1. PAGE_SIZE \in Nat /\ PAGE_SIZE > 0 BY ElfAssumption
<1> PICK a \in Nat, n \in Nat : a = s.vaddr /\ n = s.memsz BY SegmentIs
<1> PICK q \in Nat : q = a \div PAGE_SIZE BY FloorIs
<1> PICK f \in Nat : f = Floor(a) BY FloorIs
<1>2. f = q * PAGE_SIZE BY FloorIs
<1>3. /\ c.start \in Nat /\ c.size \in Nat /\ Ceil(c.size) \in Nat
      /\ c.size # 0 => c.start + Ceil(c.size) = Ceil(a + n)
      /\ ~Shares(f) => c.start = f /\ (c.size = 0 => Ceil(a + n) = f)
      /\ Shares(f) => c.start = f + PAGE_SIZE /\ (c.size = 0 => Ceil(a + n) <= f + PAGE_SIZE)
  <2>1. c = Claim(a, n) OBVIOUS
  <2>2. Asks(c, a, n) BY <2>1, ClaimIs
  <2> QED BY <2>2 DEF Asks
<1> PICK e \in Nat : e = Ceil(a + n) BY CeilIs
<1>4. ASSUME NEW p \in Covers(s)
      PROVE  (c.size # 0 /\ p \in want) \/ (Shares(f) /\ p * PAGE_SIZE = f)
  <2>1. p \in 0..(High \div PAGE_SIZE) /\ f <= p * PAGE_SIZE /\ p * PAGE_SIZE < e BY DEF Covers, PagesOf
  <2>2. p \in Nat /\ p * PAGE_SIZE \in Nat
    <3>1. High \div PAGE_SIZE \in Nat BY TopPage
    <3>2. p \in Nat BY <2>1, <3>1
    <3> QED BY <1>1, <3>2
  <2>3. p * PAGE_SIZE = f \/ f + PAGE_SIZE <= p * PAGE_SIZE
    <3>1. q < p => q * PAGE_SIZE + PAGE_SIZE <= p * PAGE_SIZE BY <2>2, Grid
    <3>2. p < q => p * PAGE_SIZE + PAGE_SIZE <= q * PAGE_SIZE BY <2>2, Grid
    <3> QED BY <1>1, <1>2, <2>1, <2>2, <3>1, <3>2
  <2>4. CASE c.size # 0 /\ c.start <= p * PAGE_SIZE BY <1>3, <2>1, <2>4 DEF PagesOf
  <2>5. CASE c.size # 0 /\ ~(c.start <= p * PAGE_SIZE) BY <1>1, <1>3, <2>1, <2>2, <2>3, <2>5
  <2>6. CASE c.size = 0 BY <1>1, <1>3, <2>1, <2>2, <2>3, <2>6
  <2> QED BY <2>4, <2>5, <2>6
<1>5. ASSUME c.size # 0, NEW p \in want PROVE p \in Covers(s)
  <2>1. p \in 0..(High \div PAGE_SIZE) /\ c.start <= p * PAGE_SIZE /\ p * PAGE_SIZE < e BY <1>3, <1>5 DEF PagesOf
  <2>2. p * PAGE_SIZE \in Nat
    <3>1. High \div PAGE_SIZE \in Nat BY TopPage
    <3>2. p \in Nat BY <2>1, <3>1
    <3> QED BY <1>1, <3>2
  <2>3. f <= c.start BY <1>1, <1>3
  <2>4. f <= p * PAGE_SIZE BY <1>3, <2>1, <2>2, <2>3
  <2> QED BY <2>1, <2>4 DEF Covers, PagesOf
<1> QED BY <1>4, <1>5

(* A shared first page is mapped.                                          *)
LEMMA SharedMapped ==
    ASSUME ElfTypes, PageInv, NEW p \in 0..(High \div PAGE_SIZE), Shares(p * PAGE_SIZE)
    PROVE  p \in DOMAIN prot
<1>1. PICK i \in DOMAIN allocated_page :
        allocated_page[i][1] <= p * PAGE_SIZE /\ p * PAGE_SIZE < allocated_page[i][1] + allocated_page[i][2] BY DEF Shares
<1>2. p \in PagesOf(allocated_page[i][1], allocated_page[i][1] + allocated_page[i][2]) BY <1>1 DEF PagesOf
<1> QED BY <1>2 DEF PageInv

-----------------------------------------------------------------------------
LEMMA ElfInitial ==
    ASSUME elfInit
    PROVE  ElfInv
<1>1. image \in Seq(Segments)
  <2>1. PICK n \in 1..MaxSegments : image \in [1..n -> Segments] BY DEF elfInit
  <2> QED BY <2>1, ElfAssumption
<1>2. /\ stage = "headers" /\ seg = 1 /\ addr = 0 /\ remain = 0 /\ allocated_page = <<>> /\ prot = <<>>
      /\ bytes = [a \in Memory |-> JUNK] /\ err = "none" BY DEF elfInit
<1>3. DOMAIN prot = {} /\ DOMAIN allocated_page = {} /\ DOMAIN bytes = Memory /\ allocated_page \in Seq(Nat \X Nat) BY <1>2
<1>4. DOMAIN image \subseteq Nat \ {0} BY <1>1
<1>5. Loads \subseteq Nat \ {0} BY <1>4 DEF Loads
<1>6. \A j \in Loads : ~(j < seg) /\ ~Begun(j) BY <1>2, <1>5 DEF Begun
<1>7. ElfTypes BY <1>1, <1>2, <1>3 DEF ElfTypes
<1>8. PageInv BY <1>3, <1>6 DEF PageInv
<1>9. ByteInv BY <1>2, <1>6 DEF ByteInv
<1> QED BY <1>2, <1>7, <1>8, <1>9 DEF ElfInv, CopyInv, NoFault

LEMMA ElfInvSafe ==
    ASSUME ElfInv
    PROVE  LoadSafe
<1> ElfTypes /\ PageInv /\ ByteInv /\ NoFault BY DEF ElfInv
<1>1. stage = "done" => \A j \in Loads : j < seg BY DEF ElfTypes, Loads
<1>2. LoadedExact BY <1>1 DEF LoadedExact, ByteInv
<1>3. DOMAIN prot \subseteq UNION {Covers(image[i]) : i \in Loads} BY DEF PageInv
<1>4. stage = "done" => \A i \in Loads : \A p \in Covers(image[i]) :
        p \in DOMAIN prot /\ (Suits(image[i], p) \/ \E j \in Loads : j < i /\ p \in Covers(image[j]))
    BY <1>1 DEF PageInv, Begun
<1>5. PagesCovered BY <1>3, <1>4 DEF PagesCovered
<1> QED BY <1>2, <1>5 DEF LoadSafe

-----------------------------------------------------------------------------
(* A load that fails leaves what was mapped.                               *)
LEMMA FailStep ==
    ASSUME ElfInv, stage' = "failed", err' # "PageFault", UNCHANGED <<image, allocated_page, prot>>,
           seg' = seg \/ seg' = seg + 1, DOMAIN bytes' = Memory, addr' \in Nat, remain' \in Nat
    PROVE  ElfInv'
<1> ElfTypes /\ PageInv BY DEF ElfInv
<1>1. seg \in Nat \ {0} /\ seg' \in Nat \ {0} /\ Loads' = Loads /\ Loads \subseteq Nat BY DEF ElfTypes, Loads
<1>2. ElfTypes' BY <1>1 DEF ElfTypes
<1>3. \A j \in Loads : Begun(j) \/ (j = seg /\ stage = "failed") => Begun(j)' \/ (j = seg' /\ stage' = "failed")
    BY <1>1 DEF Begun
<1>4. PageInv' BY <1>1, <1>3, Zenon DEF PageInv
<1> QED BY <1>2, <1>4, Zenon DEF ElfInv, CopyInv, ByteInv, NoFault

LEMMA FromIoStep ==
    ASSUME ElfInv, from_io
    PROVE  ElfInv'
<1> ElfTypes /\ PageInv /\ ByteInv /\ NoFault BY DEF ElfInv
<1>1. stage = "headers" /\ UNCHANGED <<image, seg, addr, remain, allocated_page, prot, bytes>> BY DEF from_io
<1>2. \/ \E why \in {"Read", "Format", "Unsupport"} : stage' = "failed" /\ err' = why
      \/ /\ \A i \in DOMAIN image : image[i].filesz <= image[i].memsz
         /\ stage' = "segment" /\ UNCHANGED err BY DEF from_io, Fail
<1>3. CASE stage' = "failed"
  <2>1. err' # "PageFault" BY <1>2, <1>3
  <2>2. DOMAIN bytes' = Memory /\ addr' \in Nat /\ remain' \in Nat BY <1>1 DEF ElfTypes
  <2> QED BY <1>1, <1>3, <2>1, <2>2, FailStep
<1>4. CASE stage' = "segment" /\ UNCHANGED err /\ \A i \in DOMAIN image : image[i].filesz <= image[i].memsz
  <2>1. seg = 1 /\ DOMAIN prot = {} /\ Loads' = Loads BY <1>1 DEF ElfTypes, Loads
  <2>2. \A j \in Loads : ~(j < seg') /\ ~Begun(j)'
    <3>1. Loads \subseteq Nat \ {0} BY DEF Loads, ElfTypes
    <3> QED BY <1>1, <1>4, <2>1, <3>1 DEF Begun
  <2>3. ElfTypes' BY <1>1, <1>4 DEF ElfTypes
  <2>4. PageInv' BY <1>1, <2>1, <2>2, Zenon DEF PageInv
  <2>5. ByteInv' BY <1>4, <2>1, <2>2 DEF ByteInv
  <2> QED BY <1>4, <2>3, <2>4, <2>5 DEF ElfInv, CopyInv, NoFault
<1> QED BY <1>2, <1>3, <1>4

LEMMA NextSegmentStep ==
    ASSUME ElfInv, NextSegment
    PROVE  ElfInv'
<1> ElfTypes /\ PageInv /\ ByteInv /\ NoFault BY DEF ElfInv
<1>1. stage = "segment" /\ UNCHANGED <<image, addr, remain, allocated_page, prot, bytes, err>> BY DEF NextSegment
<1>2. \/ seg > Len(image) /\ stage' = "done" /\ seg' = seg
      \/ ~(seg > Len(image)) /\ image[seg].load /\ stage' = "alloc" /\ seg' = seg
      \/ ~(seg > Len(image)) /\ ~image[seg].load /\ stage' = "segment" /\ seg' = seg + 1
    BY Zenon, <1>1 DEF NextSegment, Now
<1>3. seg \in Nat \ {0} /\ image \in Seq(Segments) /\ Loads' = Loads /\ Loads \subseteq Nat /\ Disjoint' = Disjoint
    BY <1>1 DEF ElfTypes, Loads, Disjoint
<1>4. stage' \in {"done", "alloc", "segment"} BY <1>2
<1>5. stage' = "alloc" => seg' \in Loads
  <2>1. ~(seg > Len(image)) => seg \in DOMAIN image BY <1>3
  <2> QED BY <1>2, <2>1 DEF Loads
<1>6. seg' \in Nat \ {0} BY <1>2, <1>3
<1>7. ElfTypes' BY <1>1, <1>2, <1>4, <1>5, <1>6, <1>3 DEF ElfTypes
<1>8. \A j \in Loads : j < seg' <=> j < seg
  <2> SUFFICES ASSUME NEW j \in Loads PROVE j < seg' <=> j < seg OBVIOUS
  <2>1. j = seg => seg' = seg BY <1>2 DEF Loads
  <2>2. j \in Nat /\ (seg' = seg \/ seg' = seg + 1) BY <1>2, <1>3
  <2> QED BY <1>3, <2>1, <2>2
<1>9. \A j \in Loads : Begun(j)' <=> Begun(j) BY <1>1, <1>4, <1>8 DEF Begun
<1>10. PageInv'
  <2>1. \A p \in DOMAIN prot : \E j \in Loads : Begun(j) /\ p \in Covers(image[j]) BY <1>1 DEF PageInv
  <2>2. \A p \in DOMAIN prot' : \E j \in Loads' : Begun(j)' /\ p \in Covers(image'[j]) BY <1>1, <1>3, <1>9, <2>1
  <2>3. \A j \in Loads' : Begun(j)' =>
          /\ ~Reserved(image'[j].vaddr, image'[j].memsz)
          /\ \A p \in Covers(image'[j]) :
                p \in DOMAIN prot' /\ (Suits(image[j], p)' \/ \E k \in Loads' : k < j /\ p \in Covers(image'[k]))
      BY <1>1, <1>3, <1>9 DEF PageInv, Suits
  <2> QED BY <1>1, <2>2, <2>3, ZenonT(40) DEF PageInv
<1>11. ByteInv' BY <1>1, <1>3, <1>4, <1>8 DEF ByteInv
<1> QED BY <1>1, <1>4, <1>7, <1>10, <1>11 DEF ElfInv, CopyInv, NoFault

LEMMA AllocStep ==
    ASSUME ElfInv, alloc_static
    PROVE  ElfInv'
<1> ElfTypes /\ PageInv /\ ByteInv /\ NoFault BY DEF ElfInv
<1>s. PICK s : s = image[seg] OBVIOUS
<1>c. PICK c, want : c = Claim(s.vaddr, s.memsz) /\ want = PagesOf(c.start, c.start + Ceil(c.size)) OBVIOUS
<1>m. PICK mode : mode = [w |-> s.w \/ ~s.x, x |-> ~s.w /\ s.x] BY Zenon
<1>1. stage = "alloc" /\ addr' = s.vaddr /\ remain' = s.filesz /\ UNCHANGED <<image, seg, bytes>>
    BY <1>s DEF alloc_static, Now
<1>2. \/ stage' = "failed" /\ err' \in {"PageProtection", "PageReserved", "AllocFail"}
         /\ UNCHANGED <<allocated_page, prot>>
      \/ /\ ~(s.w /\ s.x) /\ ~Reserved(s.vaddr, s.memsz) /\ c.size = 0
         /\ stage' = "copy" /\ UNCHANGED <<allocated_page, prot, err>>
      \/ /\ ~(s.w /\ s.x) /\ ~Reserved(s.vaddr, s.memsz) /\ c.size # 0 /\ want \cap DOMAIN prot = {}
         /\ prot' = [p \in want \cup DOMAIN prot |-> IF p \in want THEN mode ELSE prot[p]]
         /\ allocated_page' = Append(allocated_page, <<c.start, Ceil(c.size)>>)
         /\ stage' = "copy" /\ UNCHANGED err
    BY <1>s, <1>c, <1>m, ZenonT(40) DEF alloc_static, Now, Fail
<1>3. seg \in Loads /\ seg \in Nat /\ image \in Seq(Segments) /\ Loads' = Loads /\ Loads \subseteq Nat
      /\ Disjoint' = Disjoint
  <2>1. seg \in Loads /\ seg \in Nat /\ image \in Seq(Segments) BY <1>1 DEF ElfTypes
  <2>2. Loads' = Loads BY <1>1 DEF Loads
  <2>3. Loads \subseteq Nat BY <2>1 DEF Loads
  <2>4. Disjoint' = Disjoint BY <1>1, <2>2 DEF Disjoint
  <2> QED BY <2>1, <2>2, <2>3, <2>4
<1>4. s \in Segments /\ s.vaddr \in Nat /\ s.filesz \in Nat
  <2>1. s \in Segments BY <1>s, <1>3 DEF Loads
  <2> QED BY <2>1, SegmentIs
<1>5. addr' \in Nat /\ remain' \in Nat BY <1>1, <1>4
<1>6. CASE stage' = "failed"
  <2>1. err' # "PageFault" /\ UNCHANGED <<allocated_page, prot>> BY <1>2, <1>6
  <2>2. DOMAIN bytes' = Memory BY <1>1 DEF ElfTypes
  <2> QED BY <1>1, <1>5, <1>6, <2>1, <2>2, FailStep
<1>7. CASE stage' = "copy"
  <2>1. UNCHANGED err BY <1>2, <1>7
  <2>2. \A j \in Loads : Begun(j) <=> j < seg BY <1>1 DEF Begun
  <2>3. \A j \in Loads : Begun(j)' <=> j < seg \/ j = seg BY <1>1, <1>7 DEF Begun
  <2>4. ~Reserved(s.vaddr, s.memsz) /\ ~(s.w /\ s.x) BY <1>2, <1>7
  <2>5. /\ \A p \in Covers(s) : (c.size # 0 /\ p \in want) \/ (Shares(Floor(s.vaddr)) /\ p * PAGE_SIZE = Floor(s.vaddr))
        /\ c.size # 0 => want \subseteq Covers(s) BY <1>c, <1>4, WantIs
  <2>6. \A p \in DOMAIN prot : \E k \in Loads : k < seg /\ p \in Covers(image[k]) BY <1>1, <2>2, Zenon DEF PageInv
  <2>7. \A p \in Covers(s) : (c.size # 0 /\ p \in want) \/ p \in DOMAIN prot
    <3> SUFFICES ASSUME NEW p \in Covers(s), Shares(Floor(s.vaddr)), p * PAGE_SIZE = Floor(s.vaddr)
                 PROVE  p \in DOMAIN prot BY <2>5
    <3>1. p \in 0..(High \div PAGE_SIZE) BY DEF Covers, PagesOf
    <3> QED BY <3>1, SharedMapped
  <2>8. allocated_page' \in Seq(Nat \X Nat)
    <3>1. c.start \in Nat /\ Ceil(c.size) \in Nat
      <4>1. s.memsz \in Nat BY <1>4, SegmentIs
      <4>2. Asks(c, s.vaddr, s.memsz) BY <1>c, <1>4, <4>1, ClaimIs
      <4> QED BY <4>2 DEF Asks
    <3>2. allocated_page \in Seq(Nat \X Nat) BY DEF ElfTypes
    <3>3. allocated_page' = allocated_page \/ allocated_page' = Append(allocated_page, <<c.start, Ceil(c.size)>>)
        BY <1>2, <1>7
    <3>e. PICK e : e = <<c.start, Ceil(c.size)>> BY Zenon
    <3>4. e \in Nat \X Nat BY <3>e, <3>1
    <3>5. Append(allocated_page, e) \in Seq(Nat \X Nat) BY <3>2, <3>4
    <3> QED BY <3>e, <3>2, <3>3, <3>5, Zenon
  <2>9. ElfTypes' BY <1>1, <1>3, <1>5, <1>7, <2>8 DEF ElfTypes
  <2>10. ByteInv'
    <3>1. Now'.vaddr = s.vaddr /\ s.vaddr..(addr' - 1) = {}
      <4>1. Now'.vaddr = s.vaddr BY <1>s, <1>1 DEF Now
      <4> QED BY <1>1, <1>4, <4>1
    <3> QED BY <1>1, <1>3, <1>7, <3>1, Zenon DEF ByteInv
  <2>11. CopyInv' BY <1>s, <1>1, <1>4 DEF CopyInv, Now
  <2>12. PageInv'
    <3>1. CASE c.size = 0
      <4>1. prot' = prot /\ allocated_page' = allocated_page BY <1>2, <1>7, <3>1
      <4>2. \A p \in DOMAIN prot : \E j \in Loads : Begun(j)' /\ p \in Covers(image[j]) BY <2>3, <2>6
      <4>3. ASSUME NEW j \in Loads, Begun(j)'
            PROVE  /\ ~Reserved(image[j].vaddr, image[j].memsz)
                   /\ \A p \in Covers(image[j]) :
                         p \in DOMAIN prot /\ (Suits(image[j], p) \/ \E k \in Loads : k < j /\ p \in Covers(image[k]))
        <5>1. CASE j < seg BY <1>1, <2>2, <5>1 DEF PageInv
        <5>2. CASE j = seg BY <1>s, <2>4, <2>6, <2>7, <3>1, <5>2
        <5> QED BY <2>3, <4>3, <5>1, <5>2
      <4>4. \A p : \A j \in Loads : Suits(image[j], p)' <=> Suits(image[j], p) BY <1>1, <4>1 DEF Suits
      <4>5. \A p \in DOMAIN prot' : \E j \in Loads' : Begun(j)' /\ p \in Covers(image'[j]) BY <1>1, <1>3, <4>1, <4>2
      <4>6. ASSUME NEW j \in Loads, Begun(j)'
            PROVE  /\ ~Reserved(image[j].vaddr, image[j].memsz)
                   /\ \A p \in Covers(image[j]) :
                         p \in DOMAIN prot' /\ (Suits(image[j], p)' \/ \E k \in Loads : k < j /\ p \in Covers(image[k]))
        <5>1. ~Reserved(image[j].vaddr, image[j].memsz) BY <4>3, <4>6
        <5>2. ASSUME NEW p \in Covers(image[j])
              PROVE  p \in DOMAIN prot' /\ (Suits(image[j], p)' \/ \E k \in Loads : k < j /\ p \in Covers(image[k]))
            BY <4>1, <4>3, <4>4, <4>6, Zenon
        <5> QED BY <5>1, <5>2
      <4>7. \A j \in Loads' : Begun(j)' =>
              /\ ~Reserved(image'[j].vaddr, image'[j].memsz)
              /\ \A p \in Covers(image'[j]) :
                    p \in DOMAIN prot' /\ (Suits(image[j], p)' \/ \E k \in Loads' : k < j /\ p \in Covers(image'[k]))
          BY <1>1, <1>3, <4>6
      <4> QED BY <4>1, <4>5, <4>7, Zenon DEF PageInv
    <3>2. CASE c.size # 0
      <4>1. /\ want \cap DOMAIN prot = {} /\ prot' = [p \in want \cup DOMAIN prot |-> IF p \in want THEN mode ELSE prot[p]]
            /\ allocated_page' = Append(allocated_page, <<c.start, Ceil(c.size)>>) BY <1>2, <1>7, <3>2
      <4>2. /\ DOMAIN prot' = want \cup DOMAIN prot /\ (\A p \in want : prot'[p] = mode)
            /\ \A p \in DOMAIN prot : prot'[p] = prot[p] BY <4>1
      <4>3. want \subseteq Covers(s) BY <2>5, <3>2
      <4>4. \A p \in DOMAIN prot' : \E j \in Loads : Begun(j)' /\ p \in Covers(image[j]) BY <1>s, <1>3, <2>3, <2>6, <4>2, <4>3
      <4>5. \A i \in DOMAIN allocated_page' :
              PagesOf(allocated_page'[i][1], allocated_page'[i][1] + allocated_page'[i][2]) \subseteq DOMAIN prot'
        <5> SUFFICES ASSUME NEW i \in DOMAIN allocated_page'
                     PROVE  PagesOf(allocated_page'[i][1], allocated_page'[i][1] + allocated_page'[i][2])
                              \subseteq DOMAIN prot' OBVIOUS
        <5>1. \/ i \in DOMAIN allocated_page /\ allocated_page'[i] = allocated_page[i]
              \/ allocated_page'[i] = <<c.start, Ceil(c.size)>>
          <6>1. allocated_page \in Seq(Nat \X Nat) BY DEF ElfTypes
          <6> QED BY <4>1, <6>1
        <5>2. CASE i \in DOMAIN allocated_page /\ allocated_page'[i] = allocated_page[i] BY <4>2, <5>2, ZenonT(40) DEF PageInv
        <5>3. CASE allocated_page'[i] = <<c.start, Ceil(c.size)>>
          <6>1. allocated_page'[i][1] = c.start /\ allocated_page'[i][2] = Ceil(c.size) BY <5>3
          <6> QED BY <1>c, <4>2, <6>1, ZenonT(40)
        <5> QED BY <5>1, <5>2, <5>3
      <4>6. \A p \in want : Suits(s, p)'
        <5>1. (s.w => mode.w) /\ (s.x => mode.x)
          <6>1. mode.w <=> s.w \/ ~s.x BY <1>m, Zenon
          <6>2. mode.x <=> ~s.w /\ s.x BY <1>m, Zenon
          <6> QED BY <2>4, <6>1, <6>2
        <5> QED BY <4>2, <5>1 DEF Suits
      <4>7. ASSUME NEW j \in Loads, Begun(j)'
            PROVE  /\ ~Reserved(image[j].vaddr, image[j].memsz)
                   /\ \A p \in Covers(image[j]) :
                         p \in DOMAIN prot' /\ (Suits(image[j], p)' \/ \E k \in Loads : k < j /\ p \in Covers(image[k]))
        <5>1. CASE j < seg
          <6>1. /\ ~Reserved(image[j].vaddr, image[j].memsz)
                /\ \A p \in Covers(image[j]) :
                      p \in DOMAIN prot /\ (Suits(image[j], p) \/ \E k \in Loads : k < j /\ p \in Covers(image[k]))
              BY <1>1, <2>2, <5>1 DEF PageInv
          <6>2. \A p \in DOMAIN prot : Suits(image[j], p) => Suits(image[j], p)' BY <1>1, <4>2 DEF Suits
          <6> QED BY <4>2, <6>1, <6>2, ZenonT(40)
        <5>2. CASE j = seg
          <6>1. \A p \in want : Suits(image[j], p)' BY <1>s, <1>1, <4>6, <5>2 DEF Suits
          <6> QED BY <1>s, <2>4, <2>6, <2>7, <4>2, <5>2, <6>1
        <5> QED BY <2>3, <4>7, <5>1, <5>2
      <4>8. \A p \in DOMAIN prot' : \E j \in Loads' : Begun(j)' /\ p \in Covers(image'[j]) BY <1>1, <1>3, <4>4
      <4>9. \A j \in Loads' : Begun(j)' =>
              /\ ~Reserved(image'[j].vaddr, image'[j].memsz)
              /\ \A p \in Covers(image'[j]) :
                    p \in DOMAIN prot' /\ (Suits(image[j], p)' \/ \E k \in Loads' : k < j /\ p \in Covers(image'[k]))
          BY <1>1, <1>3, <4>7
      <4> QED BY <4>5, <4>8, <4>9, Zenon DEF PageInv
    <3> QED BY <3>1, <3>2
  <2> QED BY <2>1, <2>9, <2>10, <2>11, <2>12 DEF ElfInv, NoFault
<1> QED BY <1>2, <1>6, <1>7

-----------------------------------------------------------------------------
(* A copy to pages that are all mapped.                                    *)
LEMMA WrittenIs ==
    ASSUME ElfTypes, NEW from \in Nat, NEW n \in Nat, NEW val, Written(from, n, val),
           \A a \in from..(from + n - 1) : a \div PAGE_SIZE \in DOMAIN prot
    PROVE  UNCHANGED err /\ DOMAIN bytes' = Memory
           /\ \A a \in Memory : bytes'[a] = IF a \in from..(from + n - 1) THEN val[a] ELSE bytes[a]
<1> PICK fault : fault = {a \in from..(from + n - 1) : a \div PAGE_SIZE \notin DOMAIN prot} BY Zenon
<1>1. /\ bytes' = [a \in Memory |-> IF a \in from..(from + n - 1) /\ \A f \in fault : a < f THEN val[a] ELSE bytes[a]]
      /\ IF fault = {} THEN UNCHANGED err ELSE err' = "PageFault" BY DEF Written
<1>2. fault = {} OBVIOUS
<1> QED BY <1>1, <1>2

(* The bytes of this segment are mapped, below High, and belong to no      *)
(* segment that was loaded before.                                         *)
LEMMA AtCopy ==
    ASSUME ElfInv, stage = "copy"
    PROVE  /\ seg \in Loads /\ Now \in Segments /\ Now.vaddr \in Nat /\ Now.filesz \in Nat /\ Now.memsz \in Nat
           /\ Now.offset \in Nat /\ Now.filesz <= Now.memsz /\ addr \in Nat /\ remain \in Nat
           /\ Now.vaddr <= addr /\ addr + remain = Now.vaddr + Now.filesz
           /\ \A a \in Span(Now) : a \in Memory /\ a \div PAGE_SIZE \in DOMAIN prot
           /\ Disjoint => \A j \in Loads : j < seg => \A a \in Span(image[j]) : a \in Memory /\ a \notin Span(Now)
<1> ElfTypes /\ PageInv /\ CopyInv BY DEF ElfInv
<1>1. seg \in Loads /\ image \in Seq(Segments) /\ Loads \subseteq DOMAIN image /\ seg \in Nat BY DEF ElfTypes, Loads
<1>2. Now \in Segments BY <1>1 DEF Now
<1>3. Now.vaddr \in Nat /\ Now.filesz \in Nat /\ Now.memsz \in Nat /\ Now.offset \in Nat BY <1>2, SegmentIs
<1>4. Now.filesz <= Now.memsz BY <1>1 DEF ElfTypes, Now
<1>5. \A j \in Loads : Begun(j) => /\ ~Reserved(image[j].vaddr, image[j].memsz)
                                   /\ Covers(image[j]) \subseteq DOMAIN prot BY DEF PageInv
<1>6. Begun(seg) /\ \A j \in Loads : j < seg => Begun(j) BY DEF Begun
<1>7. \A j \in Loads : Begun(j) => \A a \in Span(image[j]) : a \in Memory /\ a \div PAGE_SIZE \in DOMAIN prot
  <2> SUFFICES ASSUME NEW j \in Loads, Begun(j), NEW a \in Span(image[j])
               PROVE  a \in Memory /\ a \div PAGE_SIZE \in DOMAIN prot OBVIOUS
  <2> PICK s \in Segments : s = image[j] BY <1>1
  <2>1. ~Reserved(s.vaddr, s.memsz) /\ Covers(s) \subseteq DOMAIN prot BY <1>5
  <2>2. a \div PAGE_SIZE \in Covers(s) BY <2>1, PageOfByte
  <2>3. s.vaddr \in Nat /\ s.memsz \in Nat BY SegmentIs
  <2>4. a \in Memory
    <3>1. a \in s.vaddr..(s.vaddr + s.memsz - 1) /\ s.vaddr + s.memsz < High /\ High \in Nat /\ PAGE_SIZE \in Nat
        BY <2>1, <2>3, ElfAssumption DEF Span, Reserved
    <3> QED BY <2>3, <3>1 DEF Memory
  <2> QED BY <2>1, <2>2, <2>4
<1>8. \A a \in Span(Now) : a \in Memory /\ a \div PAGE_SIZE \in DOMAIN prot BY <1>1, <1>6, <1>7 DEF Now
<1>9. Disjoint => \A j \in Loads : j < seg => \A a \in Span(image[j]) : a \in Memory /\ a \notin Span(Now)
  <2> SUFFICES ASSUME Disjoint, NEW j \in Loads, j < seg, NEW a \in Span(image[j]) PROVE a \in Memory /\ a \notin Span(Now)
      OBVIOUS
  <2>1. j # seg BY <1>1
  <2>2. Span(image[j]) \cap Span(image[seg]) = {} BY <1>1, <2>1, ZenonT(40) DEF Disjoint
  <2> QED BY <1>6, <1>7, <2>2 DEF Now
<1>10. addr \in Nat /\ remain \in Nat /\ Now.vaddr <= addr /\ addr + remain = Now.vaddr + Now.filesz BY DEF ElfTypes, CopyInv
<1> QED BY <1>1, <1>2, <1>3, <1>4, <1>8, <1>9, <1>10

LEMMA CopyStep ==
    ASSUME ElfInv, CopyBuf
    PROVE  ElfInv'
<1> ElfTypes /\ PageInv /\ CopyInv /\ ByteInv /\ NoFault BY DEF ElfInv
<1>0. PICK step, pos : step = (IF BUF < remain THEN BUF ELSE remain) /\ pos = Now.offset + addr - Now.vaddr OBVIOUS
<1>1. stage = "copy" /\ UNCHANGED <<image, seg, allocated_page, prot>> BY DEF CopyBuf
<1>2. \/ stage' = "failed" /\ err' = "Read" /\ UNCHANGED <<addr, remain, bytes>>
      \/ /\ stage' = "failed" /\ err' = "PageReserved" /\ UNCHANGED bytes
         /\ addr' = addr + step /\ remain' = remain - step
      \/ /\ Written(addr, step, [a \in addr..(addr + step - 1) |-> pos + a - addr])
         /\ stage' = IF err' = "none" THEN "copy" ELSE "failed"
         /\ addr' = addr + step /\ remain' = remain - step
    BY <1>0 DEF CopyBuf, Fail
<1>3. /\ seg \in Loads /\ Now \in Segments /\ Now.vaddr \in Nat /\ Now.filesz \in Nat /\ Now.memsz \in Nat
      /\ Now.offset \in Nat /\ Now.filesz <= Now.memsz /\ addr \in Nat /\ remain \in Nat
      /\ Now.vaddr <= addr /\ addr + remain = Now.vaddr + Now.filesz BY <1>1, AtCopy
<1>4. \A a \in Span(Now) : a \in Memory /\ a \div PAGE_SIZE \in DOMAIN prot BY <1>1, AtCopy
<1>5. step \in Nat /\ step <= remain /\ remain - step \in Nat /\ addr + step \in Nat BY <1>0, <1>3, ElfAssumption
<1>6. addr' \in Nat /\ remain' \in Nat BY <1>2, <1>3, <1>5
<1>7. addr..(addr + step - 1) \subseteq Span(Now)
  <2> SUFFICES ASSUME NEW a \in addr..(addr + step - 1) PROVE a \in Now.vaddr..(Now.vaddr + Now.memsz - 1) BY DEF Span
  <2> QED BY <1>3, <1>5
<1>8. CASE stage' = "failed" /\ err' \in {"Read", "PageReserved"} /\ UNCHANGED bytes
  <2>1. DOMAIN bytes' = Memory BY <1>8 DEF ElfTypes
  <2> QED BY <1>1, <1>6, <1>8, <2>1, FailStep
<1>9. CASE /\ Written(addr, step, [a \in addr..(addr + step - 1) |-> pos + a - addr])
           /\ stage' = IF err' = "none" THEN "copy" ELSE "failed"
           /\ addr' = addr + step /\ remain' = remain - step
  <2>0. PICK val : val = [a \in addr..(addr + step - 1) |-> pos + a - addr] BY Zenon
  <2>1. \A a \in addr..(addr + step - 1) : a \div PAGE_SIZE \in DOMAIN prot BY <1>4, <1>7
  <2>2. /\ UNCHANGED err /\ DOMAIN bytes' = Memory
        /\ \A a \in Memory : bytes'[a] = IF a \in addr..(addr + step - 1) THEN val[a] ELSE bytes[a]
    <3>1. Written(addr, step, val) BY <1>9, <2>0
    <3> QED BY <1>3, <1>5, <2>1, <3>1, WrittenIs
  <2>3. CASE stage' = "failed"
    <3>1. err' # "PageFault" BY <2>2 DEF NoFault
    <3> QED BY <1>1, <1>6, <2>2, <2>3, <3>1, FailStep
  <2>4. CASE stage' = "copy"
    <3>1. Now' = Now /\ Loads' = Loads /\ Disjoint' = Disjoint BY <1>1 DEF Now, Loads, Disjoint
    <3>2. ElfTypes' BY <1>1, <1>6, <2>2, <2>4, <3>1 DEF ElfTypes
    <3>3. \A j \in Loads : Begun(j)' <=> Begun(j) BY <1>1, <2>4 DEF Begun
    <3>4. PageInv'
      <4>1. \A p : \A j \in Loads : Suits(image[j], p)' <=> Suits(image[j], p) BY <1>1 DEF Suits
      <4> QED BY <1>1, <2>4, <3>1, <3>3, <4>1, Zenon DEF PageInv
    <3>5. CopyInv'
      <4>1. Now'.vaddr <= addr' /\ addr' + remain' = Now'.vaddr + Now'.filesz BY <1>3, <1>5, <1>9, <3>1
      <4> QED BY <4>1 DEF CopyInv
    <3>6. ASSUME Disjoint, NEW j \in Loads, j < seg, NEW a \in Span(image[j]) PROVE bytes'[a] = Value(image[j], a)
      <4>1. a \in Memory /\ a \notin Span(Now) BY <1>1, <3>6, AtCopy
      <4>2. bytes'[a] = bytes[a] BY <1>7, <2>2, <4>1
      <4> QED BY <1>1, <3>6, <4>2 DEF ByteInv
    <3>7. ASSUME Disjoint, NEW a \in Now.vaddr..(addr' - 1) PROVE bytes'[a] = Value(Now, a)
      <4>1. a \in Now.vaddr..(addr - 1) \/ a \in addr..(addr + step - 1) BY <1>3, <1>5, <1>9
      <4>2. a \in Span(Now)
        <5>1. a \in Now.vaddr..(Now.vaddr + Now.memsz - 1) BY <1>3, <1>5, <1>9
        <5> QED BY <5>1 DEF Span
      <4>3. a \in Memory BY <1>4, <4>2
      <4>4. CASE a \in Now.vaddr..(addr - 1)
        <5>1. a \notin addr..(addr + step - 1) BY <1>3, <1>5, <4>4
        <5>2. bytes'[a] = bytes[a] BY <2>2, <4>3, <5>1
        <5> QED BY <1>1, <3>7, <4>4, <5>2 DEF ByteInv
      <4>5. CASE a \in addr..(addr + step - 1)
        <5>1. bytes'[a] = pos + a - addr BY <2>0, <2>2, <4>3, <4>5
        <5>2. a \in Nat /\ a - Now.vaddr < Now.filesz BY <1>3, <1>5, <4>5
        <5>3. pos + a - addr = Now.offset + a - Now.vaddr BY <1>0, <1>3, <5>2
        <5> QED BY <5>1, <5>2, <5>3 DEF Value
      <4> QED BY <4>1, <4>4, <4>5
    <3>8. ByteInv' BY <1>1, <3>1, <3>6, <3>7 DEF ByteInv
    <3> QED BY <2>2, <3>2, <3>4, <3>5, <3>8 DEF ElfInv, NoFault
  <2> QED BY <1>9, <2>3, <2>4
<1> QED BY <1>2, <1>8, <1>9

LEMMA ClearStep ==
    ASSUME ElfInv, clear_memory
    PROVE  ElfInv'
<1> ElfTypes /\ PageInv /\ CopyInv /\ ByteInv /\ NoFault BY DEF ElfInv
<1>0. PICK from, n : from = Now.vaddr + Now.filesz /\ n = Now.memsz - Now.filesz OBVIOUS
<1>1. stage = "copy" /\ remain = 0 /\ seg' = seg + 1 /\ UNCHANGED <<image, addr, remain, allocated_page, prot>>
    BY DEF clear_memory
<1>2. \/ Now.filesz >= Now.memsz /\ stage' = "segment" /\ UNCHANGED <<bytes, err>>
      \/ stage' = "failed" /\ err' = "PageReserved" /\ UNCHANGED bytes
      \/ /\ ~(Now.filesz >= Now.memsz) /\ Written(from, n, [a \in from..(from + n - 1) |-> ZERO])
         /\ stage' = IF err' = "none" THEN "segment" ELSE "failed"
    BY <1>0 DEF clear_memory, Fail, Cleared
<1>3. /\ seg \in Loads /\ Now \in Segments /\ Now.vaddr \in Nat /\ Now.filesz \in Nat /\ Now.memsz \in Nat
      /\ Now.offset \in Nat /\ Now.filesz <= Now.memsz /\ addr \in Nat /\ remain \in Nat
      /\ addr = Now.vaddr + Now.filesz BY <1>1, AtCopy
<1>4. \A a \in Span(Now) : a \in Memory /\ a \div PAGE_SIZE \in DOMAIN prot BY <1>1, AtCopy
<1>5. from \in Nat /\ n \in Nat /\ from..(from + n - 1) \subseteq Span(Now) BY <1>0, <1>3 DEF Span
<1>6. /\ stage' = "segment" \/ stage' = "failed"
      /\ err' # "PageFault" /\ DOMAIN bytes' = Memory
      /\ stage' = "segment" =>
            /\ \A a \in Memory : a \notin Span(Now) => bytes'[a] = bytes[a]
            /\ \A a \in Span(Now) : bytes'[a] = IF a < from THEN bytes[a] ELSE ZERO
  <2>1. CASE Now.filesz >= Now.memsz /\ stage' = "segment" /\ UNCHANGED <<bytes, err>>
    <3>1. \A a \in Span(Now) : a < from BY <1>0, <1>3, <2>1 DEF Span
    <3> QED BY <2>1, <3>1 DEF ElfTypes, NoFault
  <2>2. CASE stage' = "failed" /\ err' = "PageReserved" /\ UNCHANGED bytes BY <2>2 DEF ElfTypes
  <2>3. CASE /\ Written(from, n, [a \in from..(from + n - 1) |-> ZERO])
             /\ stage' = IF err' = "none" THEN "segment" ELSE "failed"
    <3>0. PICK val : val = [a \in from..(from + n - 1) |-> ZERO] BY Zenon
    <3>1. \A a \in from..(from + n - 1) : a \div PAGE_SIZE \in DOMAIN prot BY <1>4, <1>5
    <3>2. /\ UNCHANGED err /\ DOMAIN bytes' = Memory
          /\ \A a \in Memory : bytes'[a] = IF a \in from..(from + n - 1) THEN val[a] ELSE bytes[a]
      <4>1. Written(from, n, val) BY <2>3, <3>0
      <4> QED BY <1>5, <3>1, <4>1, WrittenIs
    <3>3. ASSUME NEW a \in Span(Now) PROVE a < from <=> a \notin from..(from + n - 1)
      <4>1. a \in Int /\ a < Now.vaddr + Now.memsz BY <1>3 DEF Span
      <4>2. from + n = Now.vaddr + Now.memsz BY <1>0, <1>3
      <4> QED BY <1>5, <4>1, <4>2
    <3>4. \A a \in Span(Now) : bytes'[a] = IF a < from THEN bytes[a] ELSE ZERO BY <1>4, <3>0, <3>2, <3>3
    <3>5. \A a \in Memory : a \notin Span(Now) => bytes'[a] = bytes[a] BY <1>5, <3>2
    <3> QED BY <2>3, <3>2, <3>4, <3>5 DEF NoFault
  <2> QED BY <1>2, <2>1, <2>2, <2>3
<1>7. CASE stage' = "failed"
  <2>1. addr' \in Nat /\ remain' \in Nat BY <1>1, <1>3
  <2> QED BY <1>1, <1>6, <1>7, <2>1, FailStep
<1>8. CASE stage' = "segment"
  <2>1. Loads' = Loads /\ Disjoint' = Disjoint /\ Loads \subseteq Nat /\ seg \in Nat BY <1>1 DEF Loads, Disjoint, ElfTypes
  <2>2. \A j \in Loads : (j < seg' <=> j < seg \/ j = seg) BY <1>1, <2>1
  <2>3. ElfTypes' BY <1>1, <1>6, <1>8, <2>1 DEF ElfTypes
  <2>4. \A j \in Loads : Begun(j)' <=> Begun(j) BY <1>1, <1>8, <2>2 DEF Begun
  <2>5. PageInv'
    <3>1. \A p : \A j \in Loads : Suits(image[j], p)' <=> Suits(image[j], p) BY <1>1 DEF Suits
    <3> QED BY <1>1, <1>8, <2>1, <2>4, <3>1, Zenon DEF PageInv
  <2>6. ASSUME Disjoint, NEW j \in Loads, j < seg', NEW a \in Span(image[j]) PROVE bytes'[a] = Value(image[j], a)
    <3>1. CASE j < seg
      <4>1. a \in Memory /\ a \notin Span(Now) BY <1>1, <2>6, <3>1, AtCopy
      <4>2. bytes'[a] = bytes[a] BY <1>6, <1>8, <4>1
      <4> QED BY <1>1, <2>6, <3>1, <4>2 DEF ByteInv
    <3>2. CASE j = seg
      <4>1. image[j] = Now /\ a \in Span(Now) BY <3>2 DEF Now
      <4>2. bytes'[a] = IF a < from THEN bytes[a] ELSE ZERO BY <1>6, <1>8, <4>1
      <4>3. a \in Now.vaddr..(Now.vaddr + Now.memsz - 1) BY <4>1 DEF Span
      <4>4. CASE a < from
        <5>1. a \in Now.vaddr..(addr - 1) BY <1>0, <1>3, <4>3, <4>4
        <5> QED BY <1>1, <2>6, <4>1, <4>2, <4>4, <5>1 DEF ByteInv
      <4>5. CASE ~(a < from)
        <5>1. ~(a - Now.vaddr < Now.filesz) BY <1>0, <1>3, <4>3, <4>5
        <5> QED BY <4>1, <4>2, <4>5, <5>1 DEF Value
      <4> QED BY <4>4, <4>5
    <3> QED BY <2>2, <2>6, <3>1, <3>2
  <2>7. ByteInv' BY <1>1, <1>8, <2>1, <2>6, Zenon DEF ByteInv
  <2> QED BY <1>6, <1>8, <2>3, <2>5, <2>7 DEF ElfInv, CopyInv, NoFault
<1> QED BY <1>6, <1>7, <1>8

LEMMA ElfStep ==
    ASSUME ElfInv, [elfNext]_elfVars
    PROVE  ElfInv'
<1>1. CASE elfNext
  <2>1. from_io \/ NextSegment \/ alloc_static \/ CopyBuf \/ clear_memory BY <1>1, Zenon DEF elfNext
  <2> QED BY <2>1, FromIoStep, NextSegmentStep, AllocStep, CopyStep, ClearStep
<1>2. CASE UNCHANGED elfVars
  <2>1. UNCHANGED image /\ UNCHANGED stage /\ UNCHANGED seg /\ UNCHANGED addr /\ UNCHANGED remain
        /\ UNCHANGED allocated_page /\ UNCHANGED prot /\ UNCHANGED bytes /\ UNCHANGED err BY <1>2 DEF elfVars
  <2>2. ElfTypes /\ PageInv /\ CopyInv /\ ByteInv /\ NoFault BY DEF ElfInv
  <2>3. Loads' = Loads /\ Now' = Now /\ Disjoint' = Disjoint BY <2>1 DEF Loads, Now, Disjoint
  <2>4. \A j \in Loads : Begun(j)' <=> Begun(j) BY <2>1 DEF Begun
  <2>5. \A p : \A j \in Loads : Suits(image[j], p)' <=> Suits(image[j], p) BY <2>1 DEF Suits
  <2>6. ElfTypes' BY <2>1, <2>2, <2>3 DEF ElfTypes
  <2>7. PageInv' BY <2>1, <2>2, <2>3, <2>4, <2>5, Zenon DEF PageInv
  <2>8. CopyInv' BY <2>1, <2>2, <2>3 DEF CopyInv
  <2>9. ByteInv' BY <2>1, <2>2, <2>3 DEF ByteInv
  <2> QED BY <2>1, <2>2, <2>6, <2>7, <2>8, <2>9 DEF ElfInv, NoFault
<1> QED BY <1>1, <1>2

(* ElfFile::load over ElfLoader, for any image and page size: a loaded     *)
(* image has exactly the pages of its segments and, where these do not     *)
(* overlap, the file's bytes and zeros; no copy meets a missing page.      *)
THEOREM LoadIsSafe == elfSpec => []LoadSafe
<1>1. elfInit => ElfInv BY ElfInitial
<1>2. ElfInv /\ [elfNext]_elfVars => ElfInv' BY ElfStep
<1>3. ElfInv => LoadSafe BY ElfInvSafe
<1> QED BY <1>1, <1>2, <1>3, PTL DEF elfSpec
==============================================================================
