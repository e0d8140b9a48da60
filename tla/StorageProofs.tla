---------------------------- MODULE StorageProofs ----------------------------
(*************************************************************************)
(* Proofs about storage: where a FAT32 file system lies on a device of   *)
(* any size, and the requests of any number of tasks to a disk.          *)
(*************************************************************************)
EXTENDS Fat32Layout, BlockDevices, TLAPS

(* A leaf names a prover only where the default order, Zenon and then SMT, *)
(* does not find its proof soon.                                           *)
USE ZenonT(5), SMTT(30)

-----------------------------------------------------------------------------
(* The layout of FAT32.                                                   *)
-----------------------------------------------------------------------------

(* A division by a positive constant, as the inequalities that define it.  *)
LEMMA DivBy8 == \A a \in Nat : /\ a \div 8 \in Nat
                               /\ 8 * (a \div 8) <= a /\ a < 8 * (a \div 8) + 8
OBVIOUS

LEMMA DivBy128 == \A a \in Nat : /\ a \div 128 \in Nat /\ a % 128 = a - 128 * (a \div 128)
                                 /\ 128 * (a \div 128) <= a /\ a < 128 * (a \div 128) + 128
OBVIOUS

LEMMA DivBy1026 == \A a \in Nat : /\ a \div 1026 \in Nat
                                  /\ 1026 * (a \div 1026) <= a /\ a < 1026 * (a \div 1026) + 1026
OBVIOUS

(* The groups of a device of n blocks, as inequalities: what is left after *)
(* them has at most 127 clusters of its own.                               *)
LEMMA Groups ==
  ASSUME NEW n \in Nat, n >= 2
  PROVE  /\ group_count(n) \in Nat /\ group_rest(n) \in 0..1025
         /\ n + 14 = 1026 * group_count(n) + group_rest(n)
         /\ remain_cluster(n) \in 0..127 /\ remain_block_count(n) \in Nat
         /\ group_rest(n) > 2 => remain_block_count(n) = group_rest(n) - 2 - 8 * remain_cluster(n)
         /\ group_rest(n) <= 2 => remain_cluster(n) = 0 /\ remain_block_count(n) = group_rest(n)
<1> DEFINE v == virtual_block_count(n)
<1>1. v \in Nat /\ v = n + 14
  BY DEF virtual_block_count, sectors_per_cluster
<1>2. sector_per_group = 1026
  BY DEF sector_per_group, cluster_per_fat, sectors_per_cluster
<1>3. /\ group_count(n) \in Nat
      /\ 1026 * group_count(n) <= v /\ v < 1026 * group_count(n) + 1026
  BY <1>1, <1>2, DivBy1026 DEF group_count
<1>4. group_rest(n) = v - 1026 * group_count(n)
  BY <1>2 DEF group_rest
<1>5. group_rest(n) \in 0..1025
  BY <1>1, <1>3, <1>4
<1>6. CASE group_rest(n) > 2
  <2>1. group_rest(n) - 2 \in Nat
    BY <1>5, <1>6
  <2>2. remain_cluster(n) = (group_rest(n) - 2) \div 8
    BY <1>6 DEF remain_cluster, sectors_per_cluster
  <2>3. /\ remain_cluster(n) \in Nat /\ 8 * remain_cluster(n) <= group_rest(n) - 2
    BY <2>1, <2>2, DivBy8
  <2>4. remain_block_count(n) = group_rest(n) - 2 - 8 * remain_cluster(n)
    BY <1>6, <1>5, <2>3 DEF remain_block_count, sectors_per_cluster
  <2> QED
    BY <1>1, <1>3, <1>4, <1>5, <1>6, <2>3, <2>4
<1>7. CASE group_rest(n) <= 2
  <2>1. remain_cluster(n) = 0 /\ remain_block_count(n) = group_rest(n)
    BY <1>5, <1>7 DEF remain_cluster, remain_block_count
  <2> QED
    BY <1>1, <1>3, <1>4, <1>5, <1>7, <2>1
<1> QED
  BY <1>5, <1>6, <1>7

(* The clusters and the FAT of a device that can be formatted.             *)
LEMMA Sizes ==
  ASSUME NEW n \in Nat, Formatted(n)
  PROVE  /\ n >= 2 /\ cluster_total(n) \in Nat /\ cluster_total(n) >= 2
         /\ cluster_total(n) = 128 * group_count(n) + remain_cluster(n) - 2
         /\ fat_size_32(n) \in Nat
         /\ 128 * fat_size_32(n) <= cluster_total(n) + 127
         /\ cluster_total(n) + 127 < 128 * fat_size_32(n) + 128
<1>1. n >= 2 /\ cluster_total(n) >= 2
  BY DEF Formatted
<1>2. group_count(n) \in Nat /\ remain_cluster(n) \in 0..127
  BY <1>1, Groups
<1>3. cluster_per_fat = 128
  BY DEF cluster_per_fat
<1>4. /\ cluster_total(n) \in Nat
      /\ cluster_total(n) = 128 * group_count(n) + remain_cluster(n) - 2
  BY <1>1, <1>2, <1>3 DEF cluster_total
<1>5. /\ fat_size_32(n) = (cluster_total(n) + 127) \div 128
      /\ cluster_total(n) + 127 \in Nat
  BY <1>3, <1>4 DEF fat_size_32
<1> QED
  BY <1>1, <1>4, <1>5, DivBy128

(* What format uses of a device, in the numbers of the two lemmas above.   *)
LEMMA Used ==
  ASSUME NEW n \in Nat, Formatted(n)
  PROVE  /\ reserved_sector_count(n) \in Nat
         /\ n - (reserved_sector_count(n) + 2 * fat_size_32(n) + 8 * cluster_total(n))
              = 2 * group_count(n) - 2 * fat_size_32(n) + (IF group_rest(n) > 2 THEN 2 ELSE 0)
<1> DEFINE g == group_count(n)
           r == group_rest(n)
           c == remain_cluster(n)
           b == remain_block_count(n)
           f == fat_size_32(n)
           k == cluster_total(n)
<1>1. /\ g \in Nat /\ r \in 0..1025 /\ c \in 0..127 /\ b \in Nat
      /\ n + 14 = 1026 * g + r
      /\ r > 2 => b = r - 2 - 8 * c
      /\ r <= 2 => c = 0 /\ b = r
  BY Groups, Sizes
<1>2. f \in Nat /\ k \in Nat /\ k = 128 * g + c - 2
  BY Sizes, ZenonT(30)
<1>3. reserved_sector_count(n) = 2 + b
  BY DEF reserved_sector_count
<1>4. n \in Nat
  OBVIOUS
<1> HIDE DEF g, r, c, b, f, k
<1>5. CASE r > 2
  <2>1. b = r - 2 - 8 * c
    BY <1>1, <1>5
  <2>2. n - (2 + b + 2 * f + 8 * k) = 2 * g - 2 * f + 2
    BY ONLY <1>1, <1>2, <1>4, <2>1
  <2> QED
    BY <1>1, <1>3, <1>5, <2>2 DEF g, r, f, k
<1>6. CASE r <= 2
  <2>1. c = 0 /\ b = r
    BY <1>1, <1>6
  <2>2. n - (2 + b + 2 * f + 8 * k) = 2 * g - 2 * f
    BY ONLY <1>1, <1>2, <1>4, <2>1
  <2> QED
    BY <1>1, <1>2, <1>3, <1>6, <2>2 DEF g, r, f, k
<1> QED
  BY <1>1, <1>5, <1>6

(* The FAT has as many sectors as there are groups, or one more.           *)
LEMMA FatSize ==
  ASSUME NEW n \in Nat, Formatted(n)
  PROVE  /\ group_rest(n) <= 2 => fat_size_32(n) = group_count(n)
         /\ fat_size_32(n) \in {group_count(n), group_count(n) + 1}
<1>1. /\ group_count(n) \in Nat /\ remain_cluster(n) \in 0..127
      /\ group_rest(n) <= 2 => remain_cluster(n) = 0
  BY Groups, Sizes
<1>2. /\ fat_size_32(n) \in Nat
      /\ 128 * fat_size_32(n) <= 128 * group_count(n) + remain_cluster(n) + 125
      /\ 128 * group_count(n) + remain_cluster(n) + 125 < 128 * fat_size_32(n) + 128
  BY <1>1, Sizes
<1> QED
  BY ONLY <1>1, <1>2

(* For a device of any size, the reserved sectors, the two FATs and the    *)
(* clusters that format lays out end within the device.                    *)
THEOREM LayoutWithinDevice == laySpec => []LayoutFits
<1> DEFINE Inv == block_count \in Nat
<1>1. layInit => Inv
  BY DEF layInit
<1>2. Inv /\ [layNext]_block_count => Inv'
  BY DEF layNext
<1>3. Inv => LayoutFits
  <2> SUFFICES ASSUME Inv, Formatted(block_count)
               PROVE  LET u == reserved_sector_count(block_count) + 2 * fat_size_32(block_count)
                               + sectors_per_cluster * cluster_total(block_count)
                      IN  u <= block_count /\ block_count <= u + 2
    BY DEF LayoutFits
  <2>1. sectors_per_cluster = 8
    BY DEF sectors_per_cluster
  <2>2. group_count(block_count) \in Nat /\ group_rest(block_count) \in 0..1025
    BY Groups, Sizes
  <2>3. cluster_total(block_count) \in Nat /\ fat_size_32(block_count) \in Nat
    BY Sizes
  <2> QED
    BY <2>1, <2>2, <2>3, Used, FatSize
<1> QED
  BY <1>1, <1>2, <1>3, PTL DEF laySpec

(* A formatted device of any size mounts, and mount counts the clusters    *)
(* format made, except when these fill the FAT or miss it by one.          *)
THEOREM RemountCountsSame == laySpec => []RemountAgrees
<1> DEFINE Inv == block_count \in Nat
<1>1. layInit => Inv
  BY DEF layInit
<1>2. Inv /\ [layNext]_block_count => Inv'
  BY DEF layNext
<1>3. Inv => RemountAgrees
  <2> SUFFICES ASSUME Inv, Formatted(block_count)
               PROVE  LET n == block_count
                          short == cluster_total(n) % cluster_per_fat \in {0, cluster_per_fat - 1}
                      IN  /\ check_bpb(n)
                          /\ short <=> fat_limit(n) < cluster_total(n)
                          /\ ~short => max_cluster(n) = cluster_total(n)
    BY DEF RemountAgrees
  <2> DEFINE n == block_count
             k == cluster_total(n)
             f == fat_size_32(n)
             d == reserved_sector_count(n)
  <2>1. sectors_per_cluster = 8 /\ cluster_per_fat = 128
    BY DEF sectors_per_cluster, cluster_per_fat
  <2>2. /\ n \in Nat /\ k \in Nat /\ k >= 2 /\ f \in Nat /\ d \in Nat
        /\ 128 * f <= k + 127 /\ k + 127 < 128 * f + 128
    BY Sizes, Used
  <2>3. d + 2 * f + 8 * k <= n /\ n <= d + 2 * f + 8 * k + 2
    <3>1. group_count(n) \in Nat /\ group_rest(n) \in 0..1025
      BY Groups, Sizes
    <3> QED
      BY <2>2, <3>1, Used, FatSize
  <2>4. check_bpb(n)
    BY <2>2, <2>3 DEF check_bpb
  <2>5. /\ k \div 128 \in Nat /\ k % 128 = k - 128 * (k \div 128)
        /\ 128 * (k \div 128) <= k /\ k < 128 * (k \div 128) + 128
    BY <2>2, DivBy128
  <2>6. fat_limit(n) = 128 * f - 2
    BY <2>1, <2>2 DEF fat_limit
  <2>7. k % 128 \in {0, 127} <=> 128 * f - 2 < k
    BY ONLY <2>2, <2>5
  <2>8. device_limit(n) = k
    <3>1. n - d - f * 2 \in Nat /\ 8 * k <= n - d - f * 2 /\ n - d - f * 2 < 8 * k + 8
      BY ONLY <2>2, <2>3
    <3>2. device_limit(n) = (n - d - f * 2) \div 8
      BY <2>1 DEF device_limit
    <3>3. /\ (n - d - f * 2) \div 8 \in Nat
          /\ 8 * ((n - d - f * 2) \div 8) <= n - d - f * 2
          /\ n - d - f * 2 < 8 * ((n - d - f * 2) \div 8) + 8
      BY <3>1, DivBy8
    <3> QED
      BY <2>2, <3>1, <3>2, <3>3
  <2> QED
    BY <2>1, <2>2, <2>4, <2>6, <2>7, <2>8 DEF max_cluster
<1> QED
  BY <1>1, <1>2, <1>3, PTL DEF laySpec

(* The layout with_format writes ends within its device, and mount counts  *)
(* the clusters it made, but for the sizes RemountAgrees excepts.          *)
THEOREM LayoutIsSafe == laySpec => []LayoutSafe
BY LayoutWithinDevice, RemountCountsSame, PTL DEF LayoutSafe

-----------------------------------------------------------------------------
(* Requests to a disk.                                                    *)
-----------------------------------------------------------------------------

(* The boot task and the empty slot are told apart from every caller.        *)
LEMMA TasksApart == Boot \in Tasks /\ Boot \notin Callers /\ None \notin Tasks
  BY BlockAssumption DEF Boot, Tasks, None

(* A request put behind another: the sequence seen by index.                 *)
LEMMA Behind ==
    ASSUME NEW S, NEW a \in S, NEW q \in Seq(S)
    PROVE  /\ <<a>> \o q \in Seq(S) /\ Len(<<a>> \o q) = Len(q) + 1
           /\ (<<a>> \o q)[1] = a
           /\ \A k \in 1 .. Len(q) : (<<a>> \o q)[k + 1] = q[k]
  OBVIOUS

LEMMA BehindIs ==
    ASSUME NEW S, NEW a \in S, NEW q \in Seq(S), NEW l \in Seq(S), Len(l) = Len(q) + 1, l[1] = a,
           \A k \in 1 .. Len(q) : l[k + 1] = q[k]
    PROVE  l = <<a>> \o q
<1>1. \A k \in 1 .. Len(l) : l[k] = (<<a>> \o q)[k]
  <2> TAKE k \in 1 .. Len(l)
  <2>1. CASE k = 1
    BY <2>1, Behind
  <2>2. CASE k # 1
    <3>1. k - 1 \in 1 .. Len(q) /\ k = (k - 1) + 1
      BY <2>2
    <3> QED
      BY <3>1, Behind
  <2> QED
    BY <2>1, <2>2
<1>2. <<a>> \o q \in Seq(S) /\ Len(<<a>> \o q) = Len(l)
  BY Behind
<1>3. l = [k \in 1 .. Len(l) |-> l[k]] /\ <<a>> \o q = [k \in 1 .. Len(l) |-> (<<a>> \o q)[k]]
  BY <1>2
<1> QED
  BY <1>1, <1>3, Zenon

(* The line by index: the request in flight, then the queue.                 *)
Lined ==
    /\ inflight = None => line = <<>> /\ queue = <<>> /\ drive.phase = "idle"
    /\ inflight # None =>
         /\ drive.of = inflight
         /\ Len(line) = Len(queue) + 1 /\ line[1] = inflight
         /\ \A k \in 1 .. Len(queue) : line[k + 1] = queue[k]

LEMMA LinedIs ==
    ASSUME inflight \in Tasks \cup {None}, queue \in Seq(Tasks), line \in Seq(Tasks),
           inflight = None => queue = <<>>
    PROVE  InOrder <=> Lined
<1>1. ASSUME inflight = None
      PROVE  InOrder <=> Lined
  BY <1>1 DEF InOrder, Lined
<1>2. ASSUME inflight # None
      PROVE  InOrder <=> Lined
  <2>1. inflight \in Tasks
    BY <1>2
  <2>2. ASSUME InOrder PROVE Lined
    <3>1. line = <<inflight>> \o queue /\ drive.of = inflight
      BY <1>2, <2>2 DEF InOrder
    <3> QED
      BY <1>2, <2>1, <3>1, Behind DEF Lined
  <2>3. ASSUME Lined PROVE InOrder
    <3>1. line = <<inflight>> \o queue
      BY <1>2, <2>1, <2>3, BehindIs DEF Lined
    <3>2. line # <<>>
      BY <1>2, <2>3 DEF Lined
    <3> QED
      BY <1>2, <2>3, <3>1, <3>2 DEF InOrder, Lined
  <2> QED
    BY <2>2, <2>3
<1> QED
  BY <1>1, <1>2

Waiting(t) == \E k \in DOMAIN line : line[k] = t

(* What the queue, the drive and the requests keep among themselves.         *)
QueueInv == QueueTypes /\ Lined /\ LineInv /\ DriveInv

(* A request submitted by a task that has none in line joins its end, or is  *)
(* sent to an idle drive.                                                    *)
LEMMA Submits ==
    ASSUME QueueInv, truth \in [Tasks -> [error : BOOLEAN, data : Int]],
           NEW t \in Tasks, NEW r \in Requests, ~r.done, Submit(t, r), ~Waiting(t), call'[t].op # "none",
           \A u \in Tasks \ {t} : call'[u] = call[u], UNCHANGED <<irq, truth>>
    PROVE  /\ QueueInv'
           /\ req'[t] = r /\ \A u \in Tasks \ {t} : req'[u] = req[u]
<1>1. inflight \in Tasks \cup {None} /\ queue \in Seq(Tasks) /\ line \in Seq(Tasks) /\ req \in [Tasks -> Requests]
      /\ drive \in Drives /\ irq \in BOOLEAN
  BY DEF QueueInv, QueueTypes
<1>3. req' \in [Tasks -> Requests] /\ req'[t] = r /\ \A u \in Tasks \ {t} : req'[u] = req[u]
  <2>1. req' = [req EXCEPT ![t] = r]
    BY DEF Submit
  <2> QED
    BY <1>1, <2>1
<1>4. line' = Append(line, t)
  BY DEF Submit
<1>5. /\ line' \in Seq(Tasks) /\ Len(line') = Len(line) + 1 /\ line'[Len(line) + 1] = t
      /\ \A k \in 1 .. Len(line) : line'[k] = line[k]
  BY <1>1, <1>4
<1>6. DOMAIN line = 1 .. Len(line) /\ DOMAIN line' = 1 .. Len(line') /\ Len(line) \in Nat
  BY <1>1, <1>5
<1>7. LineInv'
  <2>1. \A j, k \in DOMAIN line' : line'[j] = line'[k] => j = k
    BY <1>5, <1>6 DEF QueueInv, LineInv, Waiting
  <2>2. ASSUME NEW k \in DOMAIN line'
        PROVE  call'[line'[k]].op # "none" /\ ~req'[line'[k]].done
    <3>1. CASE k \in DOMAIN line
      <4>1. line'[k] = line[k] /\ line[k] \in Tasks \ {t}
        BY <1>1, <1>5, <1>6, <3>1 DEF Waiting
      <4> QED
        BY <1>3, <3>1, <4>1, ZenonT(30) DEF QueueInv, LineInv
    <3>2. CASE k = Len(line) + 1
      BY <1>3, <1>5, <3>2
    <3> QED
      BY <1>5, <1>6, <3>1, <3>2
  <2> QED
    BY <2>1, <2>2 DEF LineInv
<1>8. CASE inflight # None
  <2>1. queue' = Append(queue, t) /\ inflight' = inflight /\ drive' = drive
    BY <1>8 DEF Submit
  <2>2. queue' \in Seq(Tasks) /\ Len(queue') = Len(queue) + 1 /\ queue'[Len(queue) + 1] = t /\ Len(queue) \in Nat
        /\ \A k \in 1 .. Len(queue) : queue'[k] = queue[k]
    BY <1>1, <2>1
  <2>3. Len(line) = Len(queue) + 1 /\ line[1] = inflight /\ drive.of = inflight
        /\ \A k \in 1 .. Len(queue) : line[k + 1] = queue[k]
    BY <1>8 DEF QueueInv, Lined
  <2>4. ASSUME NEW k \in 1 .. Len(queue')
        PROVE  line'[k + 1] = queue'[k]
    <3>1. CASE k = Len(queue) + 1
      BY <1>5, <2>2, <2>3, <3>1
    <3>2. CASE k \in 1 .. Len(queue)
      <4>1. k + 1 \in 1 .. Len(line)
        BY <2>2, <2>3, <3>2
      <4> QED
        BY <1>5, <2>2, <2>3, <3>2, <4>1
    <3> QED
      BY <2>2, <3>1, <3>2
  <2>5. line'[1] = inflight
    BY <1>5, <2>2, <2>3
  <2>6. Lined'
    BY <1>5, <1>8, <2>1, <2>2, <2>3, <2>4, <2>5 DEF Lined
  <2>7. inflight \in Tasks \ {t}
    <3>1. 1 \in DOMAIN line
      BY <1>6, <2>2, <2>3
    <3> QED
      BY <1>1, <1>8, <2>3, <3>1 DEF Waiting
  <2>8. DriveInv'
    BY <1>3, <1>8, <2>1, <2>7 DEF QueueInv, DriveInv
  <2>9. QueueTypes'
    BY <1>1, <1>3, <1>5, <2>1, <2>2 DEF QueueTypes
  <2> QED
    BY <1>3, <1>7, <2>6, <2>8, <2>9 DEF QueueInv
<1>9. CASE inflight = None
  <2>1. /\ drive' = [phase |-> "busy", of |-> t, err |-> FALSE, port |-> 0]
        /\ inflight' = t /\ queue' = queue
    BY <1>9 DEF Submit, send_io_command
  <2>2. queue = <<>> /\ line = <<>> /\ drive.phase = "idle"
    BY <1>9 DEF QueueInv, Lined
  <2>3. drive' \in Drives /\ drive'.phase = "busy" /\ drive'.of = t /\ t # None
    BY <2>1, TasksApart DEF Drives
  <2>4. Len(queue) = 0 /\ Len(line) = 0
    BY <2>2
  <2>5. Lined'
    BY <1>5, <2>1, <2>3, <2>4 DEF Lined
  <2>6. ~irq
    BY <2>2 DEF QueueInv, DriveInv
  <2>7. DriveInv'
    BY <2>1, <2>3, <2>6 DEF DriveInv
  <2>8. QueueTypes'
    BY <1>1, <1>3, <1>5, <2>1, <2>3 DEF QueueTypes
  <2> QED
    BY <1>3, <1>7, <2>5, <2>7, <2>8 DEF QueueInv
<1> QED
  BY <1>8, <1>9

(* A task that has no request in line may begin or end a call beside it.     *)
LEMMA Beside ==
    ASSUME QueueInv, NEW t \in Tasks, ~Waiting(t), req' \in [Tasks -> Requests],
           \A u \in Tasks \ {t} : call'[u] = call[u] /\ req'[u] = req[u],
           UNCHANGED <<inflight, queue, drive, line, irq, truth>>
    PROVE  QueueInv'
<1>1. inflight \in Tasks \cup {None} /\ queue \in Seq(Tasks) /\ line \in Seq(Tasks)
  BY DEF QueueInv, QueueTypes
<1>2. \A k \in DOMAIN line : line[k] \in Tasks \ {t}
  BY <1>1 DEF Waiting
<1>3. LineInv'
  BY <1>2 DEF QueueInv, LineInv
<1>4. Lined'
  BY DEF QueueInv, Lined
<1>5. QueueTypes'
  BY DEF QueueInv, QueueTypes
<1>6. DriveInv'
  <2>1. CASE inflight = None
    BY <2>1 DEF QueueInv, DriveInv, Lined
  <2>2. CASE inflight # None
    <3>1. line[1] = inflight /\ 1 \in DOMAIN line
      BY <1>1, <2>2 DEF QueueInv, Lined
    <3> QED
      BY <1>2, <2>2, <3>1 DEF QueueInv, DriveInv
  <2> QED
    BY <2>1, <2>2
<1> QED
  BY <1>3, <1>4, <1>5, <1>6 DEF QueueInv

(* What the tasks, the tables and the blocks keep.                           *)
DataInv ==
    /\ table \in [Callers -> Table] /\ media \in [0 .. Blocks - 1 -> Int]
    /\ call \in [Tasks -> CallStates] /\ truth \in [Tasks -> [error : BOOLEAN, data : Int]]
    /\ stray \in BOOLEAN
    /\ BootInv /\ CallInv /\ (\A c \in Callers : FormatOk(table[c]))
    /\ AnswerIsDrives /\ ErrorsReported /\ PartitionsApart /\ FormatMounts

LEMMA BlkHalves == BlkInv <=> QueueInv /\ DataInv
<1>1. ASSUME QueueTypes, DriveInv
      PROVE  InOrder <=> Lined
  BY <1>1, LinedIs DEF QueueTypes, DriveInv
<1> QED
  BY <1>1 DEF BlkInv, QueueInv, DataInv, BlkTypes, DiskSafe

(* A caller's step touches its own call and request only.                    *)
LEMMA CallerData ==
    ASSUME DataInv, NEW t \in Callers, call' \in [Tasks -> CallStates],
           stray' \in BOOLEAN, stray => stray',
           \A u \in Tasks \ {t} : call'[u] = call[u] /\ req'[u] = req[u],
           UNCHANGED <<table, media, disks, truth>>,
           CallOk(t)', req'[t].done => req'[t] = req[t],
           truth[t].error /\ call'[t].op = "none" => call'[t].answer # "ok"
    PROVE  DataInv'
<1>1. Boot \in Tasks \ {t} /\ t \in Tasks /\ Callers \subseteq Tasks
  BY TasksApart DEF Tasks
<1>2. BootInv' /\ FormatMounts'
  <2>1. call'[Boot] = call[Boot] /\ req'[Boot] = req[Boot]
    BY <1>1
  <2> QED
    BY <2>1 DEF DataInv, BootInv, FormatMounts
<1>3. CallInv'
  <2>1. ASSUME NEW u \in Callers \ {t}
        PROVE  CallOk(u)'
    <3>1. call'[u] = call[u] /\ req'[u] = req[u] /\ CallOk(u)
      BY <1>1, <2>1 DEF DataInv, CallInv
    <3> QED
      BY <3>1 DEF CallOk
  <2> QED
    BY <2>1 DEF CallInv
<1>4. AnswerIsDrives'
  BY <1>1 DEF DataInv, AnswerIsDrives
<1>5. ErrorsReported'
  BY <1>1, Zenon DEF DataInv, ErrorsReported
<1>6. PartitionsApart'
  BY DEF DataInv, PartitionsApart
<1> QED
  BY <1>2, <1>3, <1>4, <1>5, <1>6 DEF DataInv

(* So does the boot task's, until it mounts.                                 *)
LEMMA BootData ==
    ASSUME DataInv, call' \in [Tasks -> CallStates],
           \A u \in Callers : call'[u] = call[u] /\ req'[u] = req[u],
           UNCHANGED <<table, media, disks, truth, stray>>,
           BootInv', req'[Boot].done => req'[Boot] = req[Boot], call'[Boot].answer # "ok"
    PROVE  DataInv'
<1>1. \A u \in Tasks : u # Boot => u \in Callers
  BY DEF Tasks
<1>2. FormatMounts'
  BY DEF FormatMounts, BootInv
<1>3. CallInv'
  BY DEF DataInv, CallInv, CallOk
<1>4. AnswerIsDrives'
  BY <1>1, ZenonT(30) DEF DataInv, AnswerIsDrives
<1>5. ErrorsReported'
  BY DEF DataInv, ErrorsReported
<1>6. PartitionsApart'
  BY DEF DataInv, PartitionsApart
<1> QED
  BY <1>2, <1>3, <1>4, <1>5, <1>6 DEF DataInv

LEMMA NewReqIs ==
    ASSUME NEW op \in Ops, NEW lba \in Nat, NEW val \in Int
    PROVE  /\ NewReq(op, lba, val) \in Requests /\ NewReq(op, lba, val).op = op
           /\ NewReq(op, lba, val).lba = lba /\ NewReq(op, lba, val).val = val
           /\ ~NewReq(op, lba, val).done
  BY DEF NewReq, Requests

LEMMA IdentifyStep == QueueInv /\ DataInv /\ Identify => QueueInv' /\ DataInv'
<1> SUFFICES ASSUME QueueInv, DataInv, Identify PROVE QueueInv' /\ DataInv'
  OBVIOUS
<1>1. /\ call[Boot] = Idle /\ disks = <<>> /\ call' = [call EXCEPT ![Boot].op = "identify"]
      /\ UNCHANGED <<table, media, irq, disks, truth, stray>>
      /\ Submit(Boot, NewReq("identify", 0, 0))
  BY DEF Identify
<1>2. call \in [Tasks -> CallStates] /\ truth \in [Tasks -> [error : BOOLEAN, data : Int]] /\ Boot \in Tasks
  BY TasksApart DEF DataInv
<1>3. call' \in [Tasks -> CallStates] /\ call'[Boot].op = "identify" /\ call'[Boot].answer = "none"
      /\ \A u \in Tasks \ {Boot} : call'[u] = call[u]
  BY <1>1, <1>2 DEF CallStates, Idle, Ops
<1>4. ~Waiting(Boot)
  BY <1>1 DEF Idle, Waiting, QueueInv, LineInv
<1>5. /\ NewReq("identify", 0, 0) \in Requests /\ NewReq("identify", 0, 0).op = "identify"
      /\ ~NewReq("identify", 0, 0).done
  BY NewReqIs DEF Ops
<1>6. /\ QueueInv' /\ \A u \in Tasks \ {Boot} : req'[u] = req[u]
      /\ req'[Boot] = NewReq("identify", 0, 0)
  BY <1>1, <1>2, <1>3, <1>4, <1>5, Submits
<1>7. req'[Boot].op = "identify" /\ ~req'[Boot].done
  BY <1>5, <1>6
<1>8. BootInv'
  BY <1>1, <1>3, <1>7 DEF BootInv
<1>9. \A u \in Callers : u \in Tasks \ {Boot}
  BY TasksApart DEF Tasks
<1> QED
  BY <1>1, <1>3, <1>6, <1>7, <1>8, <1>9, BootData

LEMMA ReadTableStep == QueueInv /\ DataInv /\ ReadTable => QueueInv' /\ DataInv'
<1> SUFFICES ASSUME QueueInv, DataInv, ReadTable PROVE QueueInv' /\ DataInv'
  OBVIOUS
<1>1. /\ call[Boot].op = "identify" /\ req[Boot].done
      /\ UNCHANGED <<table, media, irq, disks, truth, stray>>
  BY DEF ReadTable
<1>2. call \in [Tasks -> CallStates] /\ truth \in [Tasks -> [error : BOOLEAN, data : Int]] /\ Boot \in Tasks
      /\ req \in [Tasks -> Requests]
  BY TasksApart DEF DataInv, QueueInv, QueueTypes
<1>3. ~Waiting(Boot)
  BY <1>1 DEF Waiting, QueueInv, LineInv
<1>4. \A u \in Callers : u \in Tasks \ {Boot}
  BY TasksApart DEF Tasks
<1>5. call[Boot].answer = "none" /\ disks = <<>> /\ req[Boot].op = "identify"
  BY <1>1 DEF DataInv, BootInv
<1>6. CASE req[Boot].error
  <2>1. /\ call' = [call EXCEPT ![Boot] = [Idle EXCEPT !.answer = "error"]]
        /\ UNCHANGED <<inflight, queue, req, drive, line>>
    BY <1>6 DEF ReadTable
  <2>2. [Idle EXCEPT !.answer = "error"] = [op |-> "none", next |-> 0, left |-> 0, answer |-> "error"]
    BY DEF Idle
  <2>3. call' \in [Tasks -> CallStates] /\ call'[Boot].op = "none" /\ call'[Boot].answer = "error"
        /\ \A u \in Tasks \ {Boot} : call'[u] = call[u]
    BY <1>2, <2>1, <2>2 DEF CallStates, Ops
  <2>4. QueueInv'
    BY <1>1, <1>2, <1>3, <2>1, <2>3, Beside
  <2>5. BootInv'
    BY <1>1, <1>5, <1>6, <2>1, <2>3 DEF BootInv
  <2> QED
    BY <1>1, <1>4, <2>1, <2>3, <2>4, <2>5, BootData
<1>7. CASE ~req[Boot].error
  <2>1. /\ Submit(Boot, NewReq("read", 0, 0))
        /\ call' = [call EXCEPT ![Boot].op = "mount", ![Boot].left = req[Boot].val]
    BY <1>7 DEF ReadTable
  <2>2. req[Boot].val = Blocks /\ Blocks \in Nat
    BY <1>1, <1>5, <1>7, BlockAssumption DEF DataInv, BootInv
  <2>3. /\ call' \in [Tasks -> CallStates] /\ call'[Boot].op = "mount" /\ call'[Boot].answer = "none"
        /\ call'[Boot].left = Blocks /\ \A u \in Tasks \ {Boot} : call'[u] = call[u]
    <3>1. call[Boot] \in CallStates
      BY <1>2
    <3> DEFINE c == [call[Boot] EXCEPT !.op = "mount", !.left = Blocks]
    <3>2. call' = [call EXCEPT ![Boot] = c]
      BY <1>2, <2>1, <2>2, Zenon
    <3>3. c \in CallStates /\ c.op = "mount" /\ c.left = Blocks /\ c.answer = call[Boot].answer
      BY <2>2, <3>1, Zenon DEF CallStates, Ops
    <3> HIDE DEF c
    <3> QED
      BY <1>2, <1>5, <3>2, <3>3
  <2>4. NewReq("read", 0, 0) \in Requests /\ NewReq("read", 0, 0).op = "read" /\ ~NewReq("read", 0, 0).done
    BY NewReqIs DEF Ops
  <2>5. /\ QueueInv' /\ \A u \in Tasks \ {Boot} : req'[u] = req[u]
        /\ req'[Boot] = NewReq("read", 0, 0)
    BY <1>1, <1>2, <1>3, <2>1, <2>3, <2>4, Submits, ZenonT(30)
  <2>6. req'[Boot].op = "read" /\ ~req'[Boot].done
    BY <2>4, <2>5
  <2>7. BootInv'
    BY <1>1, <1>5, <2>3, <2>6 DEF BootInv
  <2> QED
    BY <1>1, <1>4, <2>3, <2>5, <2>6, <2>7, BootData
<1> QED
  BY <1>6, <1>7

(* Before mount no caller has a call and no block but the table's is written. *)
LEMMA MountStep == QueueInv /\ DataInv /\ mount => QueueInv' /\ DataInv'
<1> SUFFICES ASSUME QueueInv, DataInv, mount PROVE QueueInv' /\ DataInv'
  OBVIOUS
<1>1. /\ call[Boot].op = "mount" /\ req[Boot].done /\ req' = [req EXCEPT ![Boot] = NoReq]
      /\ UNCHANGED <<inflight, queue, drive, line, table, media, irq, truth, stray>>
  BY DEF mount
<1>2. call \in [Tasks -> CallStates] /\ Boot \in Tasks /\ req \in [Tasks -> Requests]
  BY TasksApart DEF DataInv, QueueInv, QueueTypes
<1>3. ~Waiting(Boot)
  BY <1>1 DEF Waiting, QueueInv, LineInv
<1>4. \A u \in Callers : u \in Tasks \ {Boot}
  BY TasksApart DEF Tasks
<1>5. call[Boot].answer = "none" /\ disks = <<>> /\ call[Boot].left = Blocks
  BY <1>1 DEF DataInv, BootInv
<1>6. req' \in [Tasks -> Requests] /\ req'[Boot] = NoReq /\ \A u \in Tasks \ {Boot} : req'[u] = req[u]
  BY <1>1, <1>2 DEF NoReq, Requests, Ops
<1>7. req'[Boot].op = "none" /\ ~req'[Boot].done
  BY <1>6 DEF NoReq
<1>8. CASE req[Boot].error
  <2>1. call' = [call EXCEPT ![Boot] = [Idle EXCEPT !.answer = "error"]] /\ disks' = disks
    BY <1>8 DEF mount
  <2>2. [Idle EXCEPT !.answer = "error"] = [op |-> "none", next |-> 0, left |-> 0, answer |-> "error"]
    BY DEF Idle
  <2>3. call' \in [Tasks -> CallStates] /\ call'[Boot].op = "none" /\ call'[Boot].answer = "error"
        /\ \A u \in Tasks \ {Boot} : call'[u] = call[u]
    BY <1>2, <2>1, <2>2 DEF CallStates, Ops
  <2>4. QueueInv'
    BY <1>1, <1>2, <1>3, <1>6, <2>3, Beside
  <2>5. BootInv'
    BY <1>5, <1>7, <2>1, <2>3 DEF BootInv
  <2> QED
    BY <1>1, <1>4, <1>6, <1>7, <2>1, <2>3, <2>4, <2>5, BootData
<1>9. CASE ~req[Boot].error
  <2>1. /\ call' = [call EXCEPT ![Boot] = [Idle EXCEPT !.answer = "ok"]]
        /\ disks' = [t \in {c \in Callers : MountOk(table[c], Blocks)} |-> table[t]]
    BY <1>5, <1>9 DEF mount
  <2>2. [Idle EXCEPT !.answer = "ok"] = [op |-> "none", next |-> 0, left |-> 0, answer |-> "ok"]
    BY DEF Idle
  <2>3. call' \in [Tasks -> CallStates] /\ call'[Boot].op = "none" /\ call'[Boot].answer = "ok"
        /\ \A u \in Tasks \ {Boot} : call'[u] = call[u]
    BY <1>2, <2>1, <2>2 DEF CallStates, Ops
  <2>4. QueueInv'
    BY <1>1, <1>2, <1>3, <1>6, <2>3, Beside
  <2>5. DOMAIN disks = {}
    BY <1>5
  <2>6. /\ DOMAIN disks' = {c \in Callers : MountOk(table[c], Blocks)}
        /\ \A c \in DOMAIN disks' : disks'[c] = table[c]
    BY <2>1
  <2>7. BootInv'
    BY <1>1, <1>7, <2>3, <2>6 DEF BootInv, MountOk
  <2>8. FormatMounts'
    <3>1. ASSUME NEW c \in Callers, table[c].start < table[c].end
          PROVE  MountOk(table[c], Blocks)
      <4>1. table[c].start \in 1 .. Blocks /\ table[c].end \in 1 .. Blocks
        BY DEF DataInv, Table
      <4> QED
        BY <3>1, <4>1, BlockAssumption DEF MountOk
    <3> QED
      BY <1>1, <2>6, <3>1 DEF FormatMounts
  <2>9. CallInv' /\ ErrorsReported'
    <3>1. ASSUME NEW c \in Callers
          PROVE  call'[c] = call[c] /\ call[c].op = "none"
      BY <1>4, <2>3, <2>5 DEF DataInv, CallInv, CallOk
    <3> QED
      BY <1>1, <3>1 DEF CallInv, CallOk, DataInv, ErrorsReported
  <2>10. AnswerIsDrives'
    BY <1>1, <1>6, <1>7 DEF DataInv, AnswerIsDrives
  <2>11. PartitionsApart'
    <3>1. ASSUME ~stray PROVE media[0] = TableBlock /\ \A b \in 1 .. Blocks - 1 : media[b] = 0
      BY <2>5, <3>1 DEF DataInv, PartitionsApart
    <3> QED
      BY <1>1, <3>1 DEF PartitionsApart
  <2> QED
    BY <1>1, <2>3, <2>4, <2>7, <2>8, <2>9, <2>10, <2>11 DEF DataInv
<1> QED
  BY <1>8, <1>9

(* Only a mounted partition is in disks, as the table has it.                *)
LEMMA DiskIs ==
    ASSUME DataInv, NEW t \in DOMAIN disks
    PROVE  t \in Callers /\ disks[t].start \in Nat \ {0} /\ disks[t].end \in Nat /\ disks[t].end <= Blocks
<1>1. disks # <<>>
  OBVIOUS
<1>2. call[Boot].answer = "ok"
  BY <1>1 DEF DataInv, BootInv
<1>3. t \in Callers /\ disks[t] = table[t]
  BY <1>2 DEF DataInv, BootInv
<1>4. table[t] \in Table
  BY <1>3 DEF DataInv
<1> QED
  BY <1>3, <1>4, BlockAssumption DEF Table

LEMMA CallStep ==
    ASSUME QueueInv, DataInv, NEW t \in Callers, NEW op \in {"read", "write"}, NEW i \in Nat, NEW n \in Nat \ {0},
           NEW val \in Int, op = "write" => val = t, Call(t, op, i, n, val)
    PROVE  QueueInv' /\ DataInv'
<1> DEFINE p == disks[t]
<1>1. /\ call[t].op = "none" /\ t \in DOMAIN disks
      /\ stray' = (stray \/ ~InContract(p, i, n))
      /\ UNCHANGED <<table, media, irq, disks, truth>>
  BY DEF Call
<1>2. call \in [Tasks -> CallStates] /\ truth \in [Tasks -> [error : BOOLEAN, data : Int]] /\ t \in Tasks
      /\ req \in [Tasks -> Requests] /\ stray \in BOOLEAN
  BY DEF DataInv, QueueInv, QueueTypes, Tasks
<1>3. p.start \in Nat \ {0} /\ p.end \in Nat
  BY <1>1, DiskIs
<1>4. stray' \in BOOLEAN /\ (stray => stray') /\ (~stray' => InContract(p, i, n))
  BY <1>1, <1>2, Zenon
<1>5. ~Waiting(t)
  BY <1>1 DEF Waiting, QueueInv, LineInv
<1>6. CASE OutOfBounds(p, i, n)
  <2>1. call' = [call EXCEPT ![t].answer = "bounds"] /\ UNCHANGED <<inflight, queue, req, drive, line>>
    BY <1>6 DEF Call
  <2>2. call' \in [Tasks -> CallStates] /\ call'[t].op = "none" /\ call'[t].answer = "bounds"
        /\ \A u \in Tasks \ {t} : call'[u] = call[u]
    BY <1>1, <1>2, <2>1 DEF CallStates
  <2>3. QueueInv'
    BY <1>1, <1>2, <1>5, <2>1, <2>2, Beside
  <2>4. CallOk(t)'
    BY <2>2 DEF CallOk
  <2> QED
    BY <1>1, <1>4, <2>1, <2>2, <2>3, <2>4, CallerData
<1>7. CASE ~OutOfBounds(p, i, n)
  <2> DEFINE r == NewReq(op, Translate(p, i), val)
             c == [op |-> op, next |-> i + 1, left |-> n - 1, answer |-> "none"]
  <2>1. Submit(t, r) /\ call' = [call EXCEPT ![t] = c]
    BY <1>7 DEF Call
  <2>2. c \in CallStates /\ c.op = op /\ c.next = i + 1 /\ c.left = n - 1 /\ c.answer = "none"
    BY DEF CallStates, Ops
  <2>3. Translate(p, i) \in Nat /\ op \in Ops
    BY <1>3 DEF Translate, Ops
  <2>4. r \in Requests /\ r.op = op /\ r.lba = Translate(p, i) /\ r.val = val /\ ~r.done
    BY <2>3, NewReqIs
  <2> HIDE DEF r, c
  <2>5. call' \in [Tasks -> CallStates] /\ call'[t] = c /\ \A u \in Tasks \ {t} : call'[u] = call[u]
    BY <1>2, <2>1, <2>2
  <2>6. QueueInv' /\ req'[t] = r /\ \A u \in Tasks \ {t} : req'[u] = req[u]
    BY <1>1, <1>2, <1>5, <2>1, <2>2, <2>4, <2>5, Submits
  <2>7. InContract(p, i, n) => InContract(p, i + 1, n - 1)
    BY <1>3 DEF InContract, blocks_of
  <2>8. Translate(p, i) = Translate(p, (i + 1) - 1)
    BY DEF Translate
  <2>9. CallOk(t)'
    <3>1. t \in DOMAIN disks' /\ disks'[t] = p
      BY <1>1
    <3>2. call'[t].op = op /\ call'[t].next = i + 1 /\ call'[t].left = n - 1
      BY <2>2, <2>5
    <3>3. req'[t].op = op /\ req'[t].lba = Translate(p, call'[t].next - 1) /\ req'[t].val = val
      BY <2>4, <2>6, <2>8, <3>2
    <3>4. ~stray' => InContract(disks'[t], call'[t].next, call'[t].left)
      BY <1>4, <2>7, <3>1, <3>2
    <3> HIDE DEF p
    <3> QED
      BY <3>1, <3>2, <3>3, <3>4 DEF CallOk
  <2>10. call'[t].op # "none" /\ ~req'[t].done
    BY <2>2, <2>4, <2>5, <2>6
  <2> QED
    BY <1>1, <1>4, <2>5, <2>6, <2>9, <2>10, CallerData
<1> QED
  BY <1>6, <1>7

LEMMA PollStep ==
    ASSUME QueueInv, DataInv, NEW t \in Callers, Poll(t)
    PROVE  QueueInv' /\ DataInv'
<1> DEFINE p == disks[t]
<1>1. /\ call[t].op \in {"read", "write"} /\ req[t].done
      /\ UNCHANGED <<table, media, irq, disks, truth, stray>>
  BY DEF Poll
<1>2. call \in [Tasks -> CallStates] /\ truth \in [Tasks -> [error : BOOLEAN, data : Int]] /\ t \in Tasks
      /\ req \in [Tasks -> Requests] /\ stray \in BOOLEAN
  BY DEF DataInv, QueueInv, QueueTypes, Tasks
<1>3. CallOk(t) /\ t \in DOMAIN disks
  BY <1>1 DEF DataInv, CallInv, CallOk
<1>4. p.start \in Nat \ {0} /\ p.end \in Nat
  BY <1>3, DiskIs
<1>5. ~Waiting(t)
  BY <1>1 DEF Waiting, QueueInv, LineInv
<1>6. call[t] \in CallStates /\ req[t] \in Requests
  BY <1>2
<1>7. CASE req[t].error \/ call[t].left = 0
  <2> DEFINE a == IF req[t].error THEN "error" ELSE "ok"
             c == [Idle EXCEPT !.answer = a]
  <2>1. call' = [call EXCEPT ![t] = c] /\ req' = [req EXCEPT ![t] = NoReq] /\ UNCHANGED <<inflight, queue, drive, line>>
    BY <1>7 DEF Poll
  <2>2. c \in CallStates /\ c.op = "none" /\ c.answer = a
    BY DEF Idle, CallStates, Ops
  <2>3. NoReq \in Requests /\ ~NoReq.done
    BY DEF NoReq, Requests, Ops
  <2>4. truth[t].error => a # "ok"
    BY <1>1, <1>2 DEF DataInv, AnswerIsDrives
  <2> HIDE DEF c, a
  <2>5. call' \in [Tasks -> CallStates] /\ call'[t] = c /\ \A u \in Tasks \ {t} : call'[u] = call[u]
    BY <1>2, <2>1, <2>2
  <2>6. req' \in [Tasks -> Requests] /\ req'[t] = NoReq /\ \A u \in Tasks \ {t} : req'[u] = req[u]
    BY <1>2, <2>1, <2>3
  <2>7. QueueInv'
    BY <1>1, <1>2, <1>5, <2>1, <2>5, <2>6, Beside
  <2>8. CallOk(t)'
    BY <2>2, <2>5 DEF CallOk
  <2> QED
    BY <1>1, <1>2, <2>2, <2>3, <2>4, <2>5, <2>6, <2>7, <2>8, CallerData
<1>8. CASE ~(req[t].error \/ call[t].left = 0)
  <2> DEFINE r == NewReq(call[t].op, Translate(p, call[t].next), req[t].val)
             c == [call[t] EXCEPT !.next = @ + 1, !.left = @ - 1]
  <2>1. Submit(t, r) /\ call' = [call EXCEPT ![t] = c]
    BY <1>2, <1>8, Zenon DEF Poll
  <2>2. call[t].next \in Nat /\ call[t].left \in Nat \ {0} /\ call[t].op \in Ops /\ req[t].val \in Int
    BY <1>1, <1>6, <1>8 DEF CallStates, Requests, Ops
  <2>3. c \in CallStates /\ c.op = call[t].op /\ c.next = call[t].next + 1 /\ c.left = call[t].left - 1
    <3> DEFINE d == [call[t] EXCEPT !.next = call[t].next + 1]
    <3>1. d \in CallStates /\ d.op = call[t].op /\ d.next = call[t].next + 1 /\ d.left = call[t].left
      BY <1>6, <2>2 DEF CallStates
    <3>2. c = [d EXCEPT !.left = d.left - 1]
      OBVIOUS
    <3> HIDE DEF c, d
    <3> QED
      BY <2>2, <3>1, <3>2 DEF CallStates
  <2>4. Translate(p, call[t].next) \in Nat
    BY <1>4, <2>2 DEF Translate
  <2>5. r \in Requests /\ r.op = call[t].op /\ r.lba = Translate(p, call[t].next) /\ r.val = req[t].val /\ ~r.done
    BY <2>2, <2>4, NewReqIs
  <2> HIDE DEF r, c
  <2>6. call' \in [Tasks -> CallStates] /\ call'[t] = c /\ \A u \in Tasks \ {t} : call'[u] = call[u]
    BY <1>2, <2>1, <2>3
  <2>7. QueueInv' /\ req'[t] = r /\ \A u \in Tasks \ {t} : req'[u] = req[u]
    BY <1>1, <1>2, <1>5, <2>1, <2>3, <2>5, <2>6, Submits
  <2>8. InContract(p, call[t].next, call[t].left) => InContract(p, c.next, c.left)
    BY <1>4, <2>2, <2>3 DEF InContract, blocks_of
  <2>9. Translate(p, call[t].next) = Translate(p, c.next - 1)
    BY <2>2, <2>3 DEF Translate
  <2>10. CallOk(t)'
    BY <1>1, <1>3, <2>2, <2>3, <2>5, <2>6, <2>7, <2>8, <2>9 DEF CallOk
  <2>11. call'[t].op # "none" /\ ~req'[t].done
    BY <1>1, <2>3, <2>5, <2>6, <2>7
  <2> QED
    BY <1>1, <1>2, <2>6, <2>7, <2>10, <2>11, CallerData
<1> QED
  BY <1>7, <1>8

(* The command the drive holds is the first request in line.                 *)
LEMMA InFlight ==
    ASSUME QueueInv, drive.phase # "idle"
    PROVE  /\ inflight \in Tasks /\ drive.of = inflight /\ 1 \in DOMAIN line /\ line[1] = inflight
           /\ call[inflight].op # "none" /\ ~req[inflight].done
<1>1. inflight # None /\ inflight \in Tasks /\ queue \in Seq(Tasks) /\ line \in Seq(Tasks)
  BY DEF QueueInv, DriveInv, QueueTypes
<1>2. drive.of = inflight /\ 1 \in DOMAIN line /\ line[1] = inflight
  BY <1>1 DEF QueueInv, Lined
<1> QED
  BY <1>1, <1>2 DEF QueueInv, LineInv

LEMMA DriveEarlyStep == QueueInv /\ DataInv /\ (DriveEarly \/ LoseIrq) => QueueInv' /\ DataInv'
<1> SUFFICES ASSUME QueueInv, DataInv, DriveEarly \/ LoseIrq PROVE QueueInv' /\ DataInv'
  OBVIOUS
<1>1. UNCHANGED <<inflight, queue, req, table, media, disks, call, truth, line, stray>>
  BY DEF DriveEarly, LoseIrq
<1>2. DataInv'
  BY <1>1 DEF DataInv, BootInv, CallInv, CallOk, AnswerIsDrives, ErrorsReported, PartitionsApart, FormatMounts
<1>3. LineInv'
  BY <1>1 DEF QueueInv, LineInv
<1>4. CASE DriveEarly
  <2>1. drive \in Drives /\ drive.phase = "busy" /\ drive' = [drive EXCEPT !.phase = "early"] /\ irq' = TRUE
    BY <1>4 DEF DriveEarly, QueueInv, QueueTypes
  <2>2. drive' \in Drives /\ drive'.phase = "early" /\ drive'.of = drive.of
    BY <2>1 DEF Drives
  <2>3. inflight # None
    BY <2>1 DEF QueueInv, DriveInv
  <2>4. QueueTypes'
    BY <1>1, <2>1, <2>2 DEF QueueInv, QueueTypes
  <2>5. Lined'
    BY <1>1, <2>2, <2>3 DEF QueueInv, Lined
  <2>6. DriveInv'
    BY <1>1, <2>2, <2>3 DEF DriveInv
  <2> QED
    BY <1>2, <1>3, <2>4, <2>5, <2>6 DEF QueueInv
<1>5. CASE LoseIrq
  <2>1. drive' = drive /\ irq' = FALSE
    BY <1>5 DEF LoseIrq
  <2>2. QueueTypes'
    BY <1>1, <2>1, ZenonT(40) DEF QueueInv, QueueTypes
  <2>3. Lined'
    BY <1>1, <2>1 DEF QueueInv, Lined
  <2>4. DriveInv'
    BY <1>1, <2>1 DEF QueueInv, DriveInv
  <2> QED
    BY <1>2, <1>3, <2>2, <2>3, <2>4 DEF QueueInv
<1> QED
  BY <1>4, <1>5

(* A block is written for a request whose call kept to its partition.        *)
LEMMA WriteLands ==
    ASSUME QueueInv, DataInv, drive.phase # "idle", req[inflight].op = "write", ~stray
    PROVE  /\ req[inflight].val = inflight /\ inflight \in DOMAIN disks
           /\ req[inflight].lba \in disks[inflight].start .. disks[inflight].end - 1
           /\ req[inflight].lba # 0
<1> DEFINE t == inflight
           p == disks[t]
<1>1. t \in Tasks /\ call[t].op # "none"
  BY InFlight
<1>2. t \in Callers
  BY <1>1 DEF Tasks, DataInv, BootInv
<1>3. /\ t \in DOMAIN disks /\ req[t].op = call[t].op /\ req[t].val = t
      /\ call[t].next > 0 /\ req[t].lba = Translate(p, call[t].next - 1)
      /\ InContract(p, call[t].next, call[t].left)
  BY <1>1, <1>2 DEF DataInv, CallInv, CallOk
<1>4. p.start \in Nat \ {0} /\ p.end \in Nat
  BY <1>3, DiskIs
<1>5. call[t].next \in Nat /\ call[t].left \in Nat
  BY <1>1 DEF DataInv, CallStates
<1> HIDE DEF p, t
<1>6. Translate(p, call[t].next - 1) \in p.start .. p.end - 1 /\ Translate(p, call[t].next - 1) # 0
  BY <1>3, <1>4, <1>5 DEF Translate, InContract, blocks_of
<1> QED
  BY <1>3, <1>6 DEF p, t

LEMMA DriveDoneStep ==
    ASSUME QueueInv, DataInv, NEW err \in BOOLEAN, DriveDone(err)
    PROVE  QueueInv' /\ DataInv'
<1> DEFINE t == inflight
           inside == req[t].lba \in 0 .. Blocks - 1
           bad == err \/ ~inside
           data == IF req[t].op = "identify" THEN Blocks
                   ELSE IF bad THEN 0 ELSE media[req[t].lba]
<1>1. drive.phase # "idle"
  BY DEF DriveDone
<1>2. t \in Tasks /\ drive.of = t /\ call[t].op # "none" /\ ~req[t].done /\ t # None
  BY <1>1, InFlight, TasksApart
<1>3. /\ media' = IF req[t].op = "write" /\ ~bad THEN [media EXCEPT ![req[t].lba] = req[t].val] ELSE media
      /\ drive' = [drive EXCEPT !.phase = "done", !.err = bad, !.port = data]
      /\ truth' = [truth EXCEPT ![t] = [error |-> bad, data |-> data]]
      /\ irq' = TRUE
      /\ UNCHANGED <<inflight, queue, req, table, disks, call, line, stray>>
  BY <1>2 DEF DriveDone
<1>4. bad \in BOOLEAN /\ data \in Int
  BY BlockAssumption DEF DataInv
<1>5. req[t].op = "identify" => data = Blocks
  OBVIOUS
<1>6. ~bad => req[t].lba \in 0 .. Blocks - 1
  OBVIOUS
<1>7. req[t].val \in Int /\ drive \in Drives
  BY <1>2 DEF QueueInv, QueueTypes, Requests
<1> HIDE DEF bad, data
<1>8. /\ drive' \in Drives /\ drive'.phase = "done" /\ drive'.of = t
      /\ (drive'.err <=> bad) /\ drive'.port = data
  BY <1>2, <1>3, <1>4, <1>7, Zenon DEF Drives
<1>9. /\ truth' \in [Tasks -> [error : BOOLEAN, data : Int]]
      /\ (truth'[t].error <=> bad) /\ truth'[t].data = data
      /\ \A u \in Tasks \ {t} : truth'[u] = truth[u]
  BY <1>2, <1>3, <1>4 DEF DataInv
<1>10. QueueTypes'
  BY <1>3, <1>8 DEF QueueInv, QueueTypes
<1>11. Lined'
  BY <1>2, <1>3, <1>8 DEF QueueInv, Lined
<1>12. LineInv'
  BY <1>3 DEF QueueInv, LineInv
<1>13. DriveInv'
  BY <1>2, <1>3, <1>5, <1>8, <1>9 DEF DriveInv
<1>14. media' \in [0 .. Blocks - 1 -> Int]
  BY <1>3, <1>7, Zenon DEF DataInv
<1>15. BootInv' /\ CallInv' /\ FormatMounts'
  BY <1>3 DEF DataInv, BootInv, CallInv, CallOk, FormatMounts
<1>16. AnswerIsDrives'
  BY <1>2, <1>3, <1>9, ZenonT(30) DEF DataInv, AnswerIsDrives
<1>17. ErrorsReported'
  <2>1. ASSUME NEW u \in Callers, truth'[u].error, call'[u].op = "none"
        PROVE  call'[u].answer # "ok"
    <3>1. u \in Tasks \ {t}
      BY <1>2, <1>3, <2>1 DEF Tasks
    <3> QED
      BY <1>3, <1>9, <2>1, <3>1 DEF DataInv, ErrorsReported
  <2> QED
    BY <2>1 DEF ErrorsReported
<1>18. PartitionsApart'
  <2>1. CASE req[t].op = "write" /\ ~bad /\ ~stray
    <3> DEFINE l == req[t].lba
    <3>1. media' = [media EXCEPT ![l] = t] /\ t \in DOMAIN disks /\ l # 0
          /\ l \in disks[t].start .. disks[t].end - 1
      BY <1>1, <1>3, <2>1, WriteLands, Zenon
    <3>2. media \in [0 .. Blocks - 1 -> Int] /\ 0 \in 0 .. Blocks - 1
      BY BlockAssumption DEF DataInv
    <3>3. media'[0] = media[0]
      BY <3>1, <3>2
    <3>4. \A b \in 1 .. Blocks - 1 : media'[b] = media[b] \/ (b = l /\ media'[b] = t)
      BY <3>1, <3>2
    <3> HIDE DEF t, l
    <3> QED
      BY <1>3, <3>1, <3>3, <3>4 DEF DataInv, PartitionsApart
  <2>2. CASE ~(req[t].op = "write" /\ ~bad)
    BY <1>3, <2>2 DEF DataInv, PartitionsApart
  <2>3. CASE stray
    BY <1>3, <2>3 DEF PartitionsApart
  <2> QED
    BY <2>1, <2>2, <2>3
<1>19. QueueInv'
  BY <1>10, <1>11, <1>12, <1>13 DEF QueueInv
<1>20. DataInv'
  BY <1>3, <1>9, <1>14, <1>15, <1>16, <1>17, <1>18 DEF DataInv
<1> QED
  BY <1>19, <1>20

(* The interrupt handler completes the request in flight, the first in line, *)
(* and sends the next.                                                       *)
LEMMA IrqStep == QueueInv /\ DataInv /\ ata_irq => QueueInv' /\ DataInv'
<1> SUFFICES ASSUME QueueInv, DataInv, ata_irq PROVE QueueInv' /\ DataInv'
  OBVIOUS
<1>1. irq /\ irq' = FALSE /\ UNCHANGED <<table, media, disks, call, truth, stray>>
  BY DEF ata_irq
<1>2. drive.phase \in {"early", "done"}
  BY <1>1 DEF QueueInv, DriveInv
<1>3. inflight \in Tasks /\ inflight # None /\ 1 \in DOMAIN line /\ line[1] = inflight
      /\ call[inflight].op # "none" /\ ~req[inflight].done
  BY <1>2, InFlight, TasksApart
<1>4. CASE drive.phase = "early"
  <2>1. UNCHANGED <<inflight, queue, req, drive, line>>
    BY <1>3, <1>4 DEF ata_irq
  <2>2. DataInv'
    BY <1>1, <2>1, Zenon DEF DataInv, BootInv, CallInv, CallOk, AnswerIsDrives, ErrorsReported, PartitionsApart, FormatMounts
  <2>3. QueueTypes' /\ LineInv'
    BY <1>1, <2>1, Zenon DEF QueueInv, QueueTypes, LineInv
  <2>4. Lined'
    BY <1>1, <2>1 DEF QueueInv, Lined
  <2>5. DriveInv'
    BY <1>1, <2>1 DEF QueueInv, DriveInv
  <2> QED
    BY <2>2, <2>3, <2>4, <2>5 DEF QueueInv
<1>5. CASE drive.phase = "done"
  <2> DEFINE t == inflight
             v == IF ~drive.err /\ req[t].op \in {"read", "identify"} THEN drive.port ELSE req[t].val
             r == [req[t] EXCEPT !.done = TRUE, !.error = drive.err, !.val = v]
  <2>1. /\ req' = [req EXCEPT ![t] = r] /\ SendNext
        /\ \E k \in DOMAIN line : line[k] = inflight /\ line' = LineWithout(k)
    BY <1>5 DEF ata_irq, Completed
  <2>2. req \in [Tasks -> Requests] /\ drive \in Drives /\ line \in Seq(Tasks) /\ queue \in Seq(Tasks)
        /\ drive.err \in BOOLEAN /\ drive.port \in Int
    BY DEF QueueInv, QueueTypes, Drives
  <2>3. req[t] \in Requests /\ v \in Int
    BY <1>3, <2>2 DEF Requests
  <2>4. ~drive.err /\ req[t].op \in {"read", "identify"} => v = drive.port
    OBVIOUS
  <2>5. req[t].op = "write" => v = req[t].val
    OBVIOUS
  <2> HIDE DEF v
  <2>6. r \in Requests /\ r.op = req[t].op /\ r.lba = req[t].lba /\ (r.error <=> drive.err) /\ r.done /\ r.val = v
    <3> DEFINE r1 == [req[t] EXCEPT !.done = TRUE]
               r2 == [r1 EXCEPT !.error = drive.err]
    <3>1. r1 \in Requests /\ r1.op = req[t].op /\ r1.lba = req[t].lba /\ r1.done
      BY <2>3, Zenon DEF Requests
    <3>2. r = [r2 EXCEPT !.val = v]
      OBVIOUS
    <3> HIDE DEF r, r1
    <3>3. r2 \in Requests /\ r2.op = req[t].op /\ r2.lba = req[t].lba /\ r2.done /\ (r2.error <=> drive.err)
      BY <2>2, <3>1, Zenon DEF Requests
    <3> HIDE DEF r2
    <3> QED
      BY <2>3, <3>2, <3>3 DEF Requests
  <2> HIDE DEF r
  <2>7. req' \in [Tasks -> Requests] /\ req'[t] = r /\ \A u \in Tasks \ {t} : req'[u] = req[u]
    BY <1>3, <2>1, <2>2, <2>6
  <2>8. line' = LineWithout(1)
    BY <1>3, <2>1 DEF QueueInv, LineInv
  <2>9. Len(line) = Len(queue) + 1 /\ Len(queue) \in Nat /\ \A k \in 1 .. Len(queue) : line[k + 1] = queue[k]
    BY <1>3, <2>2 DEF QueueInv, Lined
  <2>10. line' = [j \in 1 .. Len(queue) |-> queue[j]]
    <3>1. line' = [j \in 1 .. Len(queue) |-> IF j < 1 THEN line[j] ELSE line[j + 1]]
      BY <2>8, <2>9 DEF LineWithout
    <3> QED
      BY <2>9, <3>1
  <2>11. line' = queue
    BY <2>2, <2>10
  <2>12. \A k \in 1 .. Len(queue) : k + 1 \in DOMAIN line
    BY <2>2, <2>9
  <2>13. \A k \in 1 .. Len(queue) : queue[k] # t
    BY <1>3, <2>9, <2>12 DEF QueueInv, LineInv
  <2>14. LineInv'
    <3>1. DOMAIN line' = 1 .. Len(queue)
      BY <2>2, <2>11
    <3>2. ASSUME NEW j \in 1 .. Len(queue), NEW k \in 1 .. Len(queue), queue[j] = queue[k]
          PROVE  j = k
      <4>1. j + 1 = k + 1
        BY <2>9, <2>12, <3>2 DEF QueueInv, LineInv
      <4> QED
        BY <4>1
    <3>3. ASSUME NEW k \in 1 .. Len(queue)
          PROVE  call[queue[k]].op # "none" /\ ~req'[queue[k]].done
      <4>1. queue[k] \in Tasks \ {t} /\ queue[k] = line[k + 1]
        BY <2>2, <2>9, <2>13
      <4> QED
        BY <2>7, <2>12, <4>1 DEF QueueInv, LineInv
    <3> QED
      BY <1>1, <2>11, <3>1, <3>2, <3>3 DEF LineInv
  <2>15. QueueTypes' /\ Lined' /\ DriveInv'
    <3>1. CASE queue = <<>>
      <4>1. inflight' = None /\ drive' = Resting /\ queue' = queue
        BY <2>1, <3>1 DEF SendNext
      <4>2. Resting \in Drives /\ Resting.phase = "idle"
        BY DEF Resting, Drives
      <4>3. QueueTypes'
        BY <1>1, <2>2, <2>7, <2>11, <4>1, <4>2, Zenon DEF QueueTypes
      <4>4. Lined'
        BY <2>11, <3>1, <4>1, <4>2 DEF Lined
      <4>5. DriveInv'
        BY <1>1, <3>1, <4>1, <4>2 DEF DriveInv
      <4> QED
        BY <4>3, <4>4, <4>5
    <3>2. CASE queue # <<>>
      <4> DEFINE h == Head(queue)
                 d == [phase |-> "busy", of |-> h, err |-> FALSE, port |-> 0]
      <4>1. drive' = d /\ inflight' = h /\ queue' = Tail(queue)
        BY <2>1, <3>2 DEF SendNext, send_io_command
      <4>2. /\ h \in Tasks /\ h = queue[1] /\ queue' \in Seq(Tasks) /\ Len(queue) = Len(queue') + 1
            /\ \A k \in 1 .. Len(queue') : queue'[k] = queue[k + 1]
        BY <2>2, <3>2, <4>1
      <4>3. h # None
        BY <4>2, TasksApart
      <4>4. d \in Drives /\ d.phase = "busy" /\ d.of = h
        BY <4>2 DEF Drives
      <4> HIDE DEF h, d
      <4>5. QueueTypes'
        BY <1>1, <2>2, <2>7, <2>11, <4>1, <4>2, <4>4, Zenon DEF QueueTypes
      <4>6. Lined'
        BY <2>11, <4>1, <4>2, <4>3, <4>4 DEF Lined
      <4>7. DriveInv'
        BY <1>1, <4>1, <4>3, <4>4 DEF DriveInv
      <4> QED
        BY <4>5, <4>6, <4>7
    <3> QED
      BY <3>1, <3>2
  <2>16. AnswerIsDrives'
    <3>1. (truth[t].error <=> drive.err) /\ truth[t].data = drive.port
      BY <1>5 DEF QueueInv, DriveInv
    <3>2. ASSUME NEW u \in Tasks, req'[u].done
          PROVE  /\ req'[u].error <=> truth[u].error
                 /\ req'[u].op \in {"read", "identify"} /\ ~req'[u].error => req'[u].val = truth[u].data
      <4>1. CASE u = t
        BY <2>4, <2>6, <2>7, <3>1, <4>1
      <4>2. CASE u # t
        <5>1. req'[u] = req[u]
          BY <2>7, <4>2
        <5> QED
          BY <3>2, <5>1 DEF DataInv, AnswerIsDrives
      <4> QED
        BY <4>1, <4>2
    <3> QED
      BY <1>1, <3>2 DEF AnswerIsDrives
  <2>17. BootInv'
    <3>1. Boot \in Tasks
      BY TasksApart
    <3>2. CASE t = Boot
      <4>1. req'[Boot].op = req[Boot].op /\ (req'[Boot].error <=> drive.err) /\ req'[Boot].val = v
        BY <2>6, <2>7, <3>2
      <4>2. req[Boot].op = "identify" /\ ~drive.err => v = Blocks
        BY <1>5, <2>4, <3>2 DEF QueueInv, DriveInv
      <4> QED
        BY <1>1, <4>1, <4>2, Zenon DEF DataInv, BootInv
    <3>3. CASE t # Boot
      <4>1. req'[Boot] = req[Boot]
        BY <2>7, <3>1, <3>3
      <4> QED
        BY <1>1, <4>1 DEF DataInv, BootInv
    <3> QED
      BY <3>2, <3>3
  <2>18. CallInv'
    <3>1. ASSUME NEW u \in Callers
          PROVE  CallOk(u)'
      <4>1. u \in Tasks /\ CallOk(u)
        BY DEF Tasks, DataInv, CallInv
      <4>2. req'[u].op = req[u].op /\ req'[u].lba = req[u].lba /\ (req[u].op = "write" => req'[u].val = req[u].val)
        BY <2>5, <2>6, <2>7, <4>1
      <4> QED
        BY <1>1, <4>1, <4>2, Zenon DEF CallOk
    <3> QED
      BY <3>1 DEF CallInv
  <2>19. ErrorsReported' /\ PartitionsApart' /\ FormatMounts'
    BY <1>1 DEF DataInv, ErrorsReported, PartitionsApart, FormatMounts
  <2>20. DataInv'
    BY <1>1, <2>16, <2>17, <2>18, <2>19 DEF DataInv
  <2> QED
    BY <2>14, <2>15, <2>20 DEF QueueInv
<1> QED
  BY <1>2, <1>4, <1>5

LEMMA BlkInitial == blkInit => QueueInv /\ DataInv
<1> SUFFICES ASSUME blkInit PROVE QueueInv /\ DataInv
  OBVIOUS
<1>1. /\ table \in [Callers -> Table] /\ \A c \in Callers : FormatOk(table[c])
      /\ media = [b \in 0 .. Blocks - 1 |-> IF b = 0 THEN TableBlock ELSE 0]
      /\ inflight = None /\ queue = <<>> /\ req = [t \in Tasks |-> NoReq]
      /\ drive = Resting /\ irq = FALSE /\ disks = <<>>
      /\ call = [t \in Tasks |-> Idle]
      /\ truth = [t \in Tasks |-> [error |-> FALSE, data |-> 0]]
      /\ line = <<>> /\ stray = FALSE
  BY DEF blkInit
<1>2. /\ NoReq \in Requests /\ NoReq.op = "none" /\ ~NoReq.done
      /\ Resting \in Drives /\ Resting.phase = "idle"
      /\ Idle \in CallStates /\ Idle.op = "none" /\ Idle.answer = "none"
  BY DEF NoReq, Requests, Resting, Drives, Idle, CallStates, Ops
<1>3. Boot \in Tasks /\ Callers \subseteq Tasks /\ TableBlock \in Int /\ 0 \in 0 .. Blocks - 1
  BY TasksApart, BlockAssumption DEF Tasks, TableBlock
<1>4. queue \in Seq(Tasks) /\ line \in Seq(Tasks) /\ DOMAIN line = {} /\ DOMAIN disks = {}
  BY <1>1
<1>5. QueueTypes
  BY <1>1, <1>2, <1>4, Zenon DEF QueueTypes
<1>6. Lined /\ LineInv /\ DriveInv
  BY <1>1, <1>2, <1>4 DEF Lined, LineInv, DriveInv
<1>7. call[Boot] = Idle /\ req[Boot] = NoReq /\ \A c \in Callers : call[c] = Idle
  BY <1>1, <1>3
<1>8. BootInv /\ CallInv
  BY <1>1, <1>2, <1>7 DEF BootInv, CallInv, CallOk
<1>9. AnswerIsDrives /\ ErrorsReported
  BY <1>1, <1>2, <1>7 DEF AnswerIsDrives, ErrorsReported
<1>10. media[0] = TableBlock /\ \A b \in 1 .. Blocks - 1 : media[b] = 0
  BY <1>1, <1>3
<1>11. PartitionsApart /\ FormatMounts
  BY <1>1, <1>2, <1>7, <1>10 DEF PartitionsApart, FormatMounts
<1>12. media \in [0 .. Blocks - 1 -> Int]
  BY <1>1, <1>3
<1>13. call \in [Tasks -> CallStates] /\ stray \in BOOLEAN
  BY <1>1, <1>2, Zenon
<1>14. truth \in [Tasks -> [error : BOOLEAN, data : Int]]
  BY <1>1
<1> QED
  BY <1>1, <1>5, <1>6, <1>8, <1>9, <1>11, <1>12, <1>13, <1>14 DEF QueueInv, DataInv

LEMMA BlkStep == BlkInv /\ [blkNext]_blkVars => BlkInv'
<1> SUFFICES ASSUME QueueInv, DataInv, [blkNext]_blkVars PROVE QueueInv' /\ DataInv'
  <2>1. BlkInv' <=> QueueInv' /\ DataInv'
    BY BlkHalves, PTL
  <2> QED
    BY <2>1, BlkHalves
<1>1. CASE Identify \/ ReadTable \/ mount
  BY <1>1, IdentifyStep, ReadTableStep, MountStep
<1>2. ASSUME NEW t \in Callers, NEW i \in 0 .. Blocks, NEW n \in 1 .. 2,
             Call(t, "write", i, n, t) \/ Call(t, "read", i, n, 0)
      PROVE  QueueInv' /\ DataInv'
  <2>1. i \in Nat /\ n \in Nat \ {0} /\ t \in Int /\ 0 \in Int
    BY BlockAssumption
  <2> QED
    BY <1>2, <2>1, CallStep
<1>3. ASSUME NEW t \in Callers, Poll(t)
      PROVE  QueueInv' /\ DataInv'
  BY <1>3, PollStep
<1>4. CASE ata_irq
  BY <1>4, IrqStep
<1>5. CASE DriveEarly \/ LoseIrq
  BY <1>5, DriveEarlyStep
<1>6. ASSUME NEW err \in BOOLEAN, DriveDone(err)
      PROVE  QueueInv' /\ DataInv'
  BY <1>6, DriveDoneStep
<1>7. CASE UNCHANGED blkVars
  <2>1. QueueInv'
    BY <1>7 DEF blkVars, QueueInv, QueueTypes, Lined, LineInv, DriveInv
  <2>2. BootInv' /\ CallInv' /\ FormatMounts'
    BY <1>7, ZenonT(40) DEF blkVars, DataInv, BootInv, CallInv, CallOk, FormatMounts
  <2>3. AnswerIsDrives' /\ ErrorsReported' /\ PartitionsApart'
    BY <1>7, Zenon DEF blkVars, DataInv, AnswerIsDrives, ErrorsReported, PartitionsApart
  <2> QED
    BY <1>7, <2>1, <2>2, <2>3 DEF blkVars, DataInv
<1> QED
  BY <1>1, <1>2, <1>3, <1>4, <1>5, <1>6, <1>7 DEF blkNext

(* Requests are executed in the order they were submitted, each task is told *)
(* what the drive did for its own request, a failed block fails its call,    *)
(* what is written through one partition stays in it and mount finds what    *)
(* format wrote: for any number of callers, any disk and any partition table. *)
THEOREM DiskIsSafe == blkSpec => []DiskSafe
<1>1. blkInit => BlkInv
  BY BlkInitial, BlkHalves
<1>2. BlkInv => DiskSafe
  BY DEF BlkInv
<1> QED
  BY <1>1, <1>2, BlkStep, PTL DEF blkSpec
==============================================================================
