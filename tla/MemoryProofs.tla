---------------------------- MODULE MemoryProofs -----------------------------
(*************************************************************************)
(* Proofs about memory: the map the boot loader hands over, copies       *)
(* between address spaces, and the list that links the nodes of its      *)
(* callers.  For every map, page size and copy, and any number of nodes. *)
(*************************************************************************)
EXTENDS MemoryMap, TempSlot, LinkedList, WellFoundedInduction, TLAPS

(* A leaf names a prover only where the default order, Zenon and then SMT, *)
(* does not find its proof soon.                                           *)
USE ZenonT(5), SMTT(30)

-----------------------------------------------------------------------------
(* Division with remainder.                                               *)
-----------------------------------------------------------------------------

(* Division with remainder.                                                *)
LEMMA ModRange ==
  ASSUME NEW n \in Nat, n > 0, NEW a \in Nat
  PROVE  a % n \in 0..(n - 1) /\ a \div n \in Nat /\ a = (n * (a \div n)) + (a % n)
OBVIOUS

LEMMA Quotients ==
  ASSUME NEW n \in Nat, n > 0, NEW q \in Int, NEW p \in Int, n * q - n * p < n, n * p - n * q < n
  PROVE  q = p
<1>1. ASSUME NEW d \in Int, d > 0 PROVE n * d >= n
  BY <1>1
<1>2. CASE q > p
  <2>1. n * q - n * p = n * (q - p) /\ q - p > 0
    BY <1>2
  <2> QED
    BY <1>1, <2>1
<1>3. CASE p > q
  <2>1. n * p - n * q = n * (p - q) /\ p - q > 0
    BY <1>3
  <2> QED
    BY <1>1, <2>1
<1> QED
  BY <1>2, <1>3

-----------------------------------------------------------------------------
(* The memory map of the boot loader.                                     *)
-----------------------------------------------------------------------------

LEMMA WithinIs ==
    ASSUME NEW r \in Region, NEW a
    PROVE  a \in Within(r) <=> a \in Nat /\ r.base <= a /\ a < r.base + r.length
BY DEF Within, EndOf, Region

LEMMA RegionIs ==
    ASSUME NEW r \in Region
    PROVE  r.base \in Nat /\ r.length \in Nat /\ r.kind \in Nat /\ EndOf(r) = r.base + r.length /\ EndOf(r) \in Nat
BY DEF Region, EndOf

LEMMA KnownIs ==
    ASSUME NEW r \in Region
    PROVE  /\ Known(r) \in Region /\ Within(Known(r)) = Within(r) /\ Known(r).base = r.base
           /\ Known(r).kind \in {TYPE_USABLE, TYPE_RESERVED}
           /\ (Known(r).kind = TYPE_USABLE <=> r.kind = TYPE_USABLE)
<1> DEFINE k == IF r.kind = TYPE_USABLE THEN TYPE_USABLE ELSE TYPE_RESERVED
<1>1. k \in Nat /\ k \in {TYPE_USABLE, TYPE_RESERVED} /\ (k = TYPE_USABLE <=> r.kind = TYPE_USABLE) BY DEF TYPE_USABLE, TYPE_RESERVED
<1> HIDE DEF k
<1>2. Known(r) = [r EXCEPT !.kind = k] BY DEF Known, k
<1>3. Known(r) \in Region /\ Known(r).base = r.base /\ Known(r).length = r.length /\ Known(r).kind = k BY <1>1, <1>2 DEF Region
<1> QED BY <1>1, <1>3 DEF Within, EndOf

(* A region that moves or is cut keeps no address it did not have, and     *)
(* loses only those past where the overlap begins.                         *)
LEMMA MovedIs ==
    ASSUME NEW r \in Region, NEW d \in Nat
    PROVE  /\ Moved(r, d) \in Region /\ Moved(r, d).kind = r.kind /\ Moved(r, d).base = r.base + d
           /\ \A a : a \in Within(Moved(r, d)) <=> a \in Within(r) /\ r.base + d <= a
<1> DEFINE n == SaturatingSub(r.length, d)
<1>0. r.base \in Nat /\ r.length \in Nat BY DEF Region
<1>1. n \in Nat /\ r.base + d \in Nat /\ n = IF r.length > d THEN r.length - d ELSE 0 BY <1>0 DEF SaturatingSub
<1> HIDE DEF n
<1> PICK b \in Nat : b = r.base + d BY <1>1
<1>2. Moved(r, d) = [r EXCEPT !.base = b, !.length = n] BY DEF Moved, n
<1>3. Moved(r, d) \in Region /\ Moved(r, d).kind = r.kind /\ Moved(r, d).base = b /\ Moved(r, d).length = n
    BY <1>1, <1>2, Zenon DEF Region
<1>4. ASSUME NEW a PROVE a \in Within(Moved(r, d)) <=> a \in Within(r) /\ r.base + d <= a
    BY <1>0, <1>1, <1>3, WithinIs
<1> QED BY <1>3, <1>4

LEMMA CutIs ==
    ASSUME NEW r \in Region, NEW d \in Nat
    PROVE  /\ Cut(r, d) \in Region /\ Cut(r, d).kind = r.kind /\ Cut(r, d).base = r.base
           /\ Cut(r, d).length = (IF r.length > d THEN r.length - d ELSE 0)
           /\ \A a : a \in Within(Cut(r, d)) => a \in Within(r)
<1> DEFINE n == SaturatingSub(r.length, d)
<1>0. r.base \in Nat /\ r.length \in Nat BY DEF Region
<1>1. n \in Nat /\ n = IF r.length > d THEN r.length - d ELSE 0 BY <1>0 DEF SaturatingSub
<1> HIDE DEF n
<1>2. Cut(r, d) = [r EXCEPT !.length = n] BY DEF Cut, n
<1>3. Cut(r, d) \in Region /\ Cut(r, d).kind = r.kind /\ Cut(r, d).base = r.base /\ Cut(r, d).length = n
    BY <1>1, <1>2 DEF Region
<1>4. ASSUME NEW a \in Within(Cut(r, d)) PROVE a \in Within(r) BY <1>0, <1>1, <1>3, WithinIs
<1> QED BY <1>1, <1>3, <1>4

LEMMA JoinedIs ==
    ASSUME NEW r \in Region, NEW s \in Region, EndOf(r) = s.base
    PROVE  /\ Joined(r, s.length) \in Region /\ Joined(r, s.length).kind = r.kind /\ Joined(r, s.length).base = r.base
           /\ Joined(r, s.length).length = r.length + s.length
           /\ EndOf(Joined(r, s.length)) = EndOf(s)
           /\ \A a : a \in Within(Joined(r, s.length)) <=> a \in Within(r) \/ a \in Within(s)
<1>0. r.base \in Nat /\ r.length \in Nat /\ s.base \in Nat /\ s.length \in Nat BY DEF Region
<1> PICK n \in Nat : n = r.length + s.length BY <1>0
<1>1. Joined(r, s.length) = [r EXCEPT !.length = n] BY DEF Joined
<1>2. Joined(r, s.length) \in Region /\ Joined(r, s.length).kind = r.kind /\ Joined(r, s.length).base = r.base
      /\ Joined(r, s.length).length = n BY <1>1 DEF Region
<1>3. s.base = r.base + r.length BY DEF EndOf
<1>4. EndOf(Joined(r, s.length)) = EndOf(s) BY <1>0, <1>2, <1>3 DEF EndOf
<1>5. ASSUME NEW a PROVE a \in Within(Joined(r, s.length)) <=> a \in Within(r) \/ a \in Within(s)
    BY <1>0, <1>2, <1>3, WithinIs
<1> QED BY <1>2, <1>4, <1>5

(* Sorting gives the same regions in order.                                *)
InSortOf(D, s, t) ==
    /\ t \in [D -> Region] /\ \A i, j \in 1..size : i < j => t[i].base <= t[j].base
    /\ \A i \in 1..size : \E j \in 1..size : t[i] = s[j]
    /\ \A j \in 1..size : \E i \in 1..size : t[i] = s[j]

LEMMA SortedIs ==
    ASSUME NEW D, NEW s \in [D -> Region], 1..size \subseteq D, NEW t \in Sorted(s)
    PROVE  InSortOf(D, s, t)
<1>1. PICK p \in Bijection(1..size, 1..size) : t = [i \in DOMAIN s |-> IF i \in 1..size THEN s[p[i]] ELSE s[i]]
    BY DEF Sorted
<1>2. p \in [1..size -> 1..size] /\ \A j \in 1..size : \E i \in 1..size : p[i] = j
    BY DEF Bijection, Surjection, Injection
<1>3. t \in [D -> Region] /\ \A i \in 1..size : t[i] = s[p[i]] BY <1>1, <1>2, Zenon
<1>4. \A i, j \in 1..size : i < j => t[i].base <= t[j].base BY DEF Sorted
<1>5. \A i \in 1..size : \E j \in 1..size : t[i] = s[j] BY <1>2, <1>3
<1>6. ASSUME NEW j \in 1..size PROVE \E i \in 1..size : t[i] = s[j]
  <2>1. PICK i \in 1..size : p[i] = j BY <1>2
  <2> QED BY <1>3, <2>1
<1> QED BY <1>3, <1>4, <1>5, <1>6 DEF InSortOf

LEMMA MapInitial ==
    ASSUME mapInit
    PROVE  MapInv
<1>1. size \in Nat /\ bios \in [1..size -> Region]
  <2>1. [base : Bases, length : Extents, kind : Kinds] \subseteq Region BY MapAssumption, Zenon DEF Region
  <2> QED BY <2>1, MapAssumption DEF mapInit
<1>2. DOMAIN bios = 1..size /\ map = bios /\ loop = "sort" BY <1>1 DEF mapInit
<1>3. MapTypes
  <2>1. bios \in [DOMAIN bios -> Region] /\ map \in [DOMAIN bios -> Region] /\ 1..size \subseteq DOMAIN bios BY <1>1, <1>2
  <2>2. turn = 1 /\ len = 0 BY DEF mapInit
  <2> QED BY <1>1, <1>2, <2>1, <2>2 DEF MapTypes
<1>4. Offers /\ Restricts BY <1>2 DEF Offers, Restricts, Live
<1> QED BY <1>2, <1>3, <1>4 DEF MapInv, OverlapInv, RemoveInv, MergeInv

LEMMA MapInvSafe ==
    ASSUME MapInv
    PROVE  MapSafe
<1> SUFFICES ASSUME loop = "done" PROVE MapSafe BY DEF MapSafe, MapOrdered, UsableWasReported, ReservedKept
<1> MapTypes /\ Offers /\ Restricts /\ MergeInv BY DEF MapInv
<1>0. \A i \in 1..size : map[i] \in Region /\ map[i].kind \in {TYPE_USABLE, TYPE_RESERVED} BY DEF MapTypes
<1>1. Live = 1..size /\ size \in Nat BY DEF Live, MapTypes
<1>2. (\A i, j \in 1..size : i < j => Apart(i, j)) /\ \A i \in 2..size : ~Merges(i) BY DEF MergeInv
<1>3. MapOrdered
  <2>1. ASSUME NEW i \in 2..size
        PROVE  EndOf(map[i - 1]) < map[i].base \/ (EndOf(map[i - 1]) = map[i].base /\ map[i - 1].kind # map[i].kind)
    <3>1. i \in 1..size /\ i - 1 \in 1..size /\ i - 1 < i BY <1>1
    <3>2. Apart(i - 1, i) /\ ~Merges(i) BY <1>2, <3>1
    <3>3. EndOf(map[i - 1]) \in Nat /\ map[i].base \in Nat BY <1>0, <3>1, RegionIs
    <3> QED BY <3>2, <3>3 DEF Apart, Merges
  <2>2. \A i \in 1..size : map[i].length > 0 BY DEF MergeInv
  <2> QED BY <2>1, <2>2 DEF MapOrdered
<1>4. ASSUME NEW j \in DOMAIN bios, bios[j].kind # TYPE_USABLE, NEW a \in Within(bios[j])
      PROVE  \E i \in 1..size : a \in Within(map[i]) /\ map[i].kind = TYPE_RESERVED
  <2>1. PICK i \in Live : a \in Within(map[i]) /\ map[i].kind # TYPE_USABLE BY <1>4 DEF Restricts
  <2> QED BY <1>0, <1>1, <2>1
<1>5. ReservedKept BY <1>4 DEF ReservedKept
<1>6. ASSUME NEW i \in 1..size, NEW k \in 1..size, NEW a \in Within(map[i]), a \in Within(map[k]) PROVE i = k
  <2>1. /\ map[i].base <= a /\ a < map[i].base + map[i].length /\ a \in Nat
        /\ map[k].base <= a /\ a < map[k].base + map[k].length BY <1>0, <1>6, WithinIs
  <2>2. map[i].base \in Nat /\ map[i].length \in Nat /\ map[k].base \in Nat /\ map[k].length \in Nat BY <1>0, RegionIs
  <2>3. i < k => map[i].base + map[i].length <= map[k].base BY <1>2 DEF Apart, EndOf
  <2>4. k < i => map[k].base + map[k].length <= map[i].base BY <1>2 DEF Apart, EndOf
  <2>5. CASE i < k BY <2>1, <2>2, <2>3, <2>5
  <2>6. CASE k < i BY <2>1, <2>2, <2>4, <2>6
  <2> QED BY <1>1, <2>5, <2>6
<1>7. UsableWasReported
  <2>1. ASSUME NEW i \in 1..size, map[i].kind = TYPE_USABLE, NEW a \in Within(map[i])
        PROVE  /\ \E j \in DOMAIN bios : a \in Within(bios[j]) /\ bios[j].kind = TYPE_USABLE
               /\ \A j \in DOMAIN bios : a \in Within(bios[j]) => bios[j].kind = TYPE_USABLE
    <3>1. \E j \in DOMAIN bios : a \in Within(bios[j]) /\ bios[j].kind = TYPE_USABLE BY <1>1, <2>1 DEF Offers
    <3>2. ASSUME NEW j \in DOMAIN bios, a \in Within(bios[j]), bios[j].kind # TYPE_USABLE PROVE FALSE
      <4>1. PICK k \in 1..size : a \in Within(map[k]) /\ map[k].kind = TYPE_RESERVED BY <1>4, <3>2
      <4>2. k = i BY <1>6, <4>1
      <4> QED BY <2>1, <4>1, <4>2 DEF TYPE_USABLE, TYPE_RESERVED
    <3> QED BY <3>1, <3>2
  <2> QED BY <2>1 DEF UsableWasReported
<1> QED BY <1>3, <1>5, <1>7 DEF MapSafe

-----------------------------------------------------------------------------
(* A pass over the overlaps begins, after a sort.                          *)
LEMMA PassBegins ==
    ASSUME MapInv, loop # "remove", NEW s \in [DOMAIN bios -> Region], map' \in Sorted(s),
           \A i \in 1..size : /\ s[i].kind \in {TYPE_USABLE, TYPE_RESERVED} /\ Within(s[i]) = Within(map[i])
                              /\ s[i].kind = TYPE_USABLE <=> map[i].kind = TYPE_USABLE,
           Proceed("overlap", 2), UNCHANGED <<size, len>>
    PROVE  MapInv'
<1> MapTypes /\ Offers /\ Restricts BY DEF MapInv
<1>1. loop' = "overlap" /\ turn' = 2 /\ moved' = FALSE /\ bios' = bios BY DEF Proceed
<1>2. /\ map' \in [DOMAIN bios -> Region] /\ \A i, j \in 1..size : i < j => map'[i].base <= map'[j].base
      /\ \A i \in 1..size : \E j \in 1..size : map'[i] = s[j]
      /\ \A j \in 1..size : \E i \in 1..size : map'[i] = s[j]
  <2>1. 1..size \subseteq DOMAIN bios BY DEF MapTypes
  <2> PICK D : D = DOMAIN bios OBVIOUS
  <2> PICK t : t = map' OBVIOUS
  <2>2. s \in [D -> Region] /\ 1..size \subseteq D /\ t \in Sorted(s) BY <2>1
  <2>3. InSortOf(D, s, t) BY <2>2, SortedIs
  <2> QED BY <2>3, Zenon DEF InSortOf
<1>3. Live = 1..size /\ Live' = 1..size BY <1>1 DEF Live
<1>4. MapTypes'
  <2>1. ASSUME NEW i \in 1..size PROVE map'[i].kind \in {TYPE_USABLE, TYPE_RESERVED}
    <3>1. PICK j \in 1..size : map'[i] = s[j] BY <1>2, Zenon
    <3> QED BY <3>1
  <2>2. /\ size' \in Nat /\ turn' \in Nat \ {0} /\ len' \in Nat
        /\ bios' \in [DOMAIN bios' -> Region] /\ 1..size' \subseteq DOMAIN bios' BY <1>1 DEF MapTypes
  <2>3. map' \in [DOMAIN bios' -> Region] BY <1>1, <1>2
  <2>4. \A i \in 1..size' : map'[i].kind \in {TYPE_USABLE, TYPE_RESERVED} BY <2>1
  <2> QED BY <1>1, <2>2, <2>3, <2>4 DEF MapTypes
<1>5. Offers'
  <2> SUFFICES ASSUME NEW i \in 1..size, map'[i].kind = TYPE_USABLE, NEW a \in Within(map'[i])
               PROVE  \E j \in DOMAIN bios : a \in Within(bios[j]) /\ bios[j].kind = TYPE_USABLE
      BY <1>1, <1>3, ZenonT(30) DEF Offers
  <2>1. PICK j \in 1..size : map'[i] = s[j] BY <1>2
  <2>2. a \in Within(map[j]) /\ map[j].kind = TYPE_USABLE BY <2>1
  <2> QED BY <1>3, <2>2 DEF Offers
<1>6. Restricts'
  <2> SUFFICES ASSUME NEW j \in DOMAIN bios, bios[j].kind # TYPE_USABLE, NEW a \in Within(bios[j])
               PROVE  \E i \in 1..size : a \in Within(map'[i]) /\ map'[i].kind # TYPE_USABLE
      BY <1>1, <1>3 DEF Restricts
  <2>1. PICK k \in 1..size : a \in Within(map[k]) /\ map[k].kind # TYPE_USABLE BY <1>3 DEF Restricts
  <2>2. PICK i \in 1..size : map'[i] = s[k] BY <1>2
  <2> QED BY <2>1, <2>2
<1>7. OverlapInv'
  <2>0. size \in Nat /\ \A i \in 1..size : map'[i].base \in Nat BY <1>2, RegionIs, Zenon DEF MapTypes
  <2>1. \A i, j \in 1..size : i < j => InOrder(i, j)' BY <1>2, Zenon DEF InOrder
  <2>2. \A i, j \in 2..size : i < j => InOrder(i, j)' BY <2>0, <2>1
  <2>3. \A i, j \in 1..size : ~(i < j /\ j < 2) BY <2>0
  <2>4. 2 <= size => map'[2].base..(map'[1].base - 1) = {}
    <3> SUFFICES ASSUME 2 <= size PROVE map'[2].base..(map'[1].base - 1) = {} OBVIOUS
    <3>1. 1 \in 1..size /\ 2 \in 1..size BY <2>0
    <3>2. map'[1].base <= map'[2].base BY <2>1, <3>1 DEF InOrder
    <3>3. map'[1].base \in Nat /\ map'[2].base \in Nat BY <2>0, <3>1
    <3> QED BY <3>2, <3>3
  <2>5. turn' - 1 = 1 /\ turn' = 2 /\ size' = size BY <1>1
  <2> QED BY <1>1, <2>1, <2>2, <2>3, <2>4, <2>5 DEF OverlapInv
<1> QED BY <1>1, <1>4, <1>5, <1>6, <1>7 DEF MapInv, RemoveInv, MergeInv

LEMMA SortFirstStep ==
    ASSUME MapInv, SortFirst
    PROVE  MapInv'
<1> DEFINE s == [i \in DOMAIN map |-> Known(map[i])]
<1>1. map \in [DOMAIN bios -> Region] /\ 1..size \subseteq DOMAIN bios BY DEF MapInv, MapTypes
<1>2. s \in [DOMAIN bios -> Region] BY <1>1, KnownIs
<1>3. \A i \in 1..size : s[i] = Known(map[i]) /\ map[i] \in Region BY <1>1
<1> HIDE DEF s
<1>4. \A i \in 1..size : /\ s[i].kind \in {TYPE_USABLE, TYPE_RESERVED} /\ Within(s[i]) = Within(map[i])
                         /\ s[i].kind = TYPE_USABLE <=> map[i].kind = TYPE_USABLE BY <1>3, KnownIs
<1>5. loop # "remove" /\ map' \in Sorted(s) /\ Proceed("overlap", 2) /\ UNCHANGED <<size, len>> BY DEF SortFirst, s
<1> QED BY <1>2, <1>4, <1>5, PassBegins

LEMMA ResortStep ==
    ASSUME MapInv, Resort
    PROVE  MapInv'
<1>1. loop = "overlap" /\ map' \in Sorted(map) /\ Proceed("overlap", 2) /\ UNCHANGED <<size, len>> BY DEF Resort
<1>2. map \in [DOMAIN bios -> Region] /\ \A i \in 1..size : map[i].kind \in {TYPE_USABLE, TYPE_RESERVED}
    BY <1>1 DEF MapInv, MapTypes
<1> QED BY <1>1, <1>2, PassBegins

-----------------------------------------------------------------------------
(* A turn of the pass over the overlaps.                                   *)
LEMMA OverlapFacts ==
    ASSUME MapInv, Overlap
    PROVE  /\ loop = "overlap" /\ loop' = "overlap" /\ turn' = turn + 1 /\ UNCHANGED <<bios, size, len>>
           /\ size \in Nat /\ turn \in 2..size /\ turn \in 1..size /\ turn - 1 \in 1..size
           /\ Live = 1..size /\ Live' = 1..size
           /\ \A i \in 1..size : /\ map[i] \in Region /\ map[i].base \in Nat /\ map[i].length \in Nat
                                 /\ EndOf(map[i]) = map[i].base + map[i].length /\ EndOf(map[i]) \in Nat
                                 /\ map[i].kind \in {TYPE_USABLE, TYPE_RESERVED}
<1>1. loop = "overlap" /\ loop' = "overlap" /\ turn' = turn + 1 /\ UNCHANGED <<bios, size, len>> /\ turn <= size BY DEF Overlap
<1>2. turn \in Nat /\ size \in Nat /\ turn >= 2 BY <1>1 DEF MapInv, MapTypes, OverlapInv
<1>3. Live = 1..size /\ Live' = 1..size BY <1>1 DEF Live
<1>4. \A i \in 1..size : map[i] \in Region /\ map[i].kind \in {TYPE_USABLE, TYPE_RESERVED} BY <1>1 DEF MapInv, MapTypes
<1> QED BY <1>1, <1>2, <1>3, <1>4, RegionIs

LEMMA TouchStep ==
    ASSUME MapInv, Overlap, map' = map, moved' = moved, EndOf(map[turn - 1]) - map[turn].base <= 0
    PROVE  MapInv'
<1> MapTypes /\ Offers /\ Restricts /\ OverlapInv BY DEF MapInv
<1>1. /\ loop = "overlap" /\ loop' = "overlap" /\ turn' = turn + 1 /\ UNCHANGED <<bios, size, len>>
      /\ size \in Nat /\ turn \in 2..size /\ turn \in 1..size /\ turn - 1 \in 1..size
      /\ Live = 1..size /\ Live' = 1..size
    BY OverlapFacts
<1>r. \A i \in 1..size : /\ map[i] \in Region /\ map[i].base \in Nat /\ map[i].length \in Nat
                          /\ EndOf(map[i]) = map[i].base + map[i].length /\ EndOf(map[i]) \in Nat
                          /\ map[i].kind \in {TYPE_USABLE, TYPE_RESERVED}
    BY OverlapFacts
<1>t. /\ map[turn] \in Region /\ map[turn].base \in Nat
      /\ map[turn - 1] \in Region /\ map[turn - 1].base \in Nat /\ map[turn - 1].length \in Nat
      /\ EndOf(map[turn - 1]) = map[turn - 1].base + map[turn - 1].length /\ EndOf(map[turn - 1]) \in Nat
    BY <1>1, <1>r
<1>2. MapTypes' BY <1>1 DEF MapTypes
<1>3. Offers' /\ Restricts'
  <2>1. Offers' BY <1>1 DEF Offers
  <2>2. Restricts' BY <1>1 DEF Restricts
  <2> QED BY <2>1, <2>2
<1>4. \A i, j \in turn'..size : i < j => InOrder(i, j)'
  <2>1. \A i, j \in turn..size : i < j => InOrder(i, j) BY <1>1 DEF OverlapInv
  <2> QED BY <1>1, <2>1 DEF InOrder
<1>5. turn + 1 <= size => map[turn + 1].base..(map[turn].base - 1) = {}
  <2> SUFFICES ASSUME turn + 1 <= size PROVE map[turn + 1].base..(map[turn].base - 1) = {} OBVIOUS
  <2>1. turn + 1 \in 1..size /\ turn + 1 \in turn..size /\ turn \in turn..size /\ turn < turn + 1 BY <1>1
  <2>2. map[turn].base <= map[turn + 1].base BY <1>1, <2>1 DEF OverlapInv, InOrder
  <2>3. map[turn + 1].base \in Nat BY <1>r, <2>1
  <2> QED BY <1>t, <2>2, <2>3
<1>6. ~moved => \A i, j \in 1..size : i < j => InOrder(i, j) BY <1>1 DEF OverlapInv
<1>7. ASSUME ~moved, NEW i \in 1..size, NEW j \in 1..size, i < j, j < turn + 1 PROVE Apart(i, j)
  <2>1. CASE j < turn BY <1>1, <1>7, <2>1 DEF OverlapInv
  <2>2. CASE j = turn /\ i = turn - 1 BY <1>t, <2>2 DEF Apart
  <2>3. CASE j = turn /\ i < turn - 1
    <3>1. Apart(i, turn - 1) BY <1>1, <1>7, <2>3 DEF OverlapInv
    <3>2. InOrder(turn - 1, turn) BY <1>1, <1>6, <1>7
    <3>3. EndOf(map[i]) \in Nat BY <1>r
    <3> QED BY <1>t, <2>3, <3>1, <3>2, <3>3 DEF Apart, InOrder
  <2> QED BY <1>1, <1>7, <2>1, <2>2, <2>3
<1>8. OverlapInv'
  <2>1. turn' >= 2 /\ turn' - 1 = turn BY <1>1
  <2>2. turn' <= size' => map'[turn'].base..(map'[turn' - 1].base - 1) = {} BY <1>1, <1>5, <2>1
  <2>3. ~moved' => \A i, j \in 1..size' : i < j => InOrder(i, j)' BY <1>1, <1>6 DEF InOrder
  <2>4. ~moved' => \A i, j \in 1..size' : i < j /\ j < turn' => Apart(i, j)' BY <1>1, <1>7 DEF Apart
  <2> QED BY <1>1, <1>4, <2>1, <2>2, <2>3, <2>4 DEF OverlapInv
<1> QED BY <1>1, <1>2, <1>3, <1>8 DEF MapInv, RemoveInv, MergeInv

LEMMA MovedStep ==
    ASSUME MapInv, Overlap, map[turn - 1].kind = TYPE_RESERVED, moved',
           NEW d, d = EndOf(map[turn - 1]) - map[turn].base, d > 0, map' = [map EXCEPT ![turn] = Moved(map[turn], d)]
    PROVE  MapInv'
<1> MapTypes /\ Offers /\ Restricts /\ OverlapInv BY DEF MapInv
<1>1. /\ loop = "overlap" /\ loop' = "overlap" /\ turn' = turn + 1 /\ UNCHANGED <<bios, size, len>>
      /\ size \in Nat /\ turn \in 2..size /\ turn \in 1..size /\ turn - 1 \in 1..size
      /\ Live = 1..size /\ Live' = 1..size
    BY OverlapFacts
<1>r. \A i \in 1..size : /\ map[i] \in Region /\ map[i].base \in Nat /\ map[i].length \in Nat
                          /\ EndOf(map[i]) = map[i].base + map[i].length /\ EndOf(map[i]) \in Nat
                          /\ map[i].kind \in {TYPE_USABLE, TYPE_RESERVED}
    BY OverlapFacts
<1>t. /\ map[turn] \in Region /\ map[turn].base \in Nat
      /\ map[turn - 1] \in Region /\ map[turn - 1].base \in Nat /\ map[turn - 1].length \in Nat
      /\ EndOf(map[turn - 1]) = map[turn - 1].base + map[turn - 1].length /\ EndOf(map[turn - 1]) \in Nat
    BY <1>1, <1>r
<1>2. d \in Nat BY <1>t
<1>3. map \in [DOMAIN bios -> Region] /\ turn \in DOMAIN bios /\ 1..size \subseteq DOMAIN bios BY <1>1 DEF MapTypes
<1>4. /\ Moved(map[turn], d) \in Region /\ Moved(map[turn], d).kind = map[turn].kind
      /\ Moved(map[turn], d).base = EndOf(map[turn - 1])
      /\ \A a : a \in Within(Moved(map[turn], d)) <=> a \in Within(map[turn]) /\ EndOf(map[turn - 1]) <= a
  <2>1. map[turn].base + d = EndOf(map[turn - 1]) BY <1>2, <1>t
  <2> PICK r : r = map[turn] OBVIOUS
  <2>2. r \in Region /\ d \in Nat BY <1>2, <1>t
  <2>3. /\ Moved(r, d) \in Region /\ Moved(r, d).kind = r.kind /\ Moved(r, d).base = r.base + d
        /\ \A a : a \in Within(Moved(r, d)) <=> a \in Within(r) /\ r.base + d <= a BY <2>2, MovedIs
  <2> QED BY <2>1, <2>3
<1>5. map' \in [DOMAIN bios -> Region] /\ map'[turn] = Moved(map[turn], d)
      /\ \A i \in 1..size \ {turn} : map'[i] = map[i] BY <1>3, <1>4
<1>6. MapTypes'
  <2>1. \A i \in 1..size : map'[i].kind \in {TYPE_USABLE, TYPE_RESERVED} BY <1>1, <1>r, <1>4, <1>5
  <2> QED BY <1>1, <1>5, <2>1 DEF MapTypes
<1>7. Offers'
  <2> SUFFICES ASSUME NEW i \in 1..size, map'[i].kind = TYPE_USABLE, NEW a \in Within(map'[i])
               PROVE  \E j \in DOMAIN bios : a \in Within(bios[j]) /\ bios[j].kind = TYPE_USABLE
      BY <1>1 DEF Offers
  <2>1. a \in Within(map[i]) /\ map[i].kind = TYPE_USABLE BY <1>4, <1>5
  <2> QED BY <1>1, <2>1, Zenon DEF Offers
(* The addresses that the region gives up are reserved before it.          *)
<1>8. ASSUME NEW a, a \in Nat, map[turn].base <= a, a < EndOf(map[turn - 1])
      PROVE  \E i \in 1..(turn - 1) : a \in Within(map[i]) /\ map[i].kind = TYPE_RESERVED
  <2>1. CASE map[turn - 1].base <= a
    <3>1. a \in Within(map[turn - 1]) BY <1>t, <1>8, <2>1, WithinIs
    <3>2. turn - 1 \in 1..(turn - 1) BY <1>1
    <3> QED BY <3>1, <3>2
  <2>2. CASE a < map[turn - 1].base
    <3>1. a \in map[turn].base..(map[turn - 1].base - 1) BY <1>t, <1>8, <2>2
    <3>2. PICK i \in 1..(turn - 2) : a \in Within(map[i]) /\ map[i].kind = TYPE_RESERVED BY <1>1, <3>1 DEF OverlapInv
    <3>3. i \in 1..(turn - 1) BY <1>1
    <3> QED BY <3>2, <3>3
  <2> QED BY <1>t, <1>8, <2>1, <2>2
<1>9. ASSUME NEW a, a \in Nat, map[turn].base <= a, a < EndOf(map[turn - 1])
      PROVE  \E i \in 1..(turn - 1) : a \in Within(map'[i]) /\ map'[i].kind = TYPE_RESERVED
  <2>1. PICK i \in 1..(turn - 1) : a \in Within(map[i]) /\ map[i].kind = TYPE_RESERVED BY <1>8, <1>9
  <2>2. i \in 1..size \ {turn} BY <1>1
  <2> QED BY <1>5, <2>1, <2>2
<1>10. Restricts'
  <2> SUFFICES ASSUME NEW j \in DOMAIN bios, bios[j].kind # TYPE_USABLE, NEW a \in Within(bios[j])
               PROVE  \E i \in 1..size : a \in Within(map'[i]) /\ map'[i].kind # TYPE_USABLE
      BY <1>1 DEF Restricts
  <2>1. PICK k \in 1..size : a \in Within(map[k]) /\ map[k].kind # TYPE_USABLE BY <1>1 DEF Restricts
  <2>2. CASE k # turn BY <1>5, <2>1, <2>2
  <2>3. CASE k = turn /\ EndOf(map[turn - 1]) <= a BY <1>1, <1>4, <1>5, <2>1, <2>3
  <2>4. CASE k = turn /\ ~(EndOf(map[turn - 1]) <= a)
    <3>1. a \in Nat /\ map[turn].base <= a BY <1>t, <2>1, <2>4, WithinIs
    <3>2. a < EndOf(map[turn - 1]) BY <1>t, <2>4, <3>1
    <3>3. PICK i \in 1..(turn - 1) : a \in Within(map'[i]) /\ map'[i].kind = TYPE_RESERVED BY <1>9, <3>1, <3>2
    <3>4. i \in 1..size /\ map'[i].kind # TYPE_USABLE BY <1>1, <3>3 DEF TYPE_USABLE, TYPE_RESERVED
    <3> QED BY <3>3, <3>4
  <2> QED BY <2>2, <2>3, <2>4
<1>11. OverlapInv'
  <2>1. turn' >= 2 /\ turn' - 1 = turn /\ turn' - 2 = turn - 1 BY <1>1
  <2>2. ASSUME NEW i \in turn'..size, NEW j \in turn'..size, i < j PROVE InOrder(i, j)'
    <3>1. i \in turn..size /\ j \in turn..size /\ i \in 1..size \ {turn} /\ j \in 1..size \ {turn} BY <1>1
    <3>2. InOrder(i, j) BY <1>1, <2>2, <3>1 DEF OverlapInv
    <3> QED BY <1>5, <3>1, <3>2 DEF InOrder
  <2>3. ASSUME turn' <= size, NEW a \in map'[turn'].base..(map'[turn' - 1].base - 1)
        PROVE  \E i \in 1..(turn' - 2) : a \in Within(map'[i]) /\ map'[i].kind = TYPE_RESERVED
    <3>1. turn' \in 1..size \ {turn} /\ turn' \in turn..size /\ turn \in turn..size /\ turn < turn' BY <1>1, <2>3
    <3>2. map[turn].base <= map[turn'].base BY <1>1, <3>1 DEF OverlapInv, InOrder
    <3>3. map'[turn'].base = map[turn'].base /\ map'[turn' - 1].base = EndOf(map[turn - 1]) BY <1>4, <1>5, <2>1, <3>1
    <3>4. map[turn'].base \in Nat /\ EndOf(map[turn - 1]) \in Nat /\ map[turn].base \in Nat BY <1>r, <1>t, <3>1
    <3>5. a \in Nat /\ map[turn].base <= a /\ a < EndOf(map[turn - 1]) BY <2>3, <3>2, <3>3, <3>4
    <3> QED BY <1>9, <2>1, <3>5
  <2> QED BY <1>1, <2>1, <2>2, <2>3 DEF OverlapInv
<1> QED BY <1>1, <1>6, <1>7, <1>10, <1>11 DEF MapInv, RemoveInv, MergeInv

LEMMA CutStep ==
    ASSUME MapInv, Overlap, map[turn - 1].kind # TYPE_RESERVED, moved' <=> moved,
           NEW d, d = EndOf(map[turn - 1]) - map[turn].base, d > 0, map' = [map EXCEPT ![turn - 1] = Cut(map[turn - 1], d)]
    PROVE  MapInv'
<1> MapTypes /\ Offers /\ Restricts /\ OverlapInv BY DEF MapInv
<1>1. /\ loop = "overlap" /\ loop' = "overlap" /\ turn' = turn + 1 /\ UNCHANGED <<bios, size, len>>
      /\ size \in Nat /\ turn \in 2..size /\ turn \in 1..size /\ turn - 1 \in 1..size
      /\ Live = 1..size /\ Live' = 1..size
    BY OverlapFacts
<1>r. \A i \in 1..size : /\ map[i] \in Region /\ map[i].base \in Nat /\ map[i].length \in Nat
                          /\ EndOf(map[i]) = map[i].base + map[i].length /\ EndOf(map[i]) \in Nat
                          /\ map[i].kind \in {TYPE_USABLE, TYPE_RESERVED}
    BY OverlapFacts
<1>t. /\ map[turn] \in Region /\ map[turn].base \in Nat
      /\ map[turn - 1] \in Region /\ map[turn - 1].base \in Nat /\ map[turn - 1].length \in Nat
      /\ EndOf(map[turn - 1]) = map[turn - 1].base + map[turn - 1].length /\ EndOf(map[turn - 1]) \in Nat
    BY <1>1, <1>r
<1>2. d \in Nat BY <1>t
<1> PICK h : h = turn - 1 OBVIOUS
<1>3. map \in [DOMAIN bios -> Region] /\ h \in DOMAIN bios /\ 1..size \subseteq DOMAIN bios /\ h \in 1..size BY <1>1 DEF MapTypes
<1>4. /\ Cut(map[h], d) \in Region /\ Cut(map[h], d).kind = map[h].kind /\ Cut(map[h], d).base = map[h].base
      /\ Cut(map[h], d).length = (IF map[h].length > d THEN map[h].length - d ELSE 0)
      /\ \A a : a \in Within(Cut(map[h], d)) => a \in Within(map[h])
    BY <1>2, <1>3, <1>t, CutIs, ZenonT(40)
<1>5. map' \in [DOMAIN bios -> Region] /\ map'[h] = Cut(map[h], d)
      /\ \A i \in 1..size \ {h} : map'[i] = map[i] BY <1>3, <1>4
<1>6. \A i \in 1..size : map'[i].kind = map[i].kind /\ map'[i].base = map[i].base BY <1>4, <1>5
<1>7. MapTypes' BY <1>1, <1>5, <1>6 DEF MapTypes
<1>8. \A i \in 1..size : EndOf(map'[i]) <= EndOf(map[i])
  <2>1. EndOf(map'[h]) = map[h].base + (IF map[h].length > d THEN map[h].length - d ELSE 0) BY <1>4, <1>5 DEF EndOf
  <2>2. EndOf(map'[h]) <= EndOf(map[h]) BY <1>2, <1>t, <2>1
  <2>3. ASSUME NEW i \in 1..size \ {h} PROVE EndOf(map'[i]) <= EndOf(map[i])
    <3>1. EndOf(map[i]) \in Nat /\ map'[i] = map[i] BY <1>r, <1>5
    <3> QED BY <3>1
  <2> QED BY <2>2, <2>3
<1>9. Offers'
  <2> SUFFICES ASSUME NEW i \in 1..size, map'[i].kind = TYPE_USABLE, NEW a \in Within(map'[i])
               PROVE  \E j \in DOMAIN bios : a \in Within(bios[j]) /\ bios[j].kind = TYPE_USABLE
      BY <1>1 DEF Offers
  <2>1. a \in Within(map[i]) /\ map[i].kind = TYPE_USABLE BY <1>4, <1>5, <1>6
  <2> QED BY <1>1, <2>1, Zenon DEF Offers
<1>10. Restricts'
  <2> SUFFICES ASSUME NEW j \in DOMAIN bios, bios[j].kind # TYPE_USABLE, NEW a \in Within(bios[j])
               PROVE  \E i \in 1..size : a \in Within(map'[i]) /\ map'[i].kind # TYPE_USABLE
      BY <1>1 DEF Restricts
  <2>1. PICK k \in 1..size : a \in Within(map[k]) /\ map[k].kind # TYPE_USABLE BY <1>1 DEF Restricts
  <2>2. k # h BY <1>r, <1>3, <2>1
  <2> QED BY <1>5, <2>1, <2>2
<1>11. OverlapInv'
  <2>1. turn' >= 2 /\ turn' - 1 = turn BY <1>1
  <2>2. ASSUME NEW i \in turn'..size, NEW j \in turn'..size, i < j PROVE InOrder(i, j)'
    <3>1. i \in turn..size /\ j \in turn..size /\ i \in 1..size /\ j \in 1..size BY <1>1
    <3>2. InOrder(i, j) BY <1>1, <2>2, <3>1 DEF OverlapInv
    <3> QED BY <1>6, <3>1, <3>2 DEF InOrder
  <2>3. turn' <= size => map'[turn'].base..(map'[turn' - 1].base - 1) = {}
    <3> SUFFICES ASSUME turn' <= size PROVE map'[turn'].base..(map'[turn' - 1].base - 1) = {} OBVIOUS
    <3>1. turn' \in 1..size /\ turn' \in turn..size /\ turn \in turn..size /\ turn < turn' BY <1>1
    <3>2. map[turn].base <= map[turn'].base BY <1>1, <3>1 DEF OverlapInv, InOrder
    <3>3. map'[turn'].base = map[turn'].base /\ map'[turn' - 1].base = map[turn].base BY <1>1, <1>6, <2>1, <3>1
    <3>4. map[turn'].base \in Nat /\ map[turn].base \in Nat BY <1>r, <1>t, <3>1
    <3> QED BY <3>2, <3>3, <3>4
  <2>4. ~moved' => \A i, j \in 1..size : i < j => InOrder(i, j)' BY <1>1, <1>6 DEF OverlapInv, InOrder
  <2>5. ASSUME ~moved, NEW i \in 1..size, NEW j \in 1..size, i < j, j < turn' PROVE Apart(i, j)'
    <3>0. EndOf(map'[i]) <= EndOf(map[i]) /\ EndOf(map[i]) \in Nat /\ map'[j].base = map[j].base /\ map[j].base \in Nat
          /\ EndOf(map'[i]) \in Nat
      <4>1. map'[i] \in Region BY <1>3, <1>5
      <4> QED BY <1>r, <1>6, <1>8, <4>1, RegionIs
    <3>1. CASE j < turn
      <4>1. Apart(i, j) BY <1>1, <2>5, <3>1 DEF OverlapInv
      <4> QED BY <3>0, <4>1 DEF Apart
    <3>2. CASE j = turn /\ i = turn - 1
      <4>1. map[h].base <= map[turn].base BY <1>1, <2>5, <3>2 DEF OverlapInv, InOrder
      <4>2. EndOf(map'[h]) = map[h].base + (IF map[h].length > d THEN map[h].length - d ELSE 0) BY <1>4, <1>5 DEF EndOf
      <4>3. d = map[h].base + map[h].length - map[turn].base BY <1>t
      <4>4. map[h].base \in Nat /\ map[h].length \in Nat /\ map[turn].base \in Nat BY <1>t
      <4>5. EndOf(map'[h]) <= map[turn].base BY <1>2, <4>1, <4>2, <4>3, <4>4
      <4> QED BY <3>0, <3>2, <4>5 DEF Apart
    <3>3. CASE j = turn /\ i < turn - 1
      <4>1. Apart(i, h) BY <1>1, <1>3, <2>5, <3>3 DEF OverlapInv
      <4>2. InOrder(h, turn) BY <1>1, <1>3, <2>5 DEF OverlapInv
      <4>3. map[h].base \in Nat BY <1>t
      <4> QED BY <3>0, <3>3, <4>1, <4>2, <4>3 DEF Apart, InOrder
    <3> QED BY <1>1, <2>5, <3>1, <3>2, <3>3
  <2> QED BY <1>1, <2>1, <2>2, <2>3, <2>4, <2>5 DEF OverlapInv
<1> QED BY <1>1, <1>7, <1>9, <1>10, <1>11 DEF MapInv, RemoveInv, MergeInv

LEMMA OverlapStep ==
    ASSUME MapInv, Overlap
    PROVE  MapInv'
<1> DEFINE d == EndOf(map[turn - 1]) - map[turn].base
<1>1. CASE d <= 0 /\ map' = map /\ moved' = moved BY <1>1, TouchStep
<1>2. CASE d > 0 /\ map[turn - 1].kind = TYPE_RESERVED /\ map' = [map EXCEPT ![turn] = Moved(map[turn], d)] /\ moved'
    BY <1>2, MovedStep, Zenon
<1>3. CASE d > 0 /\ map[turn - 1].kind # TYPE_RESERVED /\ map' = [map EXCEPT ![turn - 1] = Cut(map[turn - 1], d)]
           /\ (moved' <=> moved)
    BY <1>3, CutStep, Zenon
<1>4. EndOf(map[turn - 1]) \in Nat /\ map[turn].base \in Nat BY OverlapFacts
<1>5. d \in Int BY <1>4
<1>6. IF d <= 0 THEN UNCHANGED <<map, moved>>
      ELSE /\ map' = IF map[turn - 1].kind = TYPE_RESERVED THEN [map EXCEPT ![turn] = Moved(map[turn], d)]
                                                         ELSE [map EXCEPT ![turn - 1] = Cut(map[turn - 1], d)]
           /\ moved' = (moved \/ map[turn - 1].kind = TYPE_RESERVED)
    BY Zenon DEF Overlap
<1> HIDE DEF d
<1>7. d <= 0 <=> ~(d > 0) BY <1>5
<1>8. CASE d <= 0 BY <1>1, <1>6, <1>8
<1>9. CASE d > 0 /\ map[turn - 1].kind = TYPE_RESERVED
  <2>1. map' = [map EXCEPT ![turn] = Moved(map[turn], d)] /\ moved' BY <1>6, <1>7, <1>9, Zenon
  <2> QED BY <1>2, <1>9, <2>1
<1>10. CASE d > 0 /\ map[turn - 1].kind # TYPE_RESERVED
  <2>1. map' = [map EXCEPT ![turn - 1] = Cut(map[turn - 1], d)] /\ (moved' <=> moved) BY <1>6, <1>7, <1>10, Zenon
  <2> QED BY <1>3, <1>10, <2>1
<1> QED BY <1>7, <1>8, <1>9, <1>10

-----------------------------------------------------------------------------
LEMMA BeginRemoveStep ==
    ASSUME MapInv, BeginRemove
    PROVE  MapInv'
<1> MapTypes /\ Offers /\ Restricts /\ OverlapInv BY DEF MapInv
<1>1. /\ loop = "overlap" /\ turn > size /\ ~moved /\ loop' = "remove" /\ turn' = 1 /\ len' = 0
      /\ UNCHANGED <<bios, map, size>> BY DEF BeginRemove, Proceed
<1>2. size \in Nat /\ turn \in Nat BY DEF MapTypes
<1>3. Live = 1..size /\ Live' = 1..size BY <1>1, <1>2 DEF Live
<1>4. MapTypes' BY <1>1 DEF MapTypes
<1>5. Offers' BY <1>1, <1>3 DEF Offers
<1>6. Restricts' BY <1>1, <1>3 DEF Restricts
<1>7. RemoveInv'
  <2>1. \A i, j \in 1..size : i < j => Apart(i, j) BY <1>1, <1>2 DEF OverlapInv
  <2>2. \A i, j \in Live' : i < j => Apart(i, j)' BY <1>1, <1>3, <2>1 DEF Apart
  <2>3. len' < turn' /\ turn' <= size' + 1 /\ 1..len' = {} BY <1>1, <1>2
  <2> QED BY <2>2, <2>3 DEF RemoveInv
<1> QED BY <1>1, <1>4, <1>5, <1>6, <1>7 DEF MapInv, OverlapInv, MergeInv

LEMMA RemoveEmptyStep ==
    ASSUME MapInv, RemoveEmpty
    PROVE  MapInv'
<1> MapTypes /\ Offers /\ Restricts /\ RemoveInv BY DEF MapInv
<1>1. loop = "remove" /\ loop' = "remove" /\ turn <= size /\ turn' = turn + 1 /\ UNCHANGED <<bios, size, moved>>
    BY DEF RemoveEmpty
<1>2. size \in Nat /\ turn \in Nat \ {0} /\ len \in Nat /\ len < turn BY <1>1 DEF MapTypes, RemoveInv
<1>3. Live = (1..len) \cup (turn..size) BY <1>1 DEF Live
<1>4. turn \in Live /\ turn \in 1..size /\ len + 1 \in 1..size BY <1>1, <1>2, <1>3
<1>5. \A i, j \in Live : i < j => Apart(i, j) BY <1>1 DEF RemoveInv
<1>6. \A i \in 1..len : map[i].length > 0 BY <1>1 DEF RemoveInv
<1>7. map \in [DOMAIN bios -> Region] /\ (\A i \in 1..size : map[i].kind \in {TYPE_USABLE, TYPE_RESERVED})
      /\ 1..size \subseteq DOMAIN bios BY <1>1 DEF MapTypes
<1>8. CASE map[turn].length > 0
  <2>1. map' = [map EXCEPT ![len + 1] = map[turn]] /\ len' = len + 1 BY <1>8 DEF RemoveEmpty
  <2>2. Live' = (1..(len + 1)) \cup ((turn + 1)..size) BY <1>1, <2>1 DEF Live
  <2>3. /\ map' \in [DOMAIN bios -> Region] /\ map'[len + 1] = map[turn]
        /\ \A i \in DOMAIN bios \ {len + 1} : map'[i] = map[i] BY <1>4, <1>7, <2>1
  <2>4. MapTypes'
    <3>1. \A i \in 1..size : map'[i].kind \in {TYPE_USABLE, TYPE_RESERVED} BY <1>4, <1>7, <2>3
    <3>2. size' \in Nat /\ turn' \in Nat \ {0} /\ len' \in Nat BY <1>1, <1>2, <2>1
    <3> QED BY <1>1, <2>3, <3>1, <3>2 DEF MapTypes
(* Where an entry that counts was before.                                  *)
  <2>5. ASSUME NEW k \in Live'
        PROVE  \/ k = len + 1 /\ map'[k] = map[turn]
               \/ k # len + 1 /\ k \in Live /\ k # turn /\ map'[k] = map[k]
    <3>1. CASE k = len + 1 BY <2>3, <3>1
    <3>2. CASE k # len + 1
      <4>1. k \in Live /\ k # turn /\ k \in 1..size BY <1>1, <1>2, <1>3, <2>2, <3>2
      <4> QED BY <1>7, <2>3, <3>2, <4>1
    <3> QED BY <3>1, <3>2
  <2>6. Offers'
    <3> SUFFICES ASSUME NEW i \in Live', map'[i].kind = TYPE_USABLE, NEW a \in Within(map'[i])
                 PROVE  \E j \in DOMAIN bios : a \in Within(bios[j]) /\ bios[j].kind = TYPE_USABLE
        BY <1>1 DEF Offers
    <3>1. PICK k \in Live : map'[i] = map[k] BY <1>4, <2>5, Zenon
    <3> QED BY <3>1 DEF Offers
  <2>7. Restricts'
    <3> SUFFICES ASSUME NEW j \in DOMAIN bios, bios[j].kind # TYPE_USABLE, NEW a \in Within(bios[j])
                 PROVE  \E i \in Live' : a \in Within(map'[i]) /\ map'[i].kind # TYPE_USABLE
        BY <1>1 DEF Restricts
    <3>1. PICK k \in Live : a \in Within(map[k]) /\ map[k].kind # TYPE_USABLE BY DEF Restricts
    <3>2. CASE k = turn
      <4>1. len + 1 \in Live' BY <1>2, <2>2
      <4> QED BY <2>3, <3>1, <3>2, <4>1
    <3>3. CASE k # turn
      <4>1. k \in Live' /\ k # len + 1 /\ k \in 1..size BY <1>1, <1>2, <1>3, <2>2, <3>3
      <4>2. map'[k] = map[k] BY <1>7, <2>3, <4>1
      <4> QED BY <3>1, <4>1, <4>2
    <3> QED BY <3>2, <3>3
  <2>8. ASSUME NEW i \in Live', NEW j \in Live', i < j PROVE Apart(i, j)'
    <3>1. CASE i = len + 1
      <4>1. j # len + 1 /\ turn < j BY <1>2, <2>2, <2>8, <3>1
      <4>2. j \in Live /\ map'[j] = map[j] /\ map'[i] = map[turn] BY <2>3, <2>5, <3>1, <4>1
      <4> QED BY <1>4, <1>5, <4>1, <4>2 DEF Apart
    <3>2. CASE i # len + 1 /\ j = len + 1
      <4>1. i < turn BY <1>2, <2>2, <2>8, <3>2
      <4>2. i \in Live /\ map'[i] = map[i] /\ map'[j] = map[turn] BY <2>3, <2>5, <3>2
      <4> QED BY <1>4, <1>5, <4>1, <4>2 DEF Apart
    <3>3. CASE i # len + 1 /\ j # len + 1
      <4>1. i \in Live /\ map'[i] = map[i] /\ j \in Live /\ map'[j] = map[j] BY <2>5, <3>3
      <4> QED BY <1>5, <2>8, <4>1 DEF Apart
    <3> QED BY <3>1, <3>2, <3>3
  <2>9. RemoveInv'
    <3>1. len' < turn' /\ turn' <= size' + 1 BY <1>1, <1>2, <2>1
    <3>2. ASSUME NEW i \in 1..len' PROVE map'[i].length > 0
      <4>1. i \in Live' /\ (i = len + 1 \/ i \in 1..len) BY <1>2, <2>1, <2>2
      <4> QED BY <1>6, <1>8, <2>5, <4>1
    <3> QED BY <2>8, <3>1, <3>2 DEF RemoveInv
  <2> QED BY <1>1, <2>4, <2>6, <2>7, <2>9 DEF MapInv, OverlapInv, MergeInv
<1>9. CASE ~(map[turn].length > 0)
  <2>1. map' = map /\ len' = len BY <1>9 DEF RemoveEmpty
  <2>2. Live' = (1..len) \cup ((turn + 1)..size) BY <1>1, <2>1 DEF Live
  <2>3. \A k : k \in Live' <=> k \in Live /\ k # turn BY <1>1, <1>2, <1>3, <2>2
  <2>4. Within(map[turn]) = {}
    <3>1. map[turn] \in Region BY <1>4, <1>7
    <3>2. \A a : a \notin Within(map[turn]) BY <1>9, <3>1, WithinIs, RegionIs
    <3> QED BY <3>2
  <2>5. MapTypes' BY <1>1, <1>2, <2>1 DEF MapTypes
  <2>6. Offers' BY <1>1, <2>1, <2>3 DEF Offers
  <2>7. Restricts'
    <3> SUFFICES ASSUME NEW j \in DOMAIN bios, bios[j].kind # TYPE_USABLE, NEW a \in Within(bios[j])
                 PROVE  \E i \in Live' : a \in Within(map[i]) /\ map[i].kind # TYPE_USABLE
        BY <1>1, <2>1 DEF Restricts
    <3>1. PICK k \in Live : a \in Within(map[k]) /\ map[k].kind # TYPE_USABLE BY DEF Restricts
    <3> QED BY <2>3, <2>4, <3>1
  <2>8. RemoveInv'
    <3>1. len' < turn' /\ turn' <= size' + 1 BY <1>1, <1>2, <2>1
    <3>2. \A i, j \in Live' : i < j => Apart(i, j)' BY <1>5, <2>1, <2>3 DEF Apart
    <3> QED BY <1>6, <2>1, <3>1, <3>2 DEF RemoveInv
  <2> QED BY <1>1, <2>5, <2>6, <2>7, <2>8 DEF MapInv, OverlapInv, MergeInv
<1> QED BY <1>8, <1>9

LEMMA EndRemoveStep ==
    ASSUME MapInv, EndRemove
    PROVE  MapInv'
<1> MapTypes /\ Offers /\ Restricts /\ RemoveInv BY DEF MapInv
<1>1. /\ loop = "remove" /\ turn > size /\ size' = len /\ UNCHANGED <<bios, map, len>> /\ turn' = 2 /\ moved' = FALSE
      /\ loop' = IF len = size THEN "merge" ELSE "overlap" BY DEF EndRemove, Proceed
<1>2. size \in Nat /\ turn \in Nat /\ len \in Nat /\ len < turn /\ turn <= size + 1 BY <1>1 DEF MapTypes, RemoveInv
<1>3. Live = 1..len /\ len <= size BY <1>1, <1>2 DEF Live
<1>4. Live' = 1..len BY <1>1 DEF Live
<1>5. MapTypes'
  <2>1. 1..len \subseteq 1..size BY <1>2, <1>3
  <2> QED BY <1>1, <1>2, <2>1 DEF MapTypes
<1>6. Offers' BY <1>1, <1>3, <1>4 DEF Offers
<1>7. Restricts' BY <1>1, <1>3, <1>4 DEF Restricts
<1>8. \A i, j \in 1..len : i < j => Apart(i, j) BY <1>1, <1>3 DEF RemoveInv
<1>9. \A i \in 1..len : map[i].length > 0 BY <1>1 DEF RemoveInv
<1>10. MergeInv'
  <2>1. \A i \in 2..len : ~(i < 2) BY <1>2
  <2>2. \A i, j \in 1..len : i < j => Apart(i, j)' BY <1>1, <1>8 DEF Apart
  <2>3. loop' # "done" BY <1>1
  <2> QED BY <1>1, <1>9, <2>1, <2>2, <2>3 DEF MergeInv
<1>11. OverlapInv'
  <2>0. \A i \in 1..len : map[i].base \in Nat /\ map[i].length \in Nat /\ EndOf(map[i]) = map[i].base + map[i].length
    <3>1. \A i \in 1..len : map[i] \in Region BY <1>2, <1>3 DEF MapTypes
    <3> QED BY <3>1, RegionIs
  <2>1. \A i, j \in 1..len : i < j => InOrder(i, j)
    <3>1. ASSUME NEW i \in 1..len, NEW j \in 1..len, i < j PROVE InOrder(i, j)
      <4>1. EndOf(map[i]) <= map[j].base BY <1>8, <3>1 DEF Apart
      <4>2. map[i].base \in Nat /\ map[i].length \in Nat /\ EndOf(map[i]) = map[i].base + map[i].length /\ map[j].base \in Nat
          BY <2>0
      <4> QED BY <4>1, <4>2 DEF InOrder
    <3> QED BY <3>1
  <2>2. \A i, j \in 2..len : i < j => InOrder(i, j)'
    <3>1. \A i \in 2..len : i \in 1..len BY <1>2
    <3> QED BY <1>1, <2>1, <3>1 DEF InOrder
  <2>3. \A i, j \in 1..len : i < j => InOrder(i, j)' BY <1>1, <2>1 DEF InOrder
  <2>4. \A i, j \in 1..len : ~(i < j /\ j < 2) BY <1>2
  <2>5. 2 <= len => map[2].base..(map[1].base - 1) = {}
    <3> SUFFICES ASSUME 2 <= len PROVE map[2].base..(map[1].base - 1) = {} OBVIOUS
    <3>1. 1 \in 1..len /\ 2 \in 1..len BY <1>2
    <3>2. map[1].base <= map[2].base BY <2>1, <3>1 DEF InOrder
    <3>3. map[1].base \in Nat /\ map[2].base \in Nat BY <2>0, <3>1
    <3> QED BY <3>2, <3>3
  <2>6. turn' - 1 = 1 /\ turn' = 2 /\ size' = len /\ map' = map BY <1>1
  <2> QED BY <2>2, <2>3, <2>4, <2>5, <2>6 DEF OverlapInv
<1>12. RemoveInv' BY <1>1 DEF RemoveInv
<1> QED BY <1>5, <1>6, <1>7, <1>10, <1>11, <1>12 DEF MapInv

LEMMA MergeStep ==
    ASSUME MapInv, Merge
    PROVE  MapInv'
<1> MapTypes /\ Offers /\ Restricts /\ MergeInv BY DEF MapInv
<1>1. loop = "merge" /\ turn <= size /\ UNCHANGED <<bios, loop, len, moved>> BY DEF Merge
<1>2. size \in Nat /\ turn \in Nat /\ turn >= 2 /\ turn \in 1..size /\ turn - 1 \in 1..size
    BY <1>1 DEF MapTypes, MergeInv
<1>3. Live = 1..size /\ Live' = 1..size' BY <1>1 DEF Live
<1>4. \A i \in 1..size : map[i] \in Region /\ map[i].kind \in {TYPE_USABLE, TYPE_RESERVED} /\ map[i].length > 0
    BY <1>1 DEF MapTypes, MergeInv
<1>5. \A i, j \in 1..size : i < j => Apart(i, j) BY <1>1 DEF MergeInv
<1>6. \A i \in 2..size : i < turn => ~Merges(i) BY <1>1 DEF MergeInv
<1>7. OverlapInv' /\ RemoveInv' BY <1>1 DEF OverlapInv, RemoveInv
<1>8. CASE ~Merges(turn)
  <2>1. turn' = turn + 1 /\ map' = map /\ size' = size BY <1>8 DEF Merge
  <2>2. MapTypes' BY <1>1, <1>2, <2>1 DEF MapTypes
  <2>3. Offers' BY <1>1, <1>3, <2>1 DEF Offers
  <2>4. Restricts' BY <1>1, <1>3, <2>1 DEF Restricts
  <2>5. MergeInv'
    <3>1. \A i \in 2..size : i < turn' => ~Merges(i)
      <4>1. \A i \in 2..size : i < turn' => i < turn \/ i = turn BY <1>2, <2>1
      <4> QED BY <1>6, <1>8, <4>1
    <3>2. \A i \in 2..size' : i < turn' => ~Merges(i)' BY <2>1, <3>1 DEF Merges
    <3>3. \A i, j \in 1..size' : i < j => Apart(i, j)' BY <1>5, <2>1 DEF Apart
    <3>4. turn' >= 2 /\ loop' # "done" BY <1>1, <1>2, <2>1
    <3>5. \A i \in 1..size' : map'[i].length > 0 BY <1>4, <2>1
    <3> QED BY <3>2, <3>3, <3>4, <3>5 DEF MergeInv
  <2> QED BY <1>7, <2>2, <2>3, <2>4, <2>5 DEF MapInv
<1>9. CASE Merges(turn)
  <2> PICK J : J = Joined(map[turn - 1], map[turn].length) OBVIOUS
  <2>1. /\ size' = size - 1 /\ turn' = turn
        /\ map' = [j \in DOMAIN map |-> IF j = turn - 1 THEN Joined(map[j], map[turn].length)
                                        ELSE IF j \in turn..(size - 1) THEN map[j + 1] ELSE map[j]]
      BY <1>9 DEF Merge
  <2>2. /\ J \in Region /\ J.kind = map[turn - 1].kind /\ J.base = map[turn - 1].base
        /\ J.length = map[turn - 1].length + map[turn].length /\ EndOf(J) = EndOf(map[turn])
        /\ \A a : a \in Within(J) <=> a \in Within(map[turn - 1]) \/ a \in Within(map[turn])
    <3>1. map[turn - 1] \in Region /\ map[turn] \in Region BY <1>2, <1>4
    <3>2. EndOf(map[turn - 1]) = map[turn].base BY <1>9 DEF Merges
    <3> QED BY <3>1, <3>2, JoinedIs
  <2>3. DOMAIN map = DOMAIN bios /\ 1..size \subseteq DOMAIN bios BY DEF MapTypes
  <2>4. map'[turn - 1] = J BY <1>2, <2>1, <2>3
  <2>5. ASSUME NEW k \in 1..size', k < turn - 1 PROVE k \in 1..size /\ map'[k] = map[k]
    <3>1. k \in 1..size /\ k \notin turn..(size - 1) BY <1>2, <2>1, <2>5
    <3> QED BY <2>1, <2>3, <2>5, <3>1
  <2>6. ASSUME NEW k \in 1..size', k > turn - 1 PROVE k + 1 \in 1..size /\ turn < k + 1 /\ map'[k] = map[k + 1]
    <3>1. k \in 1..size /\ k \in turn..(size - 1) /\ k # turn - 1 /\ k + 1 \in 1..size /\ turn < k + 1
        BY <1>2, <2>1, <2>6
    <3> QED BY <2>1, <2>3, <3>1
  <2>7. \A k \in 1..size' : k < turn - 1 \/ k = turn - 1 \/ k > turn - 1 BY <1>2, <2>1
  <2>8. map' \in [DOMAIN bios -> Region]
    <3>1. \A j \in DOMAIN bios : map[j] \in Region BY DEF MapTypes
    <3>2. \A j \in turn..(size - 1) : j + 1 \in 1..size BY <1>2
    <3>3. \A j \in DOMAIN bios : map'[j] \in Region
      <4> SUFFICES ASSUME NEW j \in DOMAIN bios PROVE map'[j] \in Region OBVIOUS
      <4>1. CASE j = turn - 1 BY <2>2, <2>4, <4>1
      <4>2. CASE j # turn - 1 /\ j \in turn..(size - 1) BY <1>4, <2>1, <2>3, <3>2, <4>2
      <4>3. CASE j # turn - 1 /\ j \notin turn..(size - 1) BY <2>1, <2>3, <3>1, <4>3
      <4> QED BY <4>1, <4>2, <4>3
    <3> QED BY <2>1, <2>3, <3>3
  <2>9. \A k \in 1..size' : map'[k].kind \in {TYPE_USABLE, TYPE_RESERVED}
    <3> SUFFICES ASSUME NEW k \in 1..size' PROVE map'[k].kind \in {TYPE_USABLE, TYPE_RESERVED} OBVIOUS
    <3>1. CASE k < turn - 1 BY <1>4, <2>5, <3>1
    <3>2. CASE k = turn - 1 BY <1>2, <1>4, <2>2, <2>4, <3>2
    <3>3. CASE k > turn - 1 BY <1>4, <2>6, <3>3
    <3> QED BY <2>7, <3>1, <3>2, <3>3
  <2>10. MapTypes'
    <3>1. size' \in Nat /\ 1..size' \subseteq 1..size BY <1>2, <2>1
    <3> QED BY <1>1, <1>2, <2>1, <2>3, <2>8, <2>9, <3>1, Zenon DEF MapTypes
  <2>11. Offers'
    <3> SUFFICES ASSUME NEW i \in 1..size', map'[i].kind = TYPE_USABLE, NEW a \in Within(map'[i])
                 PROVE  \E j \in DOMAIN bios : a \in Within(bios[j]) /\ bios[j].kind = TYPE_USABLE
        BY <1>1, <1>3 DEF Offers
    <3>1. PICK k \in 1..size : map[k].kind = TYPE_USABLE /\ a \in Within(map[k])
      <4>1. CASE i < turn - 1 BY <2>5, <4>1
      <4>2. CASE i = turn - 1
        <5>1. map[turn].kind = map[turn - 1].kind BY <1>9 DEF Merges
        <5> QED BY <1>2, <2>2, <2>4, <4>2, <5>1
      <4>3. CASE i > turn - 1 BY <2>6, <4>3
      <4> QED BY <2>7, <4>1, <4>2, <4>3
    <3> QED BY <1>3, <3>1 DEF Offers
  <2>12. Restricts'
    <3> SUFFICES ASSUME NEW j \in DOMAIN bios, bios[j].kind # TYPE_USABLE, NEW a \in Within(bios[j])
                 PROVE  \E i \in 1..size' : a \in Within(map'[i]) /\ map'[i].kind # TYPE_USABLE
        BY <1>1, <1>3 DEF Restricts
    <3>1. PICK k \in 1..size : a \in Within(map[k]) /\ map[k].kind # TYPE_USABLE BY <1>3 DEF Restricts
    <3>2. CASE k < turn - 1
      <4>1. k \in 1..size' BY <1>2, <2>1, <3>2
      <4> QED BY <2>5, <3>1, <3>2, <4>1
    <3>3. CASE k = turn - 1 \/ k = turn
      <4>1. turn - 1 \in 1..size' BY <1>2, <2>1
      <4>2. map[turn].kind = map[turn - 1].kind BY <1>9 DEF Merges
      <4> QED BY <2>2, <2>4, <3>1, <3>3, <4>1, <4>2
    <3>4. CASE k > turn
      <4>1. PICK h \in 1..size' : h > turn - 1 /\ h + 1 = k
        <5>1. k - 1 \in 1..size' /\ k - 1 > turn - 1 /\ (k - 1) + 1 = k BY <1>2, <2>1, <3>4
        <5> QED BY <5>1
      <4> QED BY <2>6, <3>1, <4>1
    <3> QED BY <1>2, <3>2, <3>3, <3>4
  <2>13. ASSUME NEW i \in 1..size', NEW j \in 1..size', i < j PROVE Apart(i, j)'
    <3>1. CASE j < turn - 1
      <4>1. i < turn - 1 BY <1>2, <2>1, <2>13, <3>1
      <4> QED BY <1>5, <2>5, <2>13, <3>1, <4>1 DEF Apart
    <3>2. CASE j = turn - 1
      <4>1. i < turn - 1 BY <1>2, <2>1, <2>13, <3>2
      <4>2. Apart(i, turn - 1) BY <1>2, <1>5, <2>5, <4>1
      <4> QED BY <2>2, <2>4, <2>5, <3>2, <4>1, <4>2 DEF Apart
    <3>3. CASE j > turn - 1
      <4>1. j + 1 \in 1..size /\ map'[j] = map[j + 1] /\ turn < j + 1 BY <2>6, <3>3
      <4>2. CASE i < turn - 1
        <5>1. i < j + 1 BY <1>2, <2>1, <2>13
        <5> QED BY <1>5, <2>5, <4>1, <4>2, <5>1 DEF Apart
      <4>3. CASE i = turn - 1
        <5>1. Apart(turn, j + 1) BY <1>2, <1>5, <4>1
        <5> QED BY <2>2, <2>4, <4>1, <4>3, <5>1 DEF Apart
      <4>4. CASE i > turn - 1
        <5>1. i + 1 < j + 1 BY <1>2, <2>1, <2>13
        <5>2. i + 1 \in 1..size /\ map'[i] = map[i + 1] BY <2>6, <4>4
        <5> QED BY <1>5, <4>1, <5>1, <5>2 DEF Apart
      <4> QED BY <2>7, <4>2, <4>3, <4>4
    <3> QED BY <2>7, <3>1, <3>2, <3>3
  <2>14. ASSUME NEW i \in 1..size' PROVE map'[i].length > 0
    <3>1. CASE i < turn - 1 BY <1>4, <2>5, <3>1
    <3>2. CASE i = turn - 1
      <4>1. map[turn].length \in Nat /\ map[turn - 1].length \in Nat /\ map[turn].length > 0 BY <1>2, <1>4, RegionIs
      <4> QED BY <2>2, <2>4, <3>2, <4>1
    <3>3. CASE i > turn - 1 BY <1>4, <2>6, <3>3
    <3> QED BY <2>7, <3>1, <3>2, <3>3
  <2>15. ASSUME NEW i \in 2..size', i < turn' PROVE ~Merges(i)'
    <3>1. i \in 1..size' /\ i - 1 \in 1..size' /\ i - 1 < turn - 1 /\ i \in 2..size /\ i < turn
        BY <1>2, <2>1, <2>15
    <3>2. map'[i - 1] = map[i - 1] BY <2>5, <3>1
    <3>3. map'[i].base = map[i].base /\ map'[i].kind = map[i].kind
      <4>1. CASE i < turn - 1 BY <2>5, <3>1, <4>1
      <4>2. CASE i = turn - 1 BY <2>2, <2>4, <4>2
      <4> QED BY <1>2, <3>1, <4>1, <4>2
    <3>4. ~Merges(i) BY <1>6, <3>1
    <3> QED BY <3>2, <3>3, <3>4 DEF Merges
  <2>16. MergeInv'
    <3>1. turn' >= 2 /\ loop' # "done" BY <1>1, <1>2, <2>1
    <3> QED BY <2>13, <2>14, <2>15, <3>1 DEF MergeInv
  <2> QED BY <1>7, <2>10, <2>11, <2>12, <2>16 DEF MapInv
<1> QED BY <1>8, <1>9

LEMMA ReturnStep ==
    ASSUME MapInv, Return
    PROVE  MapInv'
<1> MapTypes /\ Offers /\ Restricts /\ MergeInv BY DEF MapInv
<1>1. /\ loop = "merge" /\ turn > size /\ loop' = "done" /\ turn' = 1
      /\ UNCHANGED <<bios, map, size, len>> BY DEF Return, Proceed
<1>2. Live = 1..size /\ Live' = 1..size BY <1>1 DEF Live
<1>3. MapTypes' BY <1>1 DEF MapTypes
<1>4. Offers' BY <1>1, <1>2 DEF Offers
<1>5. Restricts' BY <1>1, <1>2 DEF Restricts
<1>6. MergeInv'
  <2>1. \A i, j \in 1..size' : i < j => Apart(i, j)' BY <1>1 DEF MergeInv, Apart
  <2>2. \A i \in 2..size : i < turn BY <1>1 DEF MapTypes
  <2>3. \A i \in 2..size' : ~Merges(i)' BY <1>1, <2>2 DEF MergeInv, Merges
  <2>4. \A i \in 1..size' : map'[i].length > 0 BY <1>1 DEF MergeInv
  <2> QED BY <1>1, <2>1, <2>3, <2>4 DEF MergeInv
<1>7. OverlapInv' /\ RemoveInv' BY <1>1 DEF OverlapInv, RemoveInv
<1> QED BY <1>3, <1>4, <1>5, <1>6, <1>7 DEF MapInv

LEMMA MapStep ==
    ASSUME MapInv, [mapNext]_mapVars
    PROVE  MapInv'
<1>1. CASE mapNext
  <2>1. SortFirst \/ Overlap \/ Resort \/ BeginRemove \/ RemoveEmpty \/ EndRemove \/ Merge \/ Return
      BY <1>1, Zenon DEF mapNext
  <2> QED BY <2>1, SortFirstStep, OverlapStep, ResortStep, BeginRemoveStep, RemoveEmptyStep, EndRemoveStep,
             MergeStep, ReturnStep
<1>2. CASE UNCHANGED mapVars
  <2>1. UNCHANGED bios /\ UNCHANGED map /\ UNCHANGED size /\ UNCHANGED loop /\ UNCHANGED turn /\ UNCHANGED len
        /\ UNCHANGED moved BY <1>2 DEF mapVars
  <2>2. MapTypes /\ Offers /\ Restricts /\ OverlapInv /\ RemoveInv /\ MergeInv BY DEF MapInv
  <2>3. Live' = Live BY <2>1 DEF Live
  <2>4. MapTypes' BY <2>1, <2>2 DEF MapTypes
  <2>5. Offers' BY <2>1, <2>2, <2>3 DEF Offers
  <2>6. Restricts' BY <2>1, <2>2, <2>3 DEF Restricts
  <2>7. OverlapInv' BY <2>1, <2>2 DEF OverlapInv, InOrder, Apart
  <2>8. RemoveInv' BY <2>1, <2>2, <2>3 DEF RemoveInv, Apart
  <2>9. MergeInv' BY <2>1, <2>2 DEF MergeInv, Apart, Merges
  <2> QED BY <2>4, <2>5, <2>6, <2>7, <2>8, <2>9 DEF MapInv
<1> QED BY <1>1, <1>2

(* normalize_memory_region, for any map the BIOS may report: the finished  *)
(* map is in order, without overlaps or empty regions, offers no address   *)
(* the BIOS did not report usable and forgets no reserved one.             *)
THEOREM MapIsSafe == mapSpec => []MapSafe
<1>1. mapInit => MapInv BY MapInitial
<1>2. MapInv /\ [mapNext]_mapVars => MapInv' BY MapStep
<1>3. MapInv => MapSafe BY MapInvSafe
<1> QED BY <1>1, <1>2, <1>3, PTL DEF mapSpec

-----------------------------------------------------------------------------
(* Copies through the temporary entry.                                    *)
-----------------------------------------------------------------------------

(* Addresses of the two pages.                                             *)
LEMMA Address ==
    ASSUME NEW a \in Nat
    PROVE  /\ a < UNIT => a \div UNIT = 0 /\ a % UNIT = a
           /\ UNIT <= a /\ a < 2 * UNIT => a \div UNIT = 1 /\ a % UNIT = a - UNIT
           /\ a = 2 * UNIT => a % UNIT = 0
<1> UNIT \in Nat /\ UNIT > 0 BY SlotAssumption
<1>1. PICK q \in Nat, r \in 0..(UNIT - 1) : a = (UNIT * q) + r /\ r = a % UNIT /\ q = a \div UNIT BY ModRange
<1>2. ASSUME NEW p \in Int, NEW s \in 0..(UNIT - 1), a = (UNIT * p) + s PROVE q = p /\ r = s
  <2>1. UNIT * q \in Int /\ UNIT * p \in Int /\ UNIT * q - UNIT * p < UNIT /\ UNIT * p - UNIT * q < UNIT BY <1>1, <1>2
  <2>2. q = p BY <2>1, Quotients
  <2> QED BY <1>1, <1>2, <2>2
<1>3. a < UNIT => q = 0 /\ r = a
  <2>1. UNIT * 0 = 0 OBVIOUS
  <2> QED BY <1>2, <2>1
<1>4. UNIT <= a /\ a < 2 * UNIT => q = 1 /\ r = a - UNIT
  <2>1. UNIT * 1 = UNIT OBVIOUS
  <2> QED BY <1>2, <2>1
<1>5. a = 2 * UNIT => r = 0
  <2>1. UNIT * 2 = 2 * UNIT OBVIOUS
  <2> QED BY <1>2, <2>1
<1> QED BY <1>1, <1>3, <1>4, <1>5

LEMMA FramesApart ==
    ASSUME NEW t \in Copiers, NEW p \in {0, 1}
    PROVE  /\ Own(t, p) \in PhysFrames /\ Own(t, p) \in Int /\ TableOf(t) \in Int /\ TableOf(t) \notin PhysFrames
           /\ Own(t, p) # 0 /\ 0 \notin PhysFrames
           /\ \A u \in Copiers, q \in {0, 1} : Own(u, q) = Own(t, p) => u = t /\ q = p
<1>1. \A u \in Copiers : u \in Nat /\ u > 0 BY SlotAssumption
<1> QED BY <1>1 DEF Own, PhysFrames, TableOf

LEMMA SlotInvSafe ==
    ASSUME SlotInv
    PROVE  CopiesSafe
<1> SlotTypes /\ MaskInv /\ RangeInv /\ EntryInv /\ LandInv BY DEF SlotInv
<1>1. GuardedLands BY DEF GuardedLands, CopyLands, MaskInv, LandInv, LandsIn
<1>2. ASSUME NEW t \in Copiers, disturbed = {}, copies[t] = 1
      PROVE  /\ \A u \in Copiers, page \in {0, 1}, i \in 0..(UNIT - 1) :
                  phys[Own(u, page)][i] = t <=> u = t /\ page * UNIT + i \in op[t].from..(op[t].next - 1)
             /\ op[t].res = "ok" => op[t].next = op[t].last
             /\ op[t].res = "fault" => op[t].next % UNIT = 0 \/ op[t].next = op[t].from
  <2>1. op[t].from \in Nat /\ op[t].next \in Nat /\ Progress(op[t]) BY DEF SlotTypes, OpStates, RangeInv
  <2>2. ASSUME NEW u \in Copiers, NEW page \in {0, 1}, NEW i \in 0..(UNIT - 1)
        PROVE  phys[Own(u, page)][i] = t <=> u = t /\ page * UNIT + i \in op[t].from..(op[t].next - 1)
    <3>1. LandsIn(t, u, page, i) BY <1>2 DEF LandInv
    <3>2. UNIT \in Nat /\ page * UNIT + i \in Int BY SlotAssumption
    <3>3. PICK x \in Int : x = page * UNIT + i BY <3>2
    <3>4. x \in op[t].from..(op[t].next - 1) <=> op[t].from <= x /\ x < op[t].next BY <2>1
    <3> QED BY <1>2, <3>1, <3>3, <3>4 DEF LandsIn
  <2> QED BY <2>1, <2>2 DEF Progress
<1>3. RangeExact BY <1>2 DEF RangeExact
<1> QED BY <1>1, <1>3 DEF CopiesSafe

LEMMA SlotInitial ==
    ASSUME slotInit
    PROVE  SlotInv
<1>0. UNIT \in Nat BY SlotAssumption
<1>1. NoOp \in OpStates BY DEF NoOp, OpStates
<1>2. SlotTypes BY <1>1, SlotAssumption DEF slotInit, SlotTypes, Nobody
<1>3. MaskInv BY DEF slotInit, MaskInv, NoOp
<1>4. Progress(NoOp) BY <1>0 DEF Progress, NoOp
<1>5. RangeInv BY <1>4 DEF slotInit, RangeInv, NoOp
<1>6. EntryInv BY DEF slotInit, EntryInv, NoOp
<1>7. LandInv
  <2> SUFFICES ASSUME NEW t \in Copiers, NEW u \in Copiers, NEW page \in {0, 1}, NEW i \in 0..(UNIT - 1)
               PROVE  LandsIn(t, u, page, i) BY DEF LandInv
  <2>1. phys[Own(u, page)][i] = Nobody BY FramesApart DEF slotInit
  <2>2. t # Nobody BY SlotAssumption DEF Nobody
  <2>3. copies[t] = 0 BY DEF slotInit
  <2> QED BY <2>1, <2>2, <2>3 DEF LandsIn
<1> QED BY <1>2, <1>3, <1>5, <1>6, <1>7 DEF SlotInv
-----------------------------------------------------------------------------
LEMMA TimerStep ==
    ASSUME SlotInv, NEW t \in Copiers, timer(t)
    PROVE  SlotInv'
<1> SlotTypes /\ MaskInv /\ RangeInv /\ EntryInv /\ LandInv BY DEF SlotInv
<1>1. at # Nobody /\ at' = t /\ ~(op[at].masked /\ op[at].stage # "idle") BY DEF timer
<1>2. UNCHANGED <<slot, mapped, op, phys, disturbed, copies>> BY DEF timer
<1>3. SlotTypes' BY <1>1, <1>2 DEF SlotTypes
<1>4. MaskInv' BY <1>1, <1>2 DEF MaskInv
<1>5. RangeInv' /\ EntryInv' BY <1>2 DEF RangeInv, EntryInv
<1>6. LandInv' BY <1>2 DEF LandInv, LandsIn
<1> QED BY <1>3, <1>4, <1>5, <1>6 DEF SlotInv

LEMMA BeginStep ==
    ASSUME SlotInv, NEW t \in Copiers, NEW a \in Offsets, NEW n \in Amounts, NEW masked \in BOOLEAN, BeginCopy(t, a, n, masked)
    PROVE  SlotInv'
<1> SlotTypes /\ MaskInv /\ RangeInv /\ EntryInv /\ LandInv BY DEF SlotInv
<1>0. a \in Nat /\ n \in Nat /\ UNIT \in Nat BY SlotAssumption
<1>1. at = t /\ a + n <= 2 * UNIT /\ UNCHANGED <<at, slot, mapped, phys, disturbed>> BY DEF BeginCopy
<1> PICK o : o = [stage |-> "next", masked |-> masked, from |-> a, next |-> a, last |-> a + n, res |-> "none"] BY Zenon
<1>2. o \in OpStates BY <1>0 DEF OpStates
<1>3. Progress(o) BY <1>0, <1>1 DEF Progress
<1>4. op'[t] = o /\ op' \in [Copiers -> OpStates] /\ \A u \in Copiers \ {t} : op'[u] = op[u] BY <1>2 DEF BeginCopy, SlotTypes
<1>5. copies'[t] = copies[t] + 1 /\ copies' \in [Copiers -> Nat] /\ \A u \in Copiers \ {t} : copies'[u] = copies[u]
    BY DEF BeginCopy, SlotTypes
<1>6. copies[t] \in Nat BY DEF SlotTypes
<1>7. SlotTypes' BY <1>1, <1>4, <1>5 DEF SlotTypes
<1>8. MaskInv'
  <2>1. \A u \in Copiers : op'[u].masked /\ op'[u].stage # "idle" => at \in {u, Nobody} BY <1>1, <1>4 DEF MaskInv
  <2> QED BY <1>1, <2>1 DEF MaskInv
<1>9. RangeInv' BY <1>3, <1>4, <1>5, <1>6 DEF RangeInv
<1>10. EntryInv' BY <1>1, <1>4 DEF EntryInv
<1>11. LandInv'
  <2> SUFFICES ASSUME disturbed = {}, NEW s \in Copiers, NEW u \in Copiers, NEW page \in {0, 1}, NEW i \in 0..(UNIT - 1)
               PROVE  LandsIn(s, u, page, i)' BY <1>1 DEF LandInv
  <2>1. LandsIn(s, u, page, i) BY DEF LandInv
  <2>2. CASE s # t BY <1>1, <1>4, <1>5, <2>1, <2>2, ZenonT(40) DEF LandsIn
  <2>3. CASE s = t
    <3>1. phys'[Own(u, page)][i] = t => u = t /\ copies'[t] # 0 BY <1>1, <1>5, <1>6, <2>1, <2>3 DEF LandsIn
    <3>2. copies'[t] = 1 => phys'[Own(u, page)][i] # t BY <1>1, <1>5, <1>6, <2>1, <2>3 DEF LandsIn
    <3>3. PICK x \in Int : x = page * UNIT + i BY <1>0
    <3>4. ~(op'[t].from <= x /\ x < op'[t].next) BY <1>0, <1>4
    <3> QED BY <2>3, <3>1, <3>2, <3>3, <3>4, ZenonT(40) DEF LandsIn
  <2> QED BY <2>2, <2>3
<1> QED BY <1>7, <1>8, <1>9, <1>10, <1>11 DEF SlotInv

(* A step of the loop that copies nothing: the range stays as it was.      *)
LEMMA StageStep ==
    ASSUME SlotInv, NEW t \in Copiers, at = t, op[t].stage # "idle", UNCHANGED <<at, mapped, phys, copies>>,
           NEW o \in OpStates, op' = [op EXCEPT ![t] = o], Progress(o), slot' \in Int,
           o.masked = op[t].masked, o.from = op[t].from, o.next = op[t].next, o.last = op[t].last,
           \/ UNCHANGED <<slot, disturbed>> /\ o.stage \notin {"look", "copy"}
           \/ /\ insert_temp_page_table(t, slot')
              /\ disturbed = {} /\ o.stage = "look" => slot' = TableOf(t)
              /\ disturbed = {} /\ o.stage = "copy" => slot' = Own(t, o.next \div UNIT)
    PROVE  SlotInv'
<1> SlotTypes /\ MaskInv /\ RangeInv /\ EntryInv /\ LandInv BY DEF SlotInv
<1>1. op'[t] = o /\ op' \in [Copiers -> OpStates] /\ \A u \in Copiers \ {t} : op'[u] = op[u] BY DEF SlotTypes
<1>2. SlotTypes' BY <1>1 DEF SlotTypes
<1>3. t # Nobody BY SlotAssumption DEF Nobody
<1>4. MaskInv'
  <2>1. \A u \in Copiers : op'[u].masked /\ op'[u].stage # "idle" => at \in {u, Nobody} BY <1>1 DEF MaskInv
  <2>2. ASSUME NEW d \in disturbed' PROVE ~d.masked
    <3>1. CASE d \in disturbed BY <3>1 DEF MaskInv
    <3>2. CASE d \notin disturbed
      <4>1. PICK u \in Copiers : u # t /\ op[u].stage \in {"look", "copy"} /\ d = [of |-> u, masked |-> op[u].masked]
          BY <3>2 DEF insert_temp_page_table
      <4>2. ~op[u].masked BY <1>3, <4>1 DEF MaskInv
      <4> QED BY <4>1, <4>2
    <3> QED BY <3>1, <3>2
  <2> QED BY <2>1, <2>2 DEF MaskInv
<1>5. RangeInv' BY <1>1 DEF RangeInv
<1>6. disturbed' = {} => disturbed = {} BY DEF insert_temp_page_table
<1>7. EntryInv'
  <2> SUFFICES ASSUME disturbed' = {}, NEW u \in Copiers
               PROVE  /\ op'[u].stage = "look" => slot' = TableOf(u)
                      /\ op'[u].stage = "copy" => slot' = Own(u, op'[u].next \div UNIT) BY DEF EntryInv
  <2>1. CASE u = t BY <1>1, <1>6, <2>1
  <2>2. CASE u # t /\ UNCHANGED <<slot, disturbed>> BY <1>1, <1>6, <2>2 DEF EntryInv
  <2>3. CASE u # t /\ insert_temp_page_table(t, slot')
    <3>1. op[u].stage \notin {"look", "copy"}
      <4> SUFFICES ASSUME op[u].stage \in {"look", "copy"} PROVE FALSE OBVIOUS
      <4>1. u \in {v \in Copiers \ {t} : op[v].stage \in {"look", "copy"}} BY <2>3
      <4>2. [of |-> u, masked |-> op[u].masked] \in disturbed' BY <2>3, <4>1, ZenonT(40) DEF insert_temp_page_table
      <4> QED BY <4>2
    <3> QED BY <1>1, <2>3, <3>1
  <2> QED BY <2>1, <2>2, <2>3
<1>8. LandInv'
  <2> SUFFICES ASSUME disturbed' = {}, NEW s \in Copiers, NEW u \in Copiers, NEW page \in {0, 1}, NEW i \in 0..(UNIT - 1)
               PROVE  LandsIn(s, u, page, i)' BY DEF LandInv
  <2>1. LandsIn(s, u, page, i) BY <1>6 DEF LandInv
  <2>2. op'[s].from = op[s].from /\ op'[s].next = op[s].next BY <1>1
  <2> QED BY <2>1, <2>2, Zenon DEF LandsIn
<1> QED BY <1>2, <1>4, <1>5, <1>7, <1>8 DEF SlotInv

LEMMA LoopStep ==
    ASSUME SlotInv, NEW t \in Copiers, LoopHead(t)
    PROVE  SlotInv'
<1>1. at = t /\ op[t].stage = "next" /\ UNCHANGED <<at, mapped, phys, copies>> BY DEF LoopHead
<1>2. op[t] \in OpStates /\ Progress(op[t]) /\ op \in [Copiers -> OpStates] /\ slot \in Int
    BY DEF SlotInv, SlotTypes, RangeInv
<1>3. op[t].next \in Nat /\ op[t].last \in Nat BY <1>2 DEF OpStates
<1>4. CASE op[t].next >= op[t].last
  <2>1. UNCHANGED <<slot, disturbed>> BY <1>4 DEF LoopHead
  <2> PICK o : o = [op[t] EXCEPT !.stage = "idle", !.res = "ok"] OBVIOUS
  <2>2. op' = [op EXCEPT ![t] = o] BY <1>2, <1>4, Zenon DEF LoopHead
  <2>3. o \in OpStates /\ o.masked = op[t].masked /\ o.from = op[t].from /\ o.next = op[t].next /\ o.last = op[t].last
        /\ o.stage = "idle" /\ o.res = "ok" BY <1>2, Zenon DEF OpStates
  <2>4. Progress(o) BY <1>2, <1>3, <1>4, <2>3 DEF Progress
  <2> HIDE DEF LoopHead
  <2> QED BY <1>1, <1>2, <2>1, <2>2, <2>3, <2>4, StageStep, Zenon
<1>5. CASE op[t].next < op[t].last
  <2>1. insert_temp_page_table(t, TableOf(t)) BY <1>3, <1>5 DEF LoopHead
  <2> PICK o : o = [op[t] EXCEPT !.stage = "look"] BY Zenon
  <2>2. op' = [op EXCEPT ![t] = o] BY <1>2, <1>3, <1>5 DEF LoopHead
  <2>3. o \in OpStates /\ o.masked = op[t].masked /\ o.from = op[t].from /\ o.next = op[t].next /\ o.last = op[t].last
        /\ o.stage = "look" /\ o.res = op[t].res BY <1>2 DEF OpStates
  <2>4. Progress(o) BY <1>1, <1>2, <1>3, <1>5, <2>3 DEF Progress
  <2>5. slot' = TableOf(t) /\ slot' \in Int BY <2>1, FramesApart DEF insert_temp_page_table
  <2>6. insert_temp_page_table(t, slot') BY <2>1, <2>5
  <2> QED BY <1>1, <2>2, <2>3, <2>4, <2>5, <2>6, StageStep, Zenon
<1> QED BY <1>3, <1>4, <1>5

LEMMA TranslateStep ==
    ASSUME SlotInv, NEW t \in Copiers, Translate(t)
    PROVE  SlotInv'
<1>1. at = t /\ op[t].stage = "look" /\ UNCHANGED <<at, mapped, phys, copies>> BY DEF Translate
<1>2. op[t] \in OpStates /\ Progress(op[t]) /\ op \in [Copiers -> OpStates] /\ slot \in Int
    BY DEF SlotInv, SlotTypes, RangeInv
<1>3. op[t].next \in Nat /\ op[t].last \in Nat /\ op[t].from \in Nat /\ UNIT \in Nat BY <1>2, SlotAssumption DEF OpStates
<1> PICK page : page = op[t].next \div UNIT OBVIOUS
<1>4. op[t].next < op[t].last /\ op[t].last <= 2 * UNIT BY <1>1, <1>2 DEF Progress
<1>5. page \in {0, 1} BY <1>3, <1>4, Address
<1>6. PICK f \in IF slot # TableOf(t) THEN PhysFrames \cup {0} ELSE IF page \in mapped[t] THEN {Own(t, page)} ELSE {0} :
         IF f = 0 THEN op' = [op EXCEPT ![t].stage = "idle", ![t].res = "fault"] /\ UNCHANGED <<slot, disturbed>>
         ELSE op' = [op EXCEPT ![t].stage = "copy"] /\ insert_temp_page_table(t, f)
    BY DEF Translate
<1>7. f \in Int
  <2>1. PhysFrames \subseteq Int BY FramesApart, SlotAssumption DEF PhysFrames, Own
  <2> QED BY <1>5, <1>6, <2>1, FramesApart
<1>8. CASE f = 0
  <2>1. UNCHANGED <<slot, disturbed>> BY <1>6, <1>8
  <2> PICK o : o = [op[t] EXCEPT !.stage = "idle", !.res = "fault"] OBVIOUS
  <2>2. op' = [op EXCEPT ![t] = o] BY <1>2, <1>6, <1>8, Zenon
  <2>3. o \in OpStates /\ o.masked = op[t].masked /\ o.from = op[t].from /\ o.next = op[t].next /\ o.last = op[t].last
        /\ o.stage = "idle" /\ o.res = "fault" BY <1>2, Zenon DEF OpStates
  <2>4. Progress(o) BY <1>2, <1>3, <1>4, <2>3 DEF Progress
  <2> QED BY <1>1, <1>2, <2>1, <2>2, <2>3, <2>4, StageStep, Zenon
<1>9. CASE f # 0
  <2>1. insert_temp_page_table(t, f) BY <1>6, <1>9
  <2> PICK o : o = [op[t] EXCEPT !.stage = "copy"] BY Zenon
  <2>2. op' = [op EXCEPT ![t] = o] BY <1>2, <1>6, <1>9
  <2>3. o \in OpStates /\ o.masked = op[t].masked /\ o.from = op[t].from /\ o.next = op[t].next /\ o.last = op[t].last
        /\ o.stage = "copy" /\ o.res = op[t].res BY <1>2 DEF OpStates
  <2>4. Progress(o) BY <1>1, <1>2, <1>3, <1>4, <2>3 DEF Progress
  <2>5. slot' = f /\ slot' \in Int BY <1>7, <2>1 DEF insert_temp_page_table
  <2>6. insert_temp_page_table(t, slot') BY <2>1, <2>5
  <2>7. disturbed = {} => slot' = Own(t, o.next \div UNIT)
    <3> SUFFICES ASSUME disturbed = {} PROVE f = Own(t, page) BY <2>3, <2>5
    <3>1. slot = TableOf(t) BY <1>1 DEF SlotInv, EntryInv
    <3> QED BY <1>6, <1>9, <3>1
  <2> QED BY <1>1, <2>2, <2>3, <2>4, <2>5, <2>6, <2>7, StageStep, Zenon
<1> QED BY <1>8, <1>9

(* The units that a chunk covers are those of the addresses it moves past. *)
LEMMA ChunkIs ==
    ASSUME SlotInv, NEW t \in Copiers, op[t].stage = "copy"
    PROVE  /\ chunk(t) \in Nat /\ op[t].next + chunk(t) <= op[t].last
           /\ op[t].next + chunk(t) = op[t].last \/ (op[t].next + chunk(t)) % UNIT = 0
           /\ op[t].next \div UNIT \in {0, 1}
           /\ \A page \in {0, 1}, i \in 0..(UNIT - 1) :
                op[t].next <= page * UNIT + i /\ page * UNIT + i < op[t].next + chunk(t)
                  <=> page = op[t].next \div UNIT /\ i \in (op[t].next % UNIT)..((op[t].next % UNIT) + chunk(t) - 1)
<1>1. op[t] \in OpStates /\ Progress(op[t]) BY DEF SlotInv, SlotTypes, RangeInv
<1>2. op[t].next \in Nat /\ op[t].last \in Nat /\ UNIT \in Nat \ {0} BY <1>1, SlotAssumption DEF OpStates
<1> PICK x \in Nat : x = op[t].next BY <1>2
<1> PICK z \in Nat : z = op[t].last BY <1>2
<1>3. x < z /\ z <= 2 * UNIT BY <1>1 DEF Progress
<1> PICK p : p = x \div UNIT OBVIOUS
<1> PICK r : r = x % UNIT OBVIOUS
<1>4. \/ x < UNIT /\ p = 0 /\ r = x
      \/ UNIT <= x /\ p = 1 /\ r = x - UNIT BY <1>2, <1>3, Address
<1>5. p \in {0, 1} /\ r \in 0..(UNIT - 1) BY <1>2, <1>3, <1>4
<1> PICK c : c = chunk(t) OBVIOUS
<1>6. c = IF UNIT - r < z - x THEN UNIT - r ELSE z - x BY DEF chunk
<1>7. c \in Nat /\ x + c <= z BY <1>2, <1>3, <1>5, <1>6
<1>8. x + c = z \/ (x + c) % UNIT = 0
  <2>1. x + c = z \/ x + c = UNIT \/ x + c = 2 * UNIT BY <1>2, <1>3, <1>4, <1>6
  <2>2. UNIT % UNIT = 0 /\ (2 * UNIT) % UNIT = 0 BY <1>2, Address
  <2> QED BY <2>1, <2>2
<1>9. ASSUME NEW page \in {0, 1}, NEW i \in 0..(UNIT - 1)
      PROVE  x <= page * UNIT + i /\ page * UNIT + i < x + c <=> page = p /\ i \in r..(r + c - 1)
  <2>1. c <= UNIT - r BY <1>2, <1>3, <1>5, <1>6
  <2>2. CASE page = 0 BY <1>2, <1>4, <1>5, <1>7, <2>1, <2>2
  <2>3. CASE page = 1 BY <1>2, <1>4, <1>5, <1>7, <2>1, <2>3
  <2> QED BY <2>2, <2>3
<1> QED BY <1>5, <1>7, <1>8, <1>9

LEMMA CopyStep ==
    ASSUME SlotInv, NEW t \in Copiers, CopyChunk(t)
    PROVE  SlotInv'
<1> SlotTypes /\ MaskInv /\ RangeInv /\ EntryInv /\ LandInv BY DEF SlotInv
<1>1. at = t /\ op[t].stage = "copy" /\ UNCHANGED <<slot, mapped, disturbed, copies>> BY DEF CopyChunk
<1> PICK c : c = chunk(t) OBVIOUS
<1> PICK p : p = op[t].next \div UNIT OBVIOUS
<1> PICK r : r = op[t].next % UNIT OBVIOUS
<1>2. /\ c \in Nat /\ op[t].next + c <= op[t].last
      /\ op[t].next + c = op[t].last \/ (op[t].next + c) % UNIT = 0
      /\ p \in {0, 1}
      /\ \A page \in {0, 1}, i \in 0..(UNIT - 1) :
           op[t].next <= page * UNIT + i /\ page * UNIT + i < op[t].next + c
             <=> page = p /\ i \in r..(r + c - 1)
    BY <1>1, ChunkIs
<1>3. op[t] \in OpStates /\ Progress(op[t]) BY DEF SlotTypes, RangeInv
<1>4. op[t].from \in Nat /\ op[t].next \in Nat /\ op[t].last \in Nat /\ UNIT \in Nat BY <1>3, SlotAssumption DEF OpStates
<1> PICK x \in Nat : x = op[t].next + c BY <1>2, <1>4
<1> PICK o : o = [op[t] EXCEPT !.next = x, !.stage = "next"] OBVIOUS
<1>5. op' = [op EXCEPT ![t] = o] BY Zenon DEF CopyChunk, SlotTypes
<1>6. o \in OpStates /\ o.masked = op[t].masked /\ o.from = op[t].from /\ o.next = op[t].next + c /\ o.last = op[t].last
      /\ o.stage = "next" /\ o.res = op[t].res BY <1>3, Zenon DEF OpStates
<1>7. Progress(o) BY <1>1, <1>2, <1>3, <1>4, <1>6 DEF Progress
<1>8. op'[t] = o /\ op' \in [Copiers -> OpStates] /\ \A u \in Copiers \ {t} : op'[u] = op[u] BY <1>5, <1>6 DEF SlotTypes
<1> DEFINE new == [i \in 0..(UNIT - 1) |-> IF i \in r..(r + c - 1) THEN t ELSE phys[slot][i]]
<1>9. \/ slot \in PhysFrames /\ phys' = [phys EXCEPT ![slot] = new] /\ at' = at
      \/ slot \notin PhysFrames /\ at' = Nobody /\ phys' = phys BY DEF CopyChunk
<1>10. SlotTypes'
  <2>0. slot \in PhysFrames => phys[slot] \in [0..(UNIT - 1) -> Copiers \cup {Nobody}] BY DEF SlotTypes
  <2>1. slot \in PhysFrames => new \in [0..(UNIT - 1) -> Copiers \cup {Nobody}]
    <3>1. ASSUME slot \in PhysFrames, NEW i \in 0..(UNIT - 1) PROVE new[i] \in Copiers \cup {Nobody} BY <2>0, <3>1, Zenon
    <3> QED BY <3>1
  <2>2. phys' \in [PhysFrames -> [0..(UNIT - 1) -> Copiers \cup {Nobody}]] BY <1>9, <2>1 DEF SlotTypes
  <2>3. at' \in Copiers \cup {Nobody} BY <1>1, <1>9
  <2> QED BY <1>1, <1>8, <2>2, <2>3 DEF SlotTypes
<1>11. MaskInv'
  <2>1. \A u \in Copiers : op'[u].masked /\ op'[u].stage # "idle" => at' \in {u, Nobody} BY <1>1, <1>6, <1>8, <1>9 DEF MaskInv
  <2> QED BY <1>1, <2>1 DEF MaskInv
<1>12. RangeInv' BY <1>1, <1>6, <1>7, <1>8 DEF RangeInv
<1>13. EntryInv' BY <1>1, <1>6, <1>8, Zenon DEF EntryInv
<1>14. LandInv'
  <2> SUFFICES ASSUME disturbed = {}, NEW s \in Copiers, NEW u \in Copiers, NEW page \in {0, 1}, NEW i \in 0..(UNIT - 1)
               PROVE  LandsIn(s, u, page, i)' BY <1>1 DEF LandInv
  <2>1. LandsIn(s, u, page, i) BY DEF LandInv
  <2>2. slot = Own(t, p) BY <1>1 DEF EntryInv
  <2>3. slot \in PhysFrames /\ Own(u, page) \in PhysFrames /\ (Own(u, page) = slot <=> u = t /\ page = p)
      BY <1>2, <2>2, FramesApart
  <2>4. copies[t] # 0 BY <1>1 DEF RangeInv
  <2>5. phys'[Own(u, page)][i] = IF u = t /\ page = p /\ i \in r..(r + c - 1) THEN t ELSE phys[Own(u, page)][i]
    <3>1. phys' = [phys EXCEPT ![slot] = new] /\ phys \in [PhysFrames -> [0..(UNIT - 1) -> Copiers \cup {Nobody}]]
        BY <1>9, <2>3 DEF SlotTypes
    <3>2. new[i] = IF i \in r..(r + c - 1) THEN t ELSE phys[slot][i] OBVIOUS
    <3> HIDE DEF new
    <3>3. phys'[Own(u, page)] = IF Own(u, page) = slot THEN new ELSE phys[Own(u, page)] BY <2>3, <3>1
    <3> QED BY <2>3, <3>2, <3>3
  <2> HIDE DEF new
  <2> PICK y \in Int : y = page * UNIT + i BY <1>4
  <2>6. op[t].next <= y /\ y < op[t].next + c <=> page = p /\ i \in r..(r + c - 1) BY <1>2
  <2>7. CASE s = t
    <3>1. phys'[Own(u, page)][i] = t => u = t BY <2>1, <2>5, <2>7 DEF LandsIn
    <3>2. copies[t] = 1 => (phys'[Own(u, page)][i] = t <=> u = t /\ op'[t].from <= y /\ y < op'[t].next)
      <4> SUFFICES ASSUME copies[t] = 1 PROVE phys'[Own(u, page)][i] = t <=> u = t /\ op'[t].from <= y /\ y < op'[t].next
          OBVIOUS
      <4>1. phys[Own(u, page)][i] = t <=> u = t /\ op[t].from <= y /\ y < op[t].next BY <2>1, <2>7 DEF LandsIn
      <4>2. phys'[Own(u, page)][i] = t <=>
              u = t /\ ((op[t].from <= y /\ y < op[t].next) \/ (op[t].next <= y /\ y < op[t].next + c))
          BY <2>5, <2>6, <4>1
      <4>3. op[t].from <= op[t].next BY <1>3 DEF Progress
      <4> QED BY <1>2, <1>4, <1>6, <1>8, <4>2, <4>3
    <3> QED BY <1>1, <2>4, <2>7, <3>1, <3>2 DEF LandsIn
  <2>8. CASE s # t
    <3>1. op'[s] = op[s] BY <1>8, <2>8
    <3>2. phys'[Own(u, page)][i] = s => phys[Own(u, page)][i] = s BY <2>5, <2>8
    <3>3. u # t => phys'[Own(u, page)][i] = phys[Own(u, page)][i] BY <2>5
    <3>4. u = t => phys[Own(u, page)][i] # s BY <2>1, <2>8 DEF LandsIn
    <3>5. phys'[Own(u, page)][i] = s <=> phys[Own(u, page)][i] = s BY <3>2, <3>3, <3>4
    <3> QED BY <1>1, <2>1, <3>1, <3>5 DEF LandsIn
  <2> QED BY <2>7, <2>8
<1> QED BY <1>10, <1>11, <1>12, <1>13, <1>14 DEF SlotInv

LEMMA SlotStep ==
    ASSUME SlotInv, [slotNext]_slotVars
    PROVE  SlotInv'
<1>1. CASE UNCHANGED slotVars
  <2>1. UNCHANGED <<at, slot, mapped, op, phys, disturbed, copies>> BY <1>1 DEF slotVars
  <2> QED BY <2>1 DEF SlotInv, SlotTypes, MaskInv, RangeInv, EntryInv, LandInv, LandsIn
<1>2. CASE slotNext
  <2>1. PICK t \in Copiers :
          \/ timer(t) \/ LoopHead(t) \/ Translate(t) \/ CopyChunk(t)
          \/ \E a \in Offsets, n \in Amounts, masked \in BOOLEAN : BeginCopy(t, a, n, masked)
      BY <1>2, Zenon DEF slotNext
  <2> QED BY <2>1, TimerStep, LoopStep, TranslateStep, CopyStep, BeginStep
<1> QED BY <1>1, <1>2

(* Copies through the shared temporary entry, for any page size, threads   *)
(* and ranges: a guarded one is never disturbed, and while none was, each  *)
(* wrote exactly its range of its own pages.                               *)
THEOREM CopiesAreSafe == slotSpec => []CopiesSafe
<1>1. slotInit => SlotInv BY SlotInitial
<1>2. SlotInv /\ [slotNext]_slotVars => SlotInv' BY SlotStep
<1>3. SlotInv => CopiesSafe BY SlotInvSafe
<1> QED BY <1>1, <1>2, <1>3, PTL DEF slotSpec

-----------------------------------------------------------------------------
(* The intrusive list.                                                    *)
-----------------------------------------------------------------------------

(* The nodes of the calls' order are all different, and the links are      *)
(* those of that order.                                                    *)
ListInv ==
  /\ order \in Seq(LNodes)
  /\ node \in [LNodes -> [prev : LNodes \cup {Dangling}, next : LNodes \cup {Dangling}]]
  /\ \A i, j \in 1..Len(order) : order[i] = order[j] => i = j
  /\ list = [head |-> Place(1), tail |-> Place(Len(order)), len |-> Len(order)]
  /\ \A i \in 1..Len(order) : node[order[i]] = [prev |-> Place(i - 1), next |-> Place(i + 1)]
  /\ \A n \in LNodes \ Members : node[n] = NewNode

LEMMA FunctionIsSeq ==
  ASSUME NEW S, NEW L \in Nat, NEW s \in [1..L -> S]
  PROVE  s \in Seq(S) /\ Len(s) = L
<1>1. s \in Seq(S)
  BY SMT
<1> QED
  BY <1>1

LEMMA FrontIs ==
  ASSUME NEW S, NEW s \in Seq(S), NEW L \in Nat, L + 1 = Len(s)
  PROVE  /\ SubSeq(s, 1, L) \in Seq(S) /\ Len(SubSeq(s, 1, L)) = L
         /\ \A i \in 1..L : SubSeq(s, 1, L)[i] = s[i]
<1>1. SubSeq(s, 1, L) = [i \in 1..L |-> s[i]]
  BY DEF SubSeq
<1>2. \A i \in 1..L : s[i] \in S
  BY SMT
<1> QED
  BY <1>1, <1>2, FunctionIsSeq

LEMMA ListFacts ==
  ASSUME ListInv
  PROVE  /\ Len(order) \in Nat
         /\ \A i \in 1..Len(order) : order[i] \in LNodes /\ order[i] # Dangling /\ Place(i) = order[i]
         /\ \A i \in Int : i \notin 1..Len(order) => Place(i) = Dangling
         /\ \A i \in Int : Place(i) \in LNodes \cup {Dangling}
         /\ list.head = Place(1) /\ list.tail = Place(Len(order)) /\ list.len = Len(order)
         /\ list.head = Dangling <=> Len(order) = 0
<1>1. order \in Seq(LNodes) /\ Len(order) \in Nat
  BY DEF ListInv
<1>2. \A i \in 1..Len(order) : order[i] \in LNodes /\ order[i] # Dangling
  BY <1>1, ListAssumption
<1>3. list.head = Place(1) /\ list.tail = Place(Len(order)) /\ list.len = Len(order)
  BY DEF ListInv
<1> QED
  BY <1>1, <1>2, <1>3 DEF Place

LEMMA LinkFacts ==
  ASSUME ListInv, NEW i \in 1..Len(order)
  PROVE  node[order[i]].prev = Place(i - 1) /\ node[order[i]].next = Place(i + 1)
<1>1. node[order[i]] = [prev |-> Place(i - 1), next |-> Place(i + 1)]
  BY DEF ListInv
<1> QED
  BY <1>1

(* The invariant of the next state, whose order has N nodes.               *)
LEMMA LinkedAgain ==
  ASSUME NEW N \in Nat, order' \in Seq(LNodes), Len(order') = N,
         node' \in [LNodes -> [prev : LNodes \cup {Dangling}, next : LNodes \cup {Dangling}]],
         \A i, j \in 1..N : order'[i] = order'[j] => i = j,
         list' = [head |-> Place(1)', tail |-> Place(N)', len |-> N],
         \A i \in 1..N : node'[order'[i]] = [prev |-> Place(i - 1)', next |-> Place(i + 1)'],
         \A m \in LNodes \ Members' : node'[m] = NewNode
  PROVE  ListInv'
<1>1. \A i, j \in 1..Len(order') : order'[i] = order'[j] => i = j
  BY Zenon
<1>2. list' = [head |-> Place(1)', tail |-> Place(Len(order))', len |-> Len(order')]
  BY Zenon DEF Place
<1>3. \A i \in 1..Len(order') : node'[order'[i]] = [prev |-> Place(i - 1)', next |-> Place(i + 1)']
  BY Zenon
<1> QED
  BY <1>1, <1>2, <1>3, Zenon DEF ListInv

(* The calls' order loses its k-th node; a node between p and x is         *)
(* unlinked.                                                               *)
Out(k) ==
  /\ order' \in Seq(LNodes) /\ Len(order') = Len(order) - 1
  /\ \A i \in 1..(Len(order) - 1) : order'[i] = order[IF i < k THEN i ELSE i + 1]

Spliced(n, p, x) ==
  /\ list' = [head |-> IF list.head = n THEN x ELSE list.head,
              tail |-> IF list.tail = n THEN p ELSE list.tail, len |-> list.len - 1]
  /\ node' = [m \in LNodes |-> IF m = n THEN NewNode
                               ELSE [prev |-> IF m = x THEN p ELSE node[m].prev,
                                     next |-> IF m = p THEN x ELSE node[m].next]]

(* The links are right again when the node at place k is out: what         *)
(* remove_raw does, and pop_front_raw and pop_back_raw at the ends.        *)
LEMMA Unlinked ==
  ASSUME ListInv, NEW k \in 1..Len(order), NEW n, NEW p, NEW x,
         n = order[k], p = Place(k - 1), x = Place(k + 1), Out(k), Spliced(n, p, x)
  PROVE  ListInv'
<1> DEFINE L == Len(order)
<1>1. /\ L \in Nat /\ L >= 1 /\ k \in 1..L
      /\ \A i \in 1..L : order[i] \in LNodes /\ order[i] # Dangling /\ Place(i) = order[i]
      /\ \A i \in Int : i \notin 1..L => Place(i) = Dangling
      /\ \A i \in Int : Place(i) \in LNodes \cup {Dangling}
  BY ListFacts
<1>2. PICK M \in Nat : M = L - 1
  BY <1>1
<1>3. order' \in Seq(LNodes) /\ Len(order') = M
  BY <1>2 DEF Out
<1>4. \A i \in 1..M : order'[i] = order[IF i < k THEN i ELSE i + 1]
  BY <1>2 DEF Out
<1>5. \A i, j \in 1..M : order'[i] = order'[j] => i = j
  <2>1. \A i, j \in 1..L : order[i] = order[j] => i = j
    BY DEF ListInv
  <2> QED
    <3> SUFFICES ASSUME NEW i \in 1..M, NEW j \in 1..M, order'[i] = order'[j] PROVE i = j
      OBVIOUS
    <3>1. PICK a \in 1..L : a = IF i < k THEN i ELSE i + 1
      BY <1>1, <1>2
    <3>2. PICK b \in 1..L : b = IF j < k THEN j ELSE j + 1
      BY <1>1, <1>2
    <3>3. a = b
      BY <1>4, <2>1, <3>1, <3>2, Zenon
    <3> QED
      BY <1>1, <3>1, <3>2, <3>3
<1>6. \A i \in Int : Place(i)' = IF i < k THEN Place(i) ELSE Place(i + 1)
  <2> SUFFICES ASSUME NEW i \in Int PROVE Place(i)' = IF i < k THEN Place(i) ELSE Place(i + 1)
    BY Zenon
  <2>1. CASE i \in 1..M
    <3>1. Place(i)' = order[IF i < k THEN i ELSE i + 1]
      BY <1>3, <1>4, <2>1 DEF Place
    <3>2. i \in 1..L /\ i + 1 \in 1..L
      BY <1>1, <1>2, <2>1
    <3> QED
      BY <1>1, <3>1, <3>2
  <2>2. CASE i \notin 1..M
    <3>1. Place(i)' = Dangling
      BY <1>3, <2>2 DEF Place
    <3>2. CASE i < k
      BY <1>1, <1>2, <2>2, <3>1, <3>2
    <3>3. CASE ~(i < k)
      BY <1>1, <1>2, <2>2, <3>1, <3>3
    <3> QED
      BY <3>2, <3>3
  <2> QED
    BY <2>1, <2>2
<1>7. \A i, j \in 1..L : order[i] = order[j] => i = j
  BY DEF ListInv
<1>8. \A i \in 1..L : /\ order[i] = n => i = k
                      /\ order[i] = p => i = k - 1
                      /\ order[i] = x => i = k + 1
  <2>1. \A i \in 1..L : order[i] = n => i = k
    BY <1>1, <1>7
  <2>2. k - 1 \in 1..L \/ p = Dangling
    BY <1>1
  <2>3. k + 1 \in 1..L \/ x = Dangling
    BY <1>1
  <2>4. \A i \in 1..L : order[i] = p => i = k - 1
    BY <1>1, <1>7, <2>2
  <2>5. \A i \in 1..L : order[i] = x => i = k + 1
    BY <1>1, <1>7, <2>3
  <2> QED
    BY <2>1, <2>4, <2>5
<1>9. list' = [head |-> Place(1)', tail |-> Place(M)', len |-> M]
  <2>1. list.head = order[1] /\ list.tail = order[L] /\ list.len = L
    BY <1>1, ListFacts
  <2>2. Place(1)' = IF list.head = n THEN x ELSE list.head
    <3>1. CASE k = 1
      BY <1>1, <1>6, <2>1, <3>1
    <3>2. CASE k # 1
      <4>1. 1 < k /\ 1 \in 1..L
        BY <1>1, <3>2
      <4>2. Place(1)' = Place(1) /\ Place(1) = order[1]
        <5>1. Place(1)' = Place(1)
          BY <1>6, <4>1
        <5>2. Place(1) = order[1]
          BY <1>1, <4>1
        <5> QED
          BY <5>1, <5>2
      <4> QED
        BY <1>8, <2>1, <3>2, <4>1, <4>2
    <3> QED
      BY <3>1, <3>2
  <2>3. Place(M)' = IF list.tail = n THEN p ELSE list.tail
    <3>1. CASE k = L
      BY <1>1, <1>2, <1>6, <2>1, <3>1
    <3>2. CASE k # L
      <4>1. n # list.tail
        BY <1>1, <1>8, <2>1, <3>2
      <4>2. k <= M
        BY <1>1, <1>2, <3>2
      <4>3. Place(M)' = Place(M + 1)
        BY <1>1, <1>2, <1>6, <4>2
      <4> QED
        BY <1>1, <1>2, <2>1, <4>1, <4>3
    <3> QED
      BY <3>1, <3>2
  <2> QED
    BY <1>2, <2>1, <2>2, <2>3 DEF Spliced
<1>10. node \in [LNodes -> [prev : LNodes \cup {Dangling}, next : LNodes \cup {Dangling}]]
  BY DEF ListInv
<1>11. node' \in [LNodes -> [prev : LNodes \cup {Dangling}, next : LNodes \cup {Dangling}]]
  <2>1. p \in LNodes \cup {Dangling} /\ x \in LNodes \cup {Dangling}
    BY <1>1
  <2> QED
    BY <1>10, <2>1 DEF NewNode, Spliced
<1>12. \A i \in 1..L : node[order[i]].prev = Place(i - 1) /\ node[order[i]].next = Place(i + 1)
  BY LinkFacts
<1>13. ASSUME NEW i \in 1..M
       PROVE  node'[order'[i]] = [prev |-> Place(i - 1)', next |-> Place(i + 1)']
  <2>1. PICK j \in 1..L : j = IF i < k THEN i ELSE i + 1
    BY <1>1, <1>2
  <2>2. j # k /\ order'[i] = order[j] /\ order[j] # n /\ order[j] \in LNodes
    BY <1>1, <1>4, <1>8, <2>1
  <2>3. node'[order[j]] = [prev |-> IF order[j] = x THEN p ELSE Place(j - 1),
                           next |-> IF order[j] = p THEN x ELSE Place(j + 1)]
    BY <1>12, <2>2, Zenon DEF Spliced
  <2>4. (order[j] = x <=> j = k + 1) /\ (order[j] = p <=> j = k - 1)
    BY <1>1, <1>8
  <2>5. Place(i - 1)' = IF j = k + 1 THEN p ELSE Place(j - 1)
    <3>1. CASE i < k
      <4>1. j = i /\ i - 1 < k /\ j # k + 1
        BY <1>1, <2>1, <3>1
      <4> QED
        BY <1>6, <4>1
    <3>2. CASE ~(i < k)
      <4>1. j = i + 1 /\ (i - 1 < k <=> i = k) /\ (i = k <=> j = k + 1)
        BY <1>1, <2>1, <3>2
      <4>2. i - 1 + 1 = j - 1
        BY <4>1
      <4>3. Place(i - 1)' = IF i = k THEN Place(i - 1) ELSE Place(j - 1)
        <5>1. Place(i - 1)' = IF i - 1 < k THEN Place(i - 1) ELSE Place(i - 1 + 1)
          <6>1. i - 1 \in Int
            OBVIOUS
          <6> QED
            BY <1>6, <6>1
        <5> QED
          BY <4>1, <4>2, <5>1
      <4> QED
        BY <4>1, <4>3
    <3> QED
      BY <3>1, <3>2
  <2>6. Place(i + 1)' = IF j = k - 1 THEN x ELSE Place(j + 1)
    <3>1. CASE i < k
      <4>1. j = i /\ (i + 1 < k <=> i # k - 1) /\ (i = k - 1 => i + 1 + 1 = k + 1)
        BY <1>1, <2>1, <3>1
      <4>2. Place(i + 1)' = IF i + 1 < k THEN Place(i + 1) ELSE Place(i + 1 + 1)
        <5>1. i + 1 \in Int
          OBVIOUS
        <5> QED
          BY <1>6, <5>1, Zenon
      <4> QED
        BY <4>1, <4>2
    <3>2. CASE ~(i < k)
      <4>1. j = i + 1 /\ ~(i + 1 < k) /\ j # k - 1
        BY <1>1, <2>1, <3>2
      <4>2. Place(i + 1)' = IF i + 1 < k THEN Place(i + 1) ELSE Place(i + 1 + 1)
        <5>1. i + 1 \in Int
          OBVIOUS
        <5> QED
          BY <1>6, <5>1, Zenon
      <4> QED
        BY <4>1, <4>2
    <3> QED
      BY <3>1, <3>2
  <2> QED
    BY <2>2, <2>3, <2>4, <2>5, <2>6, Zenon
<1>14. ASSUME NEW m \in LNodes, m \notin Members'
       PROVE  node'[m] = NewNode
  <2>1. CASE m = n
    BY <2>1 DEF Spliced
  <2>2. CASE m # n
    <3>1. m \notin Members
      <4> SUFFICES ASSUME NEW j \in 1..L, m = order[j] PROVE FALSE
        BY DEF Members
      <4>1. j # k
        BY <2>2
      <4>2. PICK i \in 1..M : j = IF i < k THEN i ELSE i + 1
        <5>1. CASE j < k
          <6>1. j \in 1..M
            BY <1>1, <1>2, <5>1
          <6> QED
            BY <5>1, <6>1
        <5>2. CASE j > k
          <6>1. j - 1 \in 1..M /\ ~(j - 1 < k) /\ j = (j - 1) + 1
            BY <1>1, <1>2, <5>2
          <6> QED
            BY <6>1, Zenon
        <5> QED
          BY <1>1, <4>1, <5>1, <5>2
      <4>3. order'[i] = m /\ i \in 1..Len(order')
        BY <1>3, <1>4, <4>2
      <4> QED
        BY <1>14, <4>3, Zenon DEF Members
    <3>2. node[m] = NewNode
      BY <3>1 DEF ListInv
    <3>3. m # p /\ m # x
      <4>1. \A i \in Int : Place(i) \in Members \cup {Dangling}
        BY <1>1 DEF Members, Place
      <4> QED
        BY <1>1, <3>1, <4>1, ListAssumption
    <3> QED
      BY <2>2, <3>2, <3>3 DEF NewNode, Spliced
  <2> QED
    BY <2>1, <2>2
<1> QED
  <2>1. \A i \in 1..M : node'[order'[i]] = [prev |-> Place(i - 1)', next |-> Place(i + 1)']
    BY <1>13, Zenon
  <2>2. \A m \in LNodes \ Members' : node'[m] = NewNode
    BY <1>14
  <2> QED
    BY <1>2, <1>3, <1>5, <1>9, <1>11, <2>1, <2>2, LinkedAgain, Zenon

LEMMA PopFrontInv ==
  ASSUME ListInv, pop_front_raw
  PROVE  ListInv'
<1>1. Len(order) \in Nat /\ Len(order) # 0 /\ order \in Seq(LNodes)
  BY ListFacts DEF pop_front_raw, ListInv
<1>2. /\ list.head = order[1] /\ list.head = Place(1) /\ list.tail = Place(Len(order)) /\ Place(0) = Dangling
      /\ list.len = Len(order) /\ order[1] \in LNodes
  BY <1>1, ListFacts
<1>3. PICK n \in LNodes : n = order[1]
  BY <1>2
<1>4. PICK h : h = Place(2)
  OBVIOUS
<1>5. node[n].next = h
  <2>1. 1 \in 1..Len(order) /\ 1 + 1 = 2
    BY <1>1
  <2>2. node[order[1]].next = Place(1 + 1)
    BY <2>1, LinkFacts
  <2> QED
    BY <1>3, <1>4, <2>1, <2>2
<1>6. /\ order' = Tail(order)
      /\ list' = [head |-> h, tail |-> IF h = Dangling THEN Dangling ELSE list.tail, len |-> list.len - 1]
      /\ node' = [m \in LNodes |-> IF m = n THEN NewNode
                                   ELSE IF m = h THEN [node[m] EXCEPT !.prev = Dangling] ELSE node[m]]
  BY <1>2, <1>3, <1>5, Zenon DEF pop_front_raw
<1>7. /\ order' \in Seq(LNodes) /\ Len(order') = Len(order) - 1
      /\ \A i \in 1..(Len(order) - 1) : order'[i] = order[IF i < 1 THEN i ELSE i + 1]
  BY <1>1, <1>6
<1>8. h = Dangling <=> list.tail = n
  <2>1. \A i, j \in 1..Len(order) : order[i] = order[j] => i = j
    BY DEF ListInv
  <2>2. Len(order) = 1 <=> list.tail = n
    <3>1. list.tail = order[Len(order)] /\ 1 \in 1..Len(order) /\ Len(order) \in 1..Len(order)
      BY <1>1, ListFacts
    <3> QED
      BY <1>3, <2>1, <3>1, Zenon
  <2>3. h = Dangling <=> Len(order) = 1
    <3>1. 2 \in 1..Len(order) <=> Len(order) # 1
      <4>1. PICK N \in Nat : N = Len(order) /\ N # 0
        BY <1>1
      <4>2. 2 \in 1..N <=> N # 1
        BY <4>1
      <4> QED
        BY <4>1, <4>2, Zenon
    <3>2. Place(2) = Dangling <=> 2 \notin 1..Len(order)
      BY ListFacts
    <3> QED
      BY <1>4, <3>1, <3>2
  <2> QED
    BY <2>2, <2>3
<1>9. list' = [head |-> IF list.head = n THEN h ELSE list.head,
               tail |-> IF list.tail = n THEN Dangling ELSE list.tail, len |-> list.len - 1]
  BY <1>2, <1>3, <1>6, <1>8, Zenon
<1>10. node' = [m \in LNodes |-> IF m = n THEN NewNode
                                 ELSE [prev |-> IF m = h THEN Dangling ELSE node[m].prev,
                                       next |-> IF m = Dangling THEN h ELSE node[m].next]]
  <2>1. \A m \in LNodes : m # Dangling /\ node[m] = [prev |-> node[m].prev, next |-> node[m].next]
    BY ListAssumption DEF ListInv
  <2>2. \A m \in LNodes : [node[m] EXCEPT !.prev = Dangling] = [prev |-> Dangling, next |-> node[m].next]
    BY DEF ListInv
  <2> QED
    BY <1>6, <2>1, <2>2, Zenon
<1>11. Out(1) /\ Spliced(n, Dangling, h)
  BY <1>7, <1>9, <1>10 DEF Out, Spliced
<1>12. 1 \in 1..Len(order) /\ Dangling = Place(1 - 1) /\ h = Place(1 + 1)
  BY <1>1, <1>2, <1>4
<1> QED
  BY <1>3, <1>11, <1>12, Unlinked

LEMMA PopBackInv ==
  ASSUME ListInv, pop_back_raw
  PROVE  ListInv'
<1>0. PICK L \in Nat : L = Len(order)
  BY ListFacts
<1>1. L \in Nat /\ L = Len(order) /\ L # 0 /\ order \in Seq(LNodes)
  BY <1>0, ListFacts DEF pop_back_raw, ListInv
<1>2. /\ list.tail = order[L] /\ list.head = Place(1) /\ Place(L + 1) = Dangling
      /\ list.len = L /\ order[L] \in LNodes
  BY <1>1, ListFacts
<1>3. PICK n \in LNodes : n = order[L]
  BY <1>2
<1>4. PICK t : t = Place(L - 1)
  OBVIOUS
<1>5. node[n].prev = t
  <2>1. L \in 1..Len(order)
    BY <1>1
  <2>2. node[order[L]].prev = Place(L - 1)
    BY <2>1, LinkFacts
  <2> QED
    BY <1>3, <1>4, <2>2
<1>6. /\ order' = SubSeq(order, 1, L - 1)
      /\ list' = [head |-> IF t = Dangling THEN Dangling ELSE list.head, tail |-> t, len |-> list.len - 1]
      /\ node' = [m \in LNodes |-> IF m = n THEN NewNode
                                   ELSE IF m = t THEN [node[m] EXCEPT !.next = Dangling] ELSE node[m]]
  BY <1>0, <1>2, <1>3, <1>5 DEF pop_back_raw
<1>7. /\ order' \in Seq(LNodes) /\ Len(order') = L - 1
      /\ \A i \in 1..(L - 1) : order'[i] = order[IF i < L THEN i ELSE i + 1]
  <2>1. PICK N \in Nat : N = L - 1 /\ N + 1 = Len(order)
    BY <1>1
  <2>2. order' = SubSeq(order, 1, N)
    BY <1>6, <2>1
  <2>3. order' \in Seq(LNodes) /\ Len(order') = N /\ \A i \in 1..N : order'[i] = order[i]
    BY <1>1, <2>1, <2>2, FrontIs, ZenonT(30)
  <2>4. \A i \in 1..N : i < L
    BY <2>1
  <2> QED
    BY <2>1, <2>3, <2>4
<1>8. t = Dangling <=> list.head = n
  <2>1. \A i, j \in 1..L : order[i] = order[j] => i = j
    BY <1>0 DEF ListInv
  <2>2. L = 1 <=> list.head = n
    <3>1. list.head = order[1] /\ 1 \in 1..L /\ L \in 1..L
      BY <1>1, ListFacts
    <3> QED
      BY <1>3, <2>1, <3>1, Zenon
  <2>3. t = Dangling <=> L = 1
    <3>1. L - 1 \in Int /\ (L - 1 \in 1..L <=> L # 1)
      <4>1. PICK N \in Nat : N = L /\ N # 0
        BY <1>1
      <4>2. N - 1 \in Int /\ (N - 1 \in 1..N <=> N # 1)
        BY <4>1
      <4> QED
        BY <4>1, <4>2, Zenon
    <3>2. Place(L - 1) = Dangling <=> L - 1 \notin 1..L
      BY <1>0, <3>1, ListFacts
    <3> QED
      BY <1>4, <3>1, <3>2
  <2> QED
    BY <2>2, <2>3
<1>9. list' = [head |-> IF list.head = n THEN Dangling ELSE list.head,
               tail |-> IF list.tail = n THEN t ELSE list.tail, len |-> list.len - 1]
  BY <1>2, <1>3, <1>6, <1>8
<1>10. node' = [m \in LNodes |-> IF m = n THEN NewNode
                                 ELSE [prev |-> IF m = Dangling THEN t ELSE node[m].prev,
                                       next |-> IF m = t THEN Dangling ELSE node[m].next]]
  <2>1. \A m \in LNodes : m # Dangling /\ node[m] = [prev |-> node[m].prev, next |-> node[m].next]
    BY ListAssumption DEF ListInv
  <2>2. \A m \in LNodes : [node[m] EXCEPT !.next = Dangling] = [prev |-> node[m].prev, next |-> Dangling]
    BY DEF ListInv
  <2> QED
    BY <1>6, <2>1, <2>2, Zenon
<1>11. Out(L) /\ Spliced(n, t, Dangling)
  BY <1>0, <1>7, <1>9, <1>10 DEF Out, Spliced
<1>12. L \in 1..Len(order)
  BY <1>1
<1> QED
  BY <1>2, <1>3, <1>4, <1>11, <1>12, Unlinked

(* A walk from the head meets the nodes that are in the list, by induction *)
(* along the links, and no other: they are closed under successors.        *)
LEMMA MetAreMembers ==
  ASSUME ListInv
  PROVE  {n \in LNodes : Met(n)} = Members
<1>1. /\ Len(order) \in Nat /\ list.head = Place(1)
      /\ \A i \in 1..Len(order) : order[i] \in LNodes /\ order[i] # Dangling /\ Place(i) = order[i]
      /\ \A i \in Int : i \notin 1..Len(order) => Place(i) = Dangling
  BY ListFacts
<1>2. \A i \in 1..Len(order) : node[order[i]].next = Place(i + 1)
  BY LinkFacts
<1>3. Members \in SUBSET LNodes
  BY <1>1 DEF Members
<1>4. \A i \in Int : Place(i) # Dangling => Place(i) \in Members
  BY <1>1 DEF Members
<1>5. ASSUME NEW n \in LNodes, Met(n) PROVE n \in Members
  <2>1. list.head # Dangling => list.head \in Members
    BY <1>1, <1>4
  <2>2. \A m \in Members : node[m].next # Dangling => node[m].next \in Members
    <3> SUFFICES ASSUME NEW i \in 1..Len(order), node[order[i]].next # Dangling
                 PROVE  node[order[i]].next \in Members
      BY DEF Members
    <3> QED
      BY <1>2, <1>4
  <2> QED
    BY <1>3, <1>5, <2>1, <2>2 DEF Met
<1>6. ASSUME NEW n \in Members PROVE Met(n)
  <2> SUFFICES ASSUME NEW S \in SUBSET LNodes, list.head # Dangling => list.head \in S,
                      \A m \in S : node[m].next # Dangling => node[m].next \in S
               PROVE  n \in S
    BY DEF Met
  <2> DEFINE Missed == {i \in 1..Len(order) : order[i] \notin S}
  <2>1. Missed \subseteq Nat
    BY <1>1
  <2>2. CASE Missed # {}
    <3>1. PICK i \in Missed : \A j \in Missed : ~(<<j, i>> \in OpToRel(<, Nat))
      BY <2>1, <2>2, WFMin, NatLessThanWellFounded, Zenon
    <3>2. i \in 1..Len(order) /\ order[i] \notin S
      OBVIOUS
    <3>3. i # 1
      BY <1>1, <3>2
    <3>4. i - 1 \in 1..Len(order) /\ (i - 1) + 1 = i
      BY <1>1, <3>2, <3>3
    <3>5. i - 1 \notin Missed
      <4>1. i - 1 \in Nat /\ i \in Nat /\ i - 1 < i
        BY <1>1, <3>2, <3>4
      <4>2. <<i - 1, i>> \in OpToRel(<, Nat)
        BY <4>1 DEF OpToRel
      <4> QED
        BY <3>1, <4>2, Zenon
    <3>6. order[i - 1] \in S
      BY <3>4, <3>5
    <3>7. node[order[i - 1]].next = order[i]
      BY <1>1, <1>2, <3>2, <3>4
    <3> QED
      BY <1>1, <3>2, <3>6, <3>7
  <2>3. CASE Missed = {}
    BY <2>3 DEF Members
  <2> QED
    BY <2>2, <2>3
<1> QED
  BY <1>3, <1>5, <1>6

LEMMA UnlinkInv ==
  ASSUME ListInv, NEW n \in LNodes, remove_raw(n)
  PROVE  ListInv'
<1> DEFINE L == Len(order)
           k == CHOOSE i \in 1..L : order[i] = n
<1>1. order \in Seq(LNodes) /\ L \in Nat
  BY DEF ListInv
<1>2. n \in Members
  BY MetAreMembers DEF remove_raw
<1>3. PICK c \in 1..L : c = k /\ order[c] = n
  BY <1>2 DEF Members
<1>4. order' = [i \in 1..(L - 1) |-> order[IF i < c THEN i ELSE i + 1]]
  BY <1>3 DEF remove_raw, Without
<1> HIDE DEF k
<1>5. L - 1 \in Nat /\ order' \in [1..(L - 1) -> LNodes]
  <2>1. L - 1 \in Nat /\ \A i \in 1..(L - 1) : i \in 1..L /\ i + 1 \in 1..L
    BY <1>1, <1>3
  <2>2. \A i \in 1..L : order[i] \in LNodes
    BY <1>1
  <2> QED
    BY <1>4, <2>1, <2>2
<1>6. /\ order' \in Seq(LNodes) /\ Len(order') = L - 1
      /\ \A i \in 1..(L - 1) : order'[i] = order[IF i < c THEN i ELSE i + 1]
  <2>1. order' \in Seq(LNodes) /\ Len(order') = L - 1
    BY <1>5, FunctionIsSeq
  <2>2. \A i \in 1..(L - 1) : order'[i] = order[IF i < c THEN i ELSE i + 1]
    BY <1>4
  <2> QED
    BY <2>1, <2>2
<1>7. PICK p, x : p = Place(c - 1) /\ x = Place(c + 1)
  OBVIOUS
<1>8. node[n].prev = p /\ node[n].next = x
  BY <1>3, <1>7, LinkFacts
<1>9. /\ list' = [head |-> IF list.head = n THEN x ELSE list.head,
                  tail |-> IF list.tail = n THEN p ELSE list.tail, len |-> list.len - 1]
      /\ node' = [m \in LNodes |-> IF m = n THEN NewNode
                                   ELSE [prev |-> IF m = x THEN p ELSE node[m].prev,
                                         next |-> IF m = p THEN x ELSE node[m].next]]
  BY <1>8 DEF remove_raw
<1>10. Out(c) /\ Spliced(n, p, x)
  BY <1>6, <1>9 DEF Out, Spliced
<1> QED
  BY <1>3, <1>7, <1>10, Unlinked

LEMMA PushFrontInv ==
  ASSUME ListInv, NEW n \in LNodes, push_front_raw(n)
  PROVE  ListInv'
<1>0. PICK L \in Nat : L = Len(order)
  BY ListFacts
<1>1. /\ L \in Nat /\ L = Len(order) /\ order \in Seq(LNodes)
      /\ \A i \in 1..L : order[i] \in LNodes /\ order[i] # Dangling /\ Place(i) = order[i]
      /\ \A i \in Int : i \notin 1..L => Place(i) = Dangling
  BY <1>0, ListFacts DEF ListInv
<1>2. n \notin Members /\ node[n] = NewNode /\ order' = <<n>> \o order /\ n # Dangling
  BY ListAssumption DEF push_front_raw
<1>3. /\ order' \in Seq(LNodes) /\ Len(order') = L + 1
      /\ \A i \in 1..(L + 1) : order'[i] = IF i = 1 THEN n ELSE order[i - 1]
  BY <1>1, <1>2
<1>4. \A i \in 1..L : order[i] # n
  BY <1>0, <1>2 DEF Members
<1>5. \A i, j \in 1..L : order[i] = order[j] => i = j
  BY <1>0 DEF ListInv
<1>6. \A i, j \in 1..(L + 1) : order'[i] = order'[j] => i = j
  <2> SUFFICES ASSUME NEW i \in 1..(L + 1), NEW j \in 1..(L + 1), order'[i] = order'[j] PROVE i = j
    OBVIOUS
  <2>1. (i = 1 \/ i - 1 \in 1..L) /\ (j = 1 \/ j - 1 \in 1..L)
    BY <1>1
  <2>2. i = j \/ i - 1 = j - 1
    <3>1. CASE i = 1
      BY <1>3, <1>4, <2>1, <3>1
    <3>2. CASE j = 1
      BY <1>3, <1>4, <2>1, <3>2
    <3>3. CASE i # 1 /\ j # 1
      BY <1>3, <1>5, <2>1, <3>3, Zenon
    <3> QED
      BY <3>1, <3>2, <3>3
  <2> QED
    BY <1>1, <2>2
<1>7. \A i \in Int : Place(i)' = IF i = 1 THEN n ELSE Place(i - 1)
  <2> SUFFICES ASSUME NEW i \in Int PROVE Place(i)' = IF i = 1 THEN n ELSE Place(i - 1)
    BY Zenon
  <2>1. CASE i \in 1..(L + 1)
    <3>1. Place(i)' = IF i = 1 THEN n ELSE order[i - 1]
      BY <1>3, <2>1 DEF Place
    <3>2. i = 1 \/ i - 1 \in 1..L
      BY <1>1, <2>1
    <3> QED
      BY <1>1, <3>1, <3>2
  <2>2. CASE i \notin 1..(L + 1)
    <3>1. Place(i)' = Dangling
      BY <1>3, <2>2 DEF Place
    <3>2. i # 1 /\ i - 1 \in Int /\ i - 1 \notin 1..L
      BY <1>1, <2>2
    <3> QED
      BY <1>1, <3>1, <3>2
  <2> QED
    BY <2>1, <2>2
<1>8. PICK h : h = list.head
  OBVIOUS
<1>9. h = Place(1) /\ list.tail = Place(L) /\ list.len = L /\ (h = Dangling <=> L = 0)
  BY <1>0, <1>8, ListFacts
<1>10. node \in [LNodes -> [prev : LNodes \cup {Dangling}, next : LNodes \cup {Dangling}]]
  BY DEF ListInv
<1>11. /\ list' = [head |-> n, tail |-> IF L = 0 THEN n ELSE list.tail, len |-> L + 1]
       /\ node' \in [LNodes -> [prev : LNodes \cup {Dangling}, next : LNodes \cup {Dangling}]]
       /\ node'[n] = [prev |-> Dangling, next |-> h]
       /\ h \in LNodes => node'[h] = [prev |-> n, next |-> node[h].next]
       /\ \A m \in LNodes \ {n, h} : node'[m] = node[m]
  <2>1. CASE L = 0
    <3>1. h = Dangling /\ list' = [head |-> n, tail |-> n, len |-> L + 1] /\ node' = node
      BY <1>8, <1>9, <2>1 DEF push_front_raw
    <3> QED
      BY <1>2, <1>10, <2>1, <3>1, ListAssumption DEF NewNode
  <2>2. CASE L # 0
    <3>1. /\ h # Dangling /\ node' = [node EXCEPT ![n].next = h, ![h].prev = n]
          /\ list' = [list EXCEPT !.head = n, !.len = @ + 1]
      BY <1>8, <1>9, <2>2 DEF push_front_raw
    <3>2. h \in LNodes /\ h # n
      <4>1. 1 \in 1..L
        BY <1>1, <2>2
      <4> QED
        BY <1>1, <1>4, <1>9, <4>1
    <3>3. list' = [head |-> n, tail |-> list.tail, len |-> L + 1]
      BY <1>9, <3>1, Zenon DEF ListInv
    <3>4. /\ node'[n] = [node[n] EXCEPT !.next = h] /\ node'[h] = [node[h] EXCEPT !.prev = n]
          /\ \A m \in LNodes \ {n, h} : node'[m] = node[m]
      BY <1>10, <3>1, <3>2
    <3>5. node'[n] = [prev |-> Dangling, next |-> h]
      BY <1>2, <3>4 DEF NewNode
    <3>6. node'[h] = [prev |-> n, next |-> node[h].next]
      BY <1>10, <3>2, <3>4
    <3>7. node' \in [LNodes -> [prev : LNodes \cup {Dangling}, next : LNodes \cup {Dangling}]]
      BY <1>10, <3>1, <3>2
    <3> QED
      BY <2>2, <3>3, <3>4, <3>5, <3>6, <3>7
  <2> QED
    BY <2>1, <2>2
<1>12. list' = [head |-> Place(1)', tail |-> Place(L + 1)', len |-> L + 1]
  <2>1. Place(1)' = n
    BY <1>7
  <2>2. Place(L + 1)' = IF L = 0 THEN n ELSE list.tail
    <3>1. L + 1 \in Int /\ (L + 1 = 1 <=> L = 0) /\ L + 1 - 1 = L
      BY <1>1
    <3>2. Place(L + 1)' = IF L + 1 = 1 THEN n ELSE Place(L + 1 - 1)
      BY <1>7, <3>1
    <3> QED
      BY <1>9, <3>1, <3>2
  <2> QED
    BY <1>11, <2>1, <2>2
<1>13. ASSUME NEW i \in 1..(L + 1)
       PROVE  node'[order'[i]] = [prev |-> Place(i - 1)', next |-> Place(i + 1)']
  <2>1. /\ Place(i - 1)' = IF i - 1 = 1 THEN n ELSE Place(i - 1 - 1)
        /\ Place(i + 1)' = IF i + 1 = 1 THEN n ELSE Place(i + 1 - 1)
    <3>1. i - 1 \in Int /\ i + 1 \in Int
      OBVIOUS
    <3> QED
      BY <1>7, <3>1
  <2>2. CASE i = 1
    <3>1. Place(i - 1)' = Dangling /\ Place(i + 1)' = h
      BY <1>1, <1>9, <2>1, <2>2
    <3>2. order'[i] = n
      BY <1>3, <2>2
    <3> QED
      BY <1>11, <3>1, <3>2
  <2>3. CASE i # 1
    <3>1. PICK j \in 1..L : j = i - 1
      BY <1>1, <2>3
    <3>2. order'[i] = order[j] /\ order[j] \in LNodes /\ order[j] # n
      BY <1>1, <1>3, <1>4, <2>3, <3>1
    <3>3. node[order[j]] = [prev |-> Place(j - 1), next |-> Place(j + 1)]
      BY <1>0 DEF ListInv
    <3>4. Place(i - 1)' = (IF j = 1 THEN n ELSE Place(j - 1)) /\ Place(i + 1)' = Place(j + 1)
      <4>1. i - 1 = j /\ i - 1 - 1 = j - 1 /\ i + 1 # 1 /\ i + 1 - 1 = j + 1
        BY <3>1
      <4> QED
        BY <2>1, <4>1
    <3>5. order[j] = h <=> j = 1
      <4>1. 1 \in 1..L /\ h = order[1]
        BY <1>1, <1>9, <3>1
      <4> QED
        BY <1>5, <4>1
    <3>6. CASE j = 1
      <4>1. order[j] = h /\ h \in LNodes
        BY <3>2, <3>5, <3>6
      <4>2. node'[h] = [prev |-> n, next |-> Place(j + 1)]
        BY <1>11, <3>3, <4>1
      <4> QED
        BY <3>2, <3>4, <3>6, <4>1, <4>2
    <3>7. CASE j # 1
      <4>1. node'[order[j]] = node[order[j]]
        BY <1>11, <3>2, <3>5, <3>7
      <4> QED
        BY <3>2, <3>3, <3>4, <3>7, <4>1
    <3> QED
      BY <3>6, <3>7
  <2> QED
    BY <2>2, <2>3
<1>14. ASSUME NEW m \in LNodes, m \notin Members'
       PROVE  node'[m] = NewNode
  <2>1. m # n /\ \A i \in 1..L : order[i] # m
    <3>1. \A i \in 1..(L + 1) : order'[i] # m
      BY <1>3, <1>14 DEF Members
    <3>2. 1 \in 1..(L + 1) /\ \A i \in 1..L : i + 1 \in 1..(L + 1) /\ i + 1 # 1 /\ i + 1 - 1 = i
      BY <1>1
    <3>3. \A i \in 1..L : order'[i + 1] = order[i]
      BY <1>3, <3>2
    <3> QED
      BY <1>3, <3>1, <3>2, <3>3
  <2>2. m \notin Members /\ m # h
    <3>1. m \notin Members
      BY <1>0, <2>1 DEF Members
    <3>2. h = Dangling \/ (1 \in 1..L /\ h = order[1])
      BY <1>1, <1>9
    <3> QED
      BY <2>1, <3>1, <3>2, ListAssumption
  <2> QED
    BY <1>11, <2>1, <2>2 DEF ListInv
<1>15. \A i \in 1..(L + 1) : node'[order'[i]] = [prev |-> Place(i - 1)', next |-> Place(i + 1)']
  BY <1>13, Zenon
<1>16. \A m \in LNodes \ Members' : node'[m] = NewNode
  BY <1>14
<1> QED
  <2>1. L + 1 \in Nat
    BY <1>1
  <2> QED
    BY <1>3, <1>6, <1>11, <1>12, <1>15, <1>16, <2>1, LinkedAgain, Zenon

LEMMA PushBackInv ==
  ASSUME ListInv, NEW n \in LNodes, push_back_raw(n)
  PROVE  ListInv'
<1>0. PICK L \in Nat : L = Len(order)
  BY ListFacts
<1>1. /\ L \in Nat /\ L = Len(order) /\ order \in Seq(LNodes)
      /\ \A i \in 1..L : order[i] \in LNodes /\ order[i] # Dangling /\ Place(i) = order[i]
      /\ \A i \in Int : i \notin 1..L => Place(i) = Dangling
  BY <1>0, ListFacts DEF ListInv
<1>2. n \notin Members /\ node[n] = NewNode /\ order' = Append(order, n) /\ n # Dangling
  BY ListAssumption DEF push_back_raw
<1>3. /\ order' \in Seq(LNodes) /\ Len(order') = L + 1
      /\ \A i \in 1..(L + 1) : order'[i] = IF i = L + 1 THEN n ELSE order[i]
  BY <1>1, <1>2
<1>4. \A i \in 1..L : order[i] # n
  BY <1>0, <1>2 DEF Members
<1>5. \A i, j \in 1..L : order[i] = order[j] => i = j
  BY <1>0 DEF ListInv
<1>6. \A i, j \in 1..(L + 1) : order'[i] = order'[j] => i = j
  <2> SUFFICES ASSUME NEW i \in 1..(L + 1), NEW j \in 1..(L + 1), order'[i] = order'[j] PROVE i = j
    OBVIOUS
  <2>1. (i = L + 1 \/ i \in 1..L) /\ (j = L + 1 \/ j \in 1..L)
    BY <1>1
  <2>2. CASE i = L + 1
    BY <1>3, <1>4, <2>1, <2>2
  <2>3. CASE j = L + 1
    BY <1>3, <1>4, <2>1, <2>3
  <2>4. CASE i # L + 1 /\ j # L + 1
    BY <1>3, <1>5, <2>1, <2>4
  <2> QED
    BY <2>2, <2>3, <2>4
<1>7. \A i \in Int : Place(i)' = IF i = L + 1 THEN n ELSE Place(i)
  <2> SUFFICES ASSUME NEW i \in Int PROVE Place(i)' = IF i = L + 1 THEN n ELSE Place(i)
    BY Zenon
  <2>1. CASE i \in 1..(L + 1)
    <3>1. Place(i)' = IF i = L + 1 THEN n ELSE order[i]
      BY <1>3, <2>1 DEF Place
    <3>2. i = L + 1 \/ i \in 1..L
      BY <1>1, <2>1
    <3> QED
      BY <1>1, <3>1, <3>2
  <2>2. CASE i \notin 1..(L + 1)
    <3>1. Place(i)' = Dangling
      BY <1>3, <2>2 DEF Place
    <3>2. i # L + 1 /\ i \notin 1..L
      BY <1>1, <2>2
    <3> QED
      BY <1>1, <3>1, <3>2
  <2> QED
    BY <2>1, <2>2
<1>8. PICK t : t = list.tail
  OBVIOUS
<1>9. list.head = Place(1) /\ t = Place(L) /\ list.len = L /\ (list.head = Dangling <=> L = 0)
  BY <1>0, <1>8, ListFacts
<1>10. node \in [LNodes -> [prev : LNodes \cup {Dangling}, next : LNodes \cup {Dangling}]]
  BY DEF ListInv
<1>11. /\ list' = [head |-> IF L = 0 THEN n ELSE list.head, tail |-> n, len |-> L + 1]
       /\ node' \in [LNodes -> [prev : LNodes \cup {Dangling}, next : LNodes \cup {Dangling}]]
       /\ node'[n] = [prev |-> t, next |-> Dangling]
       /\ t \in LNodes => node'[t] = [prev |-> node[t].prev, next |-> n]
       /\ \A m \in LNodes \ {n, t} : node'[m] = node[m]
  <2>1. CASE L = 0
    <3>1. list' = [head |-> n, tail |-> n, len |-> L + 1] /\ node' = node
      BY <1>8, <1>9, <2>1 DEF push_back_raw
    <3>2. t = Dangling
      BY <1>1, <1>9, <2>1
    <3> QED
      BY <1>2, <1>10, <2>1, <3>1, <3>2, ListAssumption DEF NewNode
  <2>2. CASE L # 0
    <3>1. /\ node' = [node EXCEPT ![n].prev = t, ![t].next = n]
          /\ list' = [list EXCEPT !.tail = n, !.len = @ + 1]
      BY <1>8, <1>9, <2>2 DEF push_back_raw
    <3>2. t \in LNodes /\ t # n
      <4>1. L \in 1..L
        BY <1>1, <2>2
      <4> QED
        BY <1>1, <1>4, <1>9, <4>1
    <3>3. list' = [head |-> list.head, tail |-> n, len |-> L + 1]
      BY <1>9, <3>1, Zenon DEF ListInv
    <3>4. /\ node'[n] = [node[n] EXCEPT !.prev = t] /\ node'[t] = [node[t] EXCEPT !.next = n]
          /\ \A m \in LNodes \ {n, t} : node'[m] = node[m]
      BY <1>10, <3>1, <3>2
    <3>5. node'[n] = [prev |-> t, next |-> Dangling]
      BY <1>2, <3>4 DEF NewNode
    <3>6. node'[t] = [prev |-> node[t].prev, next |-> n]
      BY <1>10, <3>2, <3>4
    <3>7. node' \in [LNodes -> [prev : LNodes \cup {Dangling}, next : LNodes \cup {Dangling}]]
      BY <1>10, <3>1, <3>2, ZenonT(30)
    <3> QED
      BY <2>2, <3>3, <3>4, <3>5, <3>6, <3>7
  <2> QED
    BY <2>1, <2>2
<1>12. list' = [head |-> Place(1)', tail |-> Place(L + 1)', len |-> L + 1]
  <2>1. 1 \in Int /\ L + 1 \in Int /\ (1 = L + 1 <=> L = 0)
    BY <1>1
  <2>2. Place(1)' = IF L = 0 THEN n ELSE list.head
    BY <1>7, <1>9, <2>1
  <2>3. Place(L + 1)' = n
    BY <1>7, <2>1
  <2> QED
    BY <1>11, <2>2, <2>3
<1>13. ASSUME NEW i \in 1..(L + 1)
       PROVE  node'[order'[i]] = [prev |-> Place(i - 1)', next |-> Place(i + 1)']
  <2>1. /\ i - 1 \in Int /\ i + 1 \in Int /\ i - 1 # L + 1 /\ (i + 1 = L + 1 <=> i = L)
        /\ i \in 1..L \/ i = L + 1
    BY <1>1
  <2>2. Place(i - 1)' = Place(i - 1) /\ Place(i + 1)' = IF i = L THEN n ELSE Place(i + 1)
    BY <1>7, <2>1
  <2>3. CASE i = L + 1
    <3>1. i # L /\ i + 1 \notin 1..L /\ i - 1 = L
      BY <1>1, <2>3
    <3>2. Place(i - 1)' = t /\ Place(i + 1)' = Dangling
      BY <1>1, <1>9, <2>1, <2>2, <3>1
    <3>3. order'[i] = n
      BY <1>3, <2>3
    <3> QED
      BY <1>11, <3>2, <3>3
  <2>4. CASE i # L + 1
    <3>1. i \in 1..L /\ order'[i] = order[i] /\ order[i] \in LNodes /\ order[i] # n
      BY <1>1, <1>3, <1>4, <2>1, <2>4
    <3>2. node[order[i]] = [prev |-> Place(i - 1), next |-> Place(i + 1)]
      BY <1>0, <3>1 DEF ListInv
    <3>3. order[i] = t <=> i = L
      <4>1. L \in 1..L /\ t = order[L]
        BY <1>1, <1>9, <3>1
      <4> QED
        BY <1>5, <3>1, <4>1
    <3>4. CASE i = L
      <4>1. order[i] = t /\ t \in LNodes
        BY <3>1, <3>3, <3>4
      <4>2. node'[t] = [prev |-> Place(i - 1), next |-> n]
        BY <1>11, <3>2, <4>1
      <4> QED
        BY <2>2, <3>1, <3>4, <4>1, <4>2
    <3>5. CASE i # L
      <4>1. node'[order[i]] = node[order[i]]
        BY <1>11, <3>1, <3>3, <3>5
      <4> QED
        BY <2>2, <3>1, <3>2, <3>5, <4>1
    <3> QED
      BY <3>4, <3>5
  <2> QED
    BY <2>3, <2>4
<1>14. ASSUME NEW m \in LNodes, m \notin Members'
       PROVE  node'[m] = NewNode
  <2>1. m # n /\ \A i \in 1..L : order[i] # m
    <3>1. \A i \in 1..(L + 1) : order'[i] # m
      BY <1>3, <1>14 DEF Members
    <3>2. L + 1 \in 1..(L + 1) /\ \A i \in 1..L : i \in 1..(L + 1) /\ i # L + 1
      BY <1>1
    <3> QED
      BY <1>3, <3>1, <3>2
  <2>2. m \notin Members /\ m # t
    <3>1. m \notin Members
      BY <1>0, <2>1 DEF Members
    <3>2. t = Dangling \/ (L \in 1..L /\ t = order[L])
      BY <1>1, <1>9
    <3> QED
      BY <2>1, <3>1, <3>2, ListAssumption
  <2> QED
    BY <1>11, <2>1, <2>2 DEF ListInv
<1>15. \A i \in 1..(L + 1) : node'[order'[i]] = [prev |-> Place(i - 1)', next |-> Place(i + 1)']
  BY <1>13, Zenon
<1>16. \A m \in LNodes \ Members' : node'[m] = NewNode
  BY <1>14
<1> QED
  <2>1. L + 1 \in Nat
    BY <1>1
  <2> QED
    BY <1>3, <1>6, <1>11, <1>12, <1>15, <1>16, <2>1, LinkedAgain, Zenon

(* The intrusive list: whatever is pushed, popped and removed, the links   *)
(* are those of the order the calls leave, and a walk meets its nodes.     *)
THEOREM ListIsSafe == listSpec => []LinksFollowCalls
<1>1. listInit => ListInv
  <2> SUFFICES ASSUME listInit PROVE ListInv
    OBVIOUS
  <2>1. order = <<>> /\ Len(order) = 0 /\ order \in Seq(LNodes)
    BY DEF listInit
  <2>2. node \in [LNodes -> [prev : LNodes \cup {Dangling}, next : LNodes \cup {Dangling}]]
    BY DEF listInit, NewNode
  <2>3. Place(1) = Dangling /\ Place(0) = Dangling
    BY <2>1 DEF Place
  <2>4. list = [head |-> Place(1), tail |-> Place(Len(order)), len |-> Len(order)]
    BY <2>1, <2>3 DEF listInit
  <2>5. \A n \in LNodes : node[n] = NewNode
    BY Zenon DEF listInit
  <2> QED
    BY <2>1, <2>2, <2>4, <2>5 DEF ListInv
<1>2. ListInv /\ [listNext]_listVars => ListInv'
  <2> SUFFICES ASSUME ListInv, [listNext]_listVars PROVE ListInv'
    OBVIOUS
  <2>1. CASE UNCHANGED listVars
    BY <2>1 DEF listVars, ListInv, Place, Members
  <2>2. CASE listNext
    BY <2>2, PushFrontInv, PushBackInv, UnlinkInv, PopFrontInv, PopBackInv DEF listNext
  <2> QED
    BY <2>1, <2>2
<1>3. ListInv => LinksFollowCalls
  BY MetAreMembers DEF ListInv, LinksFollowCalls
<1> QED
  BY <1>1, <1>2, <1>3, PTL DEF listSpec
==============================================================================
