--------------------------- MODULE OwnershipProofs ---------------------------
(*************************************************************************)
(* Proofs about who owns a piece of memory: frames, the references of an *)
(* Arc and the elements of a vector.  For any number of pages, holders   *)
(* and references, and for vectors of any length.                        *)
(*************************************************************************)
EXTENDS Frames, TryArc, TryVec, FiniteSetTheorems, TLAPS

(* A leaf names a prover only where the default order, Zenon and then SMT, *)
(* does not find its proof soon.                                           *)
USE ZenonT(5), SMTT(30)

-----------------------------------------------------------------------------
(* Frames.                                                                *)
-----------------------------------------------------------------------------

(* A page starts at a multiple of the size of a page.                      *)
LEMMA PageNumber ==
  ASSUME NEW x \in Nat, Aligned(x)
  PROVE  \E k \in Nat : x = k * PAGE
<1>1. PAGE \in Nat /\ PAGE > 0
  BY FramesAssumption
<1>2. x \div PAGE \in Nat /\ x = (PAGE * (x \div PAGE)) + (x % PAGE)
  BY <1>1
<1>3. x % PAGE = 0
  BY DEF Aligned
<1>4. PICK k : k = x \div PAGE
  OBVIOUS
<1>5. k \in Nat /\ x = k * PAGE
  BY <1>1, <1>2, <1>3, <1>4
<1> QED
  BY <1>5

(* The page after a page is a page.                                        *)
LEMMA NextPage ==
  ASSUME NEW x \in Nat, Aligned(x)
  PROVE  Aligned(x + PAGE)
<1>1. PAGE \in Nat /\ PAGE > 0
  BY FramesAssumption
<1>3. PICK k \in Nat : x = k * PAGE
  BY PageNumber
<1>4. x + PAGE = (k + 1) * PAGE /\ k + 1 \in Nat
  BY <1>1, <1>3
<1>5. ((k + 1) * PAGE) % PAGE = 0
  BY ONLY <1>1, <1>4
<1> QED
  BY <1>4, <1>5 DEF Aligned

(* The list after a frame was put at its head or taken from it.            *)
LEMMA PushRange ==
  ASSUME NEW q \in Seq(Nat), NEW a \in Nat
  PROVE  /\ <<a>> \o q \in Seq(Nat)
         /\ Range(<<a>> \o q) = {a} \cup Range(q)
         /\ IsInjective(q) /\ a \notin Range(q) => IsInjective(<<a>> \o q)
<1> DEFINE p == <<a>> \o q
<1>1. /\ p \in Seq(Nat) /\ Len(q) \in Nat /\ DOMAIN q = 1..Len(q) /\ DOMAIN p = 1..(Len(q) + 1)
      /\ p[1] = a
      /\ \A u \in 1..Len(q) : p[u + 1] = q[u]
  OBVIOUS
<1> HIDE DEF p
<1>2. \A u \in 2..(Len(q) + 1) : u - 1 \in DOMAIN q /\ p[u] = q[u - 1]
  <2> TAKE u \in 2..(Len(q) + 1)
  <2>1. u - 1 \in 1..Len(q) /\ (u - 1) + 1 = u
    BY <1>1
  <2> QED
    BY <1>1, <2>1
<1>3. Range(p) = {a} \cup Range(q)
  <2>1. Range(p) \subseteq {a} \cup Range(q)
    <3> SUFFICES ASSUME NEW u \in DOMAIN p PROVE p[u] \in {a} \cup Range(q)
      BY DEF Range
    <3>1. u = 1 \/ u \in 2..(Len(q) + 1)
      BY <1>1
    <3> QED
      BY <1>1, <1>2, <3>1, Zenon DEF Range
  <2>2. {a} \cup Range(q) \subseteq Range(p)
    <3>1. a \in Range(p)
      BY <1>1 DEF Range
    <3>2. ASSUME NEW u \in DOMAIN q PROVE q[u] \in Range(p)
      <4>1. u + 1 \in DOMAIN p /\ p[u + 1] = q[u]
        BY <1>1
      <4> QED
        BY <4>1 DEF Range
    <3> QED
      BY <3>1, <3>2 DEF Range
  <2> QED
    BY <2>1, <2>2
<1>4. ASSUME IsInjective(q), a \notin Range(q) PROVE IsInjective(p)
  <2> SUFFICES ASSUME NEW u \in DOMAIN p, NEW j \in DOMAIN p, p[u] = p[j] PROVE u = j
    BY DEF IsInjective
  <2>1. (u = 1 \/ u \in 2..(Len(q) + 1)) /\ (j = 1 \/ j \in 2..(Len(q) + 1)) /\ u \in Int /\ j \in Int
    BY <1>1
  <2>2. \A k \in 2..(Len(q) + 1) : p[k] # a
    BY <1>2, <1>4 DEF Range
  <2>3. CASE u = 1 \/ j = 1
    BY <1>1, <2>1, <2>2, <2>3
  <2>4. CASE u \in 2..(Len(q) + 1) /\ j \in 2..(Len(q) + 1)
    <3>1. u - 1 = j - 1
      BY <1>2, <1>4, <2>4 DEF IsInjective
    <3> QED
      BY <2>1, <3>1
  <2> QED
    BY <2>1, <2>3, <2>4
<1> QED
  BY <1>1, <1>3, <1>4 DEF p

LEMMA PopRange ==
  ASSUME NEW q \in Seq(Nat), q # <<>>, IsInjective(q)
  PROVE  /\ Tail(q) \in Seq(Nat) /\ Head(q) \in Nat
         /\ Range(q) = {Head(q)} \cup Range(Tail(q))
         /\ Head(q) \notin Range(Tail(q)) /\ IsInjective(Tail(q))
<1>1. /\ Tail(q) \in Seq(Nat) /\ Len(q) \in Nat /\ Len(q) >= 1
      /\ DOMAIN q = 1..Len(q) /\ DOMAIN Tail(q) = 1..(Len(q) - 1)
      /\ Head(q) = q[1] /\ Head(q) \in Nat
      /\ \A u \in 1..(Len(q) - 1) : Tail(q)[u] = q[u + 1]
  OBVIOUS
<1> DEFINE p == Tail(q)
<1>2. \A u \in 2..Len(q) : u - 1 \in DOMAIN p /\ p[u - 1] = q[u]
  <2> TAKE u \in 2..Len(q)
  <2>1. u - 1 \in 1..(Len(q) - 1) /\ (u - 1) + 1 = u
    BY <1>1
  <2> QED
    BY <1>1, <2>1
<1>3. \A u \in DOMAIN p : u \in Int /\ u + 1 \in 2..Len(q) /\ p[u] = q[u + 1]
  BY <1>1
<1>4. \A u \in DOMAIN q : u = 1 \/ u \in 2..Len(q)
  BY <1>1
<1>5. 1 \in DOMAIN q /\ 2..Len(q) \subseteq DOMAIN q
  BY <1>1
<1> HIDE DEF p
<1>6. Range(q) \subseteq {Head(q)} \cup Range(p)
  <2> SUFFICES ASSUME NEW u \in DOMAIN q PROVE q[u] \in {Head(q)} \cup Range(p)
    BY DEF Range
  <2> QED
    BY <1>1, <1>2, <1>4 DEF Range
<1>7. {Head(q)} \cup Range(p) \subseteq Range(q)
  BY <1>1, <1>3, <1>5 DEF Range
<1>8. Head(q) \notin Range(p)
  <2> SUFFICES ASSUME NEW u \in DOMAIN p, p[u] = Head(q) PROVE FALSE
    BY DEF Range
  <2>1. u + 1 = 1
    BY <1>1, <1>3, <1>5 DEF IsInjective
  <2> QED
    BY <1>3, <2>1
<1>9. IsInjective(p)
  <2> SUFFICES ASSUME NEW u \in DOMAIN p, NEW j \in DOMAIN p, p[u] = p[j] PROVE u = j
    BY DEF IsInjective
  <2>1. u + 1 = j + 1
    BY <1>3, <1>5 DEF IsInjective
  <2> QED
    BY <1>3, <2>1
<1> QED
  BY <1>1, <1>6, <1>7, <1>8, <1>9 DEF p

(* The search takes the first region that fits.                            *)
LEMMA ChosenFits == Fitting # {} => Chosen \in Fitting /\ \A q \in Fitting : Chosen <= q
<1> SUFFICES ASSUME Fitting # {} PROVE Chosen \in Fitting /\ \A q \in Fitting : Chosen <= q
  OBVIOUS
<1>1. Fitting \subseteq Nat
  BY FramesAssumption DEF Fitting
<1>2. PICK m \in Fitting : \A q \in Fitting : ~(<<q, m>> \in OpToRel(<, Nat))
  BY <1>1, WFMin, NatLessThanWellFounded, Zenon
<1>3. \A q \in Fitting : m <= q
  <2> SUFFICES ASSUME NEW q \in Fitting, q < m PROVE FALSE
    BY <1>1
  <2>1. <<q, m>> \in {ss \in Nat \X Nat : ss[1] < ss[2]}
    BY <1>1
  <2> QED
    BY <1>2, <2>1 DEF OpToRel
<1> QED
  BY <1>3 DEF Chosen

(* The bounds of a region.                                                 *)
LEMMA RegionType ==
  ASSUME NEW r \in DOMAIN Regions
  PROVE  Base(r) \in Nat /\ End(r) \in Nat /\ (Base(r) > Start => Aligned(Base(r)))
<1>1. Regions[r] \in [base : Nat, length : Nat, usable : BOOLEAN]
  <2>1. \A S : \A q \in Seq(S) : \A u \in DOMAIN q : q[u] \in S
    OBVIOUS
  <2> QED
    BY <2>1, FramesAssumption, Zenon
<1>2. Base(r) > Start => Aligned(Base(r))
  BY FramesAssumption
<1> QED
  BY <1>1, <1>2 DEF Base, End

(* No region that is left starts inside a page, so the search in a region  *)
(* starts at its base or at the next fresh address, without rounding.      *)
LEMMA StartOf ==
  ASSUME FrameInv, first_alloc_address # NULL, NEW r \in DOMAIN Regions
  PROVE  /\ alloc_start(r) \in Nat /\ Aligned(alloc_start(r))
         /\ alloc_start(r) = Larger(Base(r), first_alloc_address)
<1>1. /\ first_alloc_address \in Nat /\ Aligned(first_alloc_address)
      /\ first_alloc_address >= Start /\ Start \in Nat
  BY FramesAssumption DEF FrameInv
<1>2. Base(r) \in Nat /\ (Base(r) > Start => Aligned(Base(r)))
  BY RegionType
<1>3. PICK s : s = Larger(Base(r), first_alloc_address)
  OBVIOUS
<1>4. Aligned(s)
  <2>1. CASE Base(r) > first_alloc_address
    <3>1. Base(r) > Start
      BY <1>1, <1>2, <2>1
    <3> QED
      BY <1>2, <1>3, <2>1, <3>1 DEF Larger
  <2>2. CASE ~(Base(r) > first_alloc_address)
    BY <1>1, <1>3, <2>2 DEF Larger
  <2> QED
    BY <2>1, <2>2
<1>5. s \in Nat
  BY <1>1, <1>2, <1>3 DEF Larger
<1>6. alloc_start(r) = s
  BY <1>3, <1>4 DEF alloc_start
<1> QED
  BY <1>3, <1>4, <1>5, <1>6

(* A fresh frame is a page of the region it is taken from, and not below   *)
(* any address handed out before.                                          *)
LEMMA FreshFrame ==
  ASSUME FrameInv, first_alloc_address # NULL, NEW r \in Fitting
  PROVE  /\ alloc_start(r) \in Nat /\ Aligned(alloc_start(r))
         /\ alloc_start(r) >= first_alloc_address
         /\ Base(r) <= alloc_start(r) /\ alloc_start(r) + PAGE <= End(r)
<1>1. r \in DOMAIN Regions /\ alloc_start(r) + PAGE <= End(r)
  BY DEF Fitting, Fits
<1>2. first_alloc_address \in Nat /\ Base(r) \in Nat
  BY <1>1, RegionType DEF FrameInv
<1> QED
  BY <1>1, <1>2, StartOf DEF Larger

(* Two pages less than a page apart are one.                               *)
LEMMA SamePage ==
  ASSUME NEW a \in Nat, NEW b \in Nat, Aligned(a), Aligned(b), b <= a, a < b + PAGE
  PROVE  a = b
<1>1. PAGE \in Nat /\ PAGE > 0
  BY FramesAssumption
<1>2. PICK k \in Nat : a = k * PAGE
  BY PageNumber
<1>3. PICK j \in Nat : b = j * PAGE
  BY PageNumber
<1>4. k < j + 1
  <2> SUFFICES ASSUME k >= j + 1 PROVE FALSE
    OBVIOUS
  <2>1. PICK d \in Nat : k = j + 1 + d
    <3>1. k - (j + 1) \in Nat /\ k = j + 1 + (k - (j + 1))
      OBVIOUS
    <3> QED
      BY <3>1
  <2>2. k * PAGE = (j * PAGE) + PAGE + (d * PAGE) /\ d * PAGE \in Nat
    BY <1>1, <2>1
  <2> QED
    BY <1>1, <1>2, <1>3, <2>2
<1>5. j < k + 1
  <2> SUFFICES ASSUME j >= k + 1 PROVE FALSE
    OBVIOUS
  <2>1. PICK d \in Nat : j = k + 1 + d
    <3>1. j - (k + 1) \in Nat /\ j = k + 1 + (j - (k + 1))
      OBVIOUS
    <3> QED
      BY <3>1
  <2>2. j * PAGE = (k * PAGE) + PAGE + (d * PAGE) /\ d * PAGE \in Nat
    BY <1>1, <2>1
  <2> QED
    BY <1>1, <1>2, <1>3, <2>2
<1>6. k = j
  BY <1>4, <1>5
<1> QED
  BY <1>2, <1>3, <1>6

(* Whether an address is that of a page.                                   *)
LEMMA PageFacts ==
  /\ \A a \in PhysPages :
        /\ a \in Nat /\ Aligned(a) /\ a >= Start
        /\ \E r \in DOMAIN Regions : Base(r) <= a /\ a + PAGE <= End(r)
  /\ \A a \in Nat : \A r \in DOMAIN Regions :
        Aligned(a) /\ a >= Start /\ Base(r) <= a /\ a + PAGE <= End(r) => a \in PhysPages
<1> USE RegionType
<1>1. PAGE \in Nat /\ Start \in Nat
  BY FramesAssumption
<1>2. ASSUME NEW a \in PhysPages
      PROVE  /\ a \in Nat /\ Aligned(a) /\ a >= Start
             /\ \E r \in DOMAIN Regions : Base(r) <= a /\ a + PAGE <= End(r)
  <2>1. PICK r \in DOMAIN Regions :
          a \in Base(r)..(End(r) - PAGE) /\ Aligned(a) /\ a >= Start
    BY DEF PhysPages
  <2>2. Base(r) \in Nat /\ End(r) \in Nat
    OBVIOUS
  <2> QED
    BY <1>1, <2>1, <2>2
<1>3. ASSUME NEW a \in Nat, NEW r \in DOMAIN Regions,
             Aligned(a), a >= Start, Base(r) <= a, a + PAGE <= End(r)
      PROVE  a \in PhysPages
  <2>1. Base(r) \in Nat /\ End(r) \in Nat
    OBVIOUS
  <2>2. a \in Base(r)..(End(r) - PAGE)
    BY <1>1, <1>3, <2>1
  <2> QED
    BY <1>3, <2>2 DEF PhysPages
<1> QED
  BY <1>2, <1>3

(* A page that was not handed out yet lies in a region the search accepts, *)
(* which starts there at the latest.                                       *)
LEMMA PageFits ==
  ASSUME FrameInv, first_alloc_address # NULL, NEW a \in PhysPages,
         a >= first_alloc_address
  PROVE  \E r \in Fitting : Base(r) <= a /\ alloc_start(r) <= a
<1>1. PICK r \in DOMAIN Regions : Base(r) <= a /\ a + PAGE <= End(r)
  BY PageFacts
<1>2. /\ a \in Nat /\ first_alloc_address \in Nat /\ Base(r) \in Nat /\ End(r) \in Nat
      /\ PAGE \in Nat /\ PAGE > 0
  BY PageFacts, RegionType, FramesAssumption DEF FrameInv
<1>3. alloc_start(r) \in Nat /\ alloc_start(r) <= a
  BY <1>1, <1>2, StartOf DEF Larger
<1>4. End(r) > first_alloc_address /\ alloc_start(r) + PAGE <= End(r)
  BY <1>1, <1>2, <1>3
<1> QED
  BY <1>1, <1>3, <1>4 DEF Fitting, Fits

(* What is below the next fresh address stays handed out in a step that    *)
(* moves frames between their holders and the list.                        *)
LEMMA KeepNone ==
  ASSUME NoneForgotten, first_alloc_address' = first_alloc_address,
         used' \cup Range(linked_free_address') = used \cup Range(linked_free_address)
  PROVE  NoneForgotten'
BY Zenon DEF NoneForgotten

LEMMA FromListStep ==
  ASSUME FrameInv, FromList
  PROVE  FrameInv'
<1> DEFINE q == linked_free_address
<1>1. /\ Tail(q) \in Seq(Nat) /\ Head(q) \in Nat
      /\ Range(q) = {Head(q)} \cup Range(Tail(q))
      /\ Head(q) \notin Range(Tail(q)) /\ IsInjective(Tail(q))
  BY PopRange DEF FrameInv, FramesApart, FromList
<1>2. /\ linked_free_address' = Tail(q) /\ used' = used \cup {Head(q)}
      /\ first_alloc_address' = first_alloc_address
  BY DEF FromList
<1>3. used' \cup Range(linked_free_address') = used \cup Range(linked_free_address)
  BY <1>1, <1>2
<1>4. FramesApart'
  BY <1>1, <1>2, <1>3 DEF FrameInv, FramesApart
<1>5. FramesInside'
  BY <1>3, Zenon DEF FrameInv, FramesInside
<1>6. used \subseteq Nat
  BY DEF FrameInv
<1>7. used' \subseteq Nat
  BY <1>1, <1>2, <1>6, Zenon
<1>8. NoneForgotten'
  BY <1>2, <1>3, KeepNone DEF FrameInv
<1> QED
  BY <1>1, <1>2, <1>4, <1>5, <1>7, <1>8, Zenon DEF FrameInv

LEMMA DellocStep ==
  ASSUME FrameInv, NEW a \in used, delloc_frame(a)
  PROVE  FrameInv'
<1> DEFINE q == linked_free_address
<1>1. a \in Nat /\ a \notin Range(q) /\ IsInjective(q) /\ q \in Seq(Nat)
  BY DEF FrameInv, FramesApart
<1>2. /\ linked_free_address' = <<a>> \o q /\ used' = used \ {a}
      /\ first_alloc_address' = first_alloc_address
  BY DEF delloc_frame
<1>3. /\ <<a>> \o q \in Seq(Nat) /\ Range(<<a>> \o q) = {a} \cup Range(q)
      /\ IsInjective(<<a>> \o q)
  BY <1>1, PushRange
<1>4. used' \cup Range(linked_free_address') = used \cup Range(linked_free_address)
  BY <1>2, <1>3
<1>5. FramesApart'
  BY <1>2, <1>3, <1>4 DEF FrameInv, FramesApart
<1>6. FramesInside'
  BY <1>4, Zenon DEF FrameInv, FramesInside
<1>7. NoneForgotten'
  BY <1>2, <1>4, KeepNone DEF FrameInv
<1> QED
  BY <1>2, <1>3, <1>5, <1>6, <1>7 DEF FrameInv

LEMMA FromRegionStep ==
  ASSUME FrameInv, FromRegion
  PROVE  FrameInv'
<1>1. /\ first_alloc_address # NULL /\ linked_free_address = <<>> /\ Chosen \in Fitting
      /\ \A q \in Fitting : Chosen <= q
  BY ChosenFits DEF FromRegion
<1>2. PICK s : s = alloc_start(Chosen)
  OBVIOUS
<1>3. /\ s \in Nat /\ Aligned(s) /\ s >= first_alloc_address
      /\ Base(Chosen) <= s /\ s + PAGE <= End(Chosen) /\ Chosen \in DOMAIN Regions
  BY <1>1, <1>2, FreshFrame DEF Fitting
<1>4. PICK n : n = s + PAGE
  OBVIOUS
<1>5. /\ PAGE \in Nat /\ PAGE > 0 /\ Start \in Nat /\ first_alloc_address \in Nat
      /\ first_alloc_address >= Start /\ used \subseteq Nat
      /\ \A a \in used : a + PAGE <= first_alloc_address
  BY <1>1, FramesAssumption DEF FrameInv, FramesApart
<1>6. n \in Nat /\ n # 0 /\ n >= Start /\ n > first_alloc_address /\ s >= Start /\ Aligned(n)
  BY <1>3, <1>4, <1>5, NextPage
<1>7. /\ first_alloc_address' = n /\ used' = used \cup {s}
      /\ linked_free_address' = <<>> /\ linked_free_address = <<>>
  BY <1>1, <1>2, <1>4 DEF FromRegion
<1>8. Range(<<>>) = {} /\ IsInjective(<<>>) /\ <<>> \in Seq(Nat)
  BY DEF Range, IsInjective
<1>9. \A a \in used \cup {s} : a + PAGE <= n
  BY <1>3, <1>4, <1>5, <1>6
<1>10. FramesApart'
  BY <1>7, <1>8, <1>9 DEF FramesApart
<1>11. FramesInside'
  BY <1>3, <1>6, <1>7, <1>8, PageFacts DEF FrameInv, FramesInside
<1>12. NoneForgotten'
  <2> SUFFICES ASSUME Ordered, NEW a \in PhysPages, a < n
               PROVE  a \in used \cup {s}
    BY <1>6, <1>7, Zenon DEF NoneForgotten, NULL
  <2>1. a \in Nat /\ Aligned(a)
    BY PageFacts
  <2>2. CASE a < first_alloc_address
    BY <1>7, <1>8, <2>2 DEF FrameInv, NoneForgotten
  <2>3. CASE a >= first_alloc_address
    <3>1. PICK q \in Fitting : Base(q) <= a /\ alloc_start(q) <= a
      BY <1>1, <2>1, <2>3, PageFits
    <3>2. q \in DOMAIN Regions /\ q \in Int /\ Chosen \in Int /\ Chosen <= q
      BY <1>1, <1>3, FramesAssumption DEF Fitting
    <3>3. Base(q) \in Nat /\ End(Chosen) \in Nat
      BY <1>3, <3>2, RegionType
    <3>4. CASE q = Chosen
      <4>1. s <= a /\ a < s + PAGE
        BY <1>2, <1>4, <3>1, <3>4
      <4> QED
        BY <1>3, <2>1, <4>1, SamePage
    <3>5. CASE q # Chosen
      <4>1. End(Chosen) <= Base(q)
        BY <1>3, <3>2, <3>5 DEF Ordered
      <4> QED
        BY <1>3, <1>4, <1>5, <2>1, <3>1, <3>3, <4>1
    <3> QED
      BY <3>4, <3>5
  <2> QED
    BY <1>5, <2>1, <2>2, <2>3
<1> QED
  BY <1>3, <1>5, <1>6, <1>7, <1>8, <1>10, <1>11, <1>12 DEF FrameInv

(* The allocator gives up only when no page is left.                       *)
LEMMA NoFrameStep ==
  ASSUME FrameInv, NoFrame
  PROVE  FrameInv'
<1>1. /\ first_alloc_address' = NULL
      /\ linked_free_address' = linked_free_address /\ used' = used
  BY DEF NoFrame
<1>2. ASSUME Ordered, NEW a \in PhysPages
      PROVE  a \in used \cup Range(linked_free_address)
  <2>1. a \in Nat /\ Aligned(a)
    BY PageFacts
  <2>2. CASE first_alloc_address = NULL \/ a < first_alloc_address
    BY <1>2, <2>2 DEF FrameInv, NoneForgotten
  <2>3. CASE first_alloc_address # NULL /\ a >= first_alloc_address
    BY <1>2, <2>1, <2>3, PageFits DEF NoFrame
  <2>4. first_alloc_address \in Nat
    BY DEF FrameInv
  <2> QED
    BY <2>1, <2>2, <2>3, <2>4
<1>3. NoneForgotten'
  BY <1>1, <1>2, Zenon DEF NoneForgotten
<1> QED
  BY <1>1, <1>3 DEF NULL, FrameInv, FramesApart, FramesInside

LEMMA FrameInvInductive == frameSpec => []FrameInv
<1>1. frameInit => FrameInv
  <2>1. Range(<<>>) = {} /\ IsInjective(<<>>) /\ <<>> \in Seq(Nat)
    BY DEF Range, IsInjective
  <2>2. frameInit => NoneForgotten
    <3> SUFFICES ASSUME frameInit, NEW a \in PhysPages,
                        first_alloc_address = NULL \/ a < first_alloc_address
                 PROVE  FALSE
      BY DEF NoneForgotten
    <3>1. a \in Nat /\ a >= Start /\ Start \in Nat /\ Start # 0
      BY PageFacts, FramesAssumption
    <3> QED
      BY <3>1 DEF frameInit, NULL
  <2> QED
    BY <2>1, <2>2, FramesAssumption DEF frameInit, FrameInv, FramesApart, FramesInside
<1>2. FrameInv /\ [frameNext]_frameVars => FrameInv'
  <2> SUFFICES ASSUME FrameInv, [frameNext]_frameVars PROVE FrameInv'
    OBVIOUS
  <2>1. CASE UNCHANGED frameVars
    BY <2>1 DEF frameVars, FrameInv, FramesApart, FramesInside, NoneForgotten
  <2>2. CASE NoFrame
    BY <2>2, NoFrameStep
  <2>3. CASE FromList
    BY <2>3, FromListStep
  <2>4. CASE FromRegion
    BY <2>4, FromRegionStep
  <2>5. ASSUME NEW a \in used, delloc_frame(a) PROVE FrameInv'
    BY <2>5, DellocStep
  <2> QED
    BY <2>1, <2>2, <2>3, <2>4, <2>5 DEF frameNext, alloc_frame
<1> QED
  BY <1>1, <1>2, PTL DEF frameSpec

(* No frame is ever in two hands, and no fresh frame is one that was       *)
(* handed out before.                                                      *)
THEOREM FramesNeverShared == frameSpec => []FramesApart
<1>1. FrameInv => FramesApart
  BY DEF FrameInv
<1> QED
  BY <1>1, FrameInvInductive, PTL

(* Every frame handed out lies, as a whole page, in a region above the     *)
(* kernel: alloc_frame's rounding cannot leave the region it found.        *)
THEOREM FramesWithinMemory == frameSpec => []FramesInside
<1>1. FrameInv => FramesInside
  BY DEF FrameInv
<1> QED
  BY <1>1, FrameInvInductive, PTL

(* No page of memory is lost to the search: what it passed it handed out,  *)
(* and when alloc_frame first fails there is no page left, whatever the    *)
(* sizes of the regions, as long as they come in order.                    *)
THEOREM FramesAllUsed == frameSpec => []NoneForgotten
<1>1. FrameInv => NoneForgotten
  BY DEF FrameInv
<1> QED
  BY <1>1, FrameInvInductive, PTL

(* alloc_frame and delloc_frame: a frame is in one hand at a time, is a    *)
(* whole page of one region above the kernel, and no page is passed over.  *)
THEOREM FramesAreSafe == frameSpec => []FramesSafe
BY FramesNeverShared, FramesWithinMemory, FramesAllUsed, PTL DEF FramesSafe

-----------------------------------------------------------------------------
(* References of an Arc.                                                  *)
-----------------------------------------------------------------------------

(* The references of one kind: one more, one less, some, none.             *)
LEMMA RefsFinite ==
    ASSUME NEW refs
    PROVE  IsFiniteSet(RefUnits(refs)) /\ Cardinality(RefUnits(refs)) \in Nat
<1>1. IsFiniteSet(1..MaxRefs) BY ArcAssumption, FS_Interval
<1>2. IsFiniteSet(Holders \X (1..MaxRefs)) BY <1>1, ArcAssumption, FS_Product
<1>3. RefUnits(refs) \in SUBSET (Holders \X (1..MaxRefs)) BY DEF RefUnits
<1> QED BY <1>2, <1>3, FS_Subset, FS_CardinalityType

LEMMA RefGained ==
    ASSUME NEW refs \in [Holders -> Nat], NEW h \in Holders, refs[h] < MaxRefs
    PROVE  /\ Gain(h, refs) \in [Holders -> Nat]
           /\ Gain(h, refs)[h] = refs[h] + 1
           /\ \A g \in Holders \ {h} : Gain(h, refs)[g] = refs[g]
           /\ Cardinality(RefUnits(Gain(h, refs))) = Cardinality(RefUnits(refs)) + 1
<1> DEFINE u == <<h, refs[h] + 1>>
<1>1. /\ Gain(h, refs) \in [Holders -> Nat] /\ Gain(h, refs)[h] = refs[h] + 1
      /\ \A g \in Holders \ {h} : Gain(h, refs)[g] = refs[g]
    BY DEF Gain
<1>2. refs[h] + 1 \in 1..MaxRefs /\ MaxRefs \in Nat BY ArcAssumption
<1>3. u \notin RefUnits(refs) BY DEF RefUnits
<1>4. ASSUME NEW g \in Holders, NEW k \in 1..MaxRefs
      PROVE  k <= Gain(h, refs)[g] <=> (k <= refs[g] \/ (g = h /\ k = refs[h] + 1))
  <2>1. CASE g = h BY <1>1, <1>2, <2>1
  <2>2. CASE g # h BY <1>1, <2>2
  <2> QED BY <2>1, <2>2
<1>5. RefUnits(Gain(h, refs)) = RefUnits(refs) \cup {u}
    BY <1>2, <1>4 DEF RefUnits
<1> HIDE DEF u
<1>6. Cardinality(RefUnits(Gain(h, refs))) = Cardinality(RefUnits(refs)) + 1
  <2>1. IsFiniteSet(RefUnits(refs)) BY RefsFinite
  <2> QED BY <1>3, <1>5, <2>1, FS_AddElement
<1> QED BY <1>1, <1>6

LEMMA RefLost ==
    ASSUME NEW refs \in [Holders -> Nat], NEW h \in Holders, refs[h] <= MaxRefs, refs[h] > 0
    PROVE  /\ Lose(h, refs) \in [Holders -> Nat]
           /\ Lose(h, refs)[h] = refs[h] - 1
           /\ \A g \in Holders \ {h} : Lose(h, refs)[g] = refs[g]
           /\ Cardinality(RefUnits(Lose(h, refs))) = Cardinality(RefUnits(refs)) - 1
<1> DEFINE u == <<h, refs[h]>>
<1>1. /\ Lose(h, refs) \in [Holders -> Nat] /\ Lose(h, refs)[h] = refs[h] - 1
      /\ \A g \in Holders \ {h} : Lose(h, refs)[g] = refs[g]
    BY DEF Lose
<1>2. refs[h] \in 1..MaxRefs /\ MaxRefs \in Nat BY ArcAssumption
<1>3. u \in RefUnits(refs) BY <1>2 DEF RefUnits
<1>4. ASSUME NEW g \in Holders, NEW k \in 1..MaxRefs
      PROVE  k <= Lose(h, refs)[g] <=> (k <= refs[g] /\ ~(g = h /\ k = refs[h]))
  <2>1. CASE g = h BY <1>1, <1>2, <2>1
  <2>2. CASE g # h BY <1>1, <2>2
  <2> QED BY <2>1, <2>2
<1>5. RefUnits(Lose(h, refs)) = RefUnits(refs) \ {u}
    BY <1>2, <1>4 DEF RefUnits
<1> HIDE DEF u
<1>6. Cardinality(RefUnits(Lose(h, refs))) = Cardinality(RefUnits(refs)) - 1
  <2>1. IsFiniteSet(RefUnits(refs)) BY RefsFinite
  <2> QED BY <1>3, <1>5, <2>1, FS_RemoveElement, Zenon
<1> QED BY <1>1, <1>6

LEMMA RefsSome ==
    ASSUME NEW refs \in [Holders -> Nat], \A h \in Holders : refs[h] <= MaxRefs
    PROVE  Cardinality(RefUnits(refs)) = 0 <=> \A h \in Holders : refs[h] = 0
<1>1. Cardinality(RefUnits(refs)) = 0 <=> RefUnits(refs) = {} BY RefsFinite, FS_EmptySet
<1>2. ASSUME NEW h \in Holders, refs[h] # 0 PROVE <<h, 1>> \in RefUnits(refs)
    BY <1>2, ArcAssumption DEF RefUnits
<1>3. ASSUME \A h \in Holders : refs[h] = 0 PROVE RefUnits(refs) = {} BY <1>3 DEF RefUnits
<1>4. CASE \A h \in Holders : refs[h] = 0 BY <1>1, <1>3, <1>4
<1>5. CASE ~\A h \in Holders : refs[h] = 0
  <2>1. RefUnits(refs) # {} BY <1>2, <1>5, Zenon
  <2> QED BY <1>1, <1>5, <2>1
<1> QED BY <1>4, <1>5

(* The threads at a step: one arrives, one leaves.                         *)
LEMMA AtFinite ==
    ASSUME NEW s
    PROVE  IsFiniteSet(At(s)) /\ Cardinality(At(s)) \in Nat /\ (Cardinality(At(s)) = 0 <=> At(s) = {})
<1>1. At(s) \in SUBSET Holders BY DEF At
<1> QED BY <1>1, ArcAssumption, FS_Subset, FS_CardinalityType, FS_EmptySet

LEMMA Steps ==
    ASSUME ArcTypes, NEW h \in Holders, NEW a, NEW b \in {"idle", "inc", "dec", "value", "weak", "free"},
           step[h] = a, a # b, Goto(h, b)
    PROVE  /\ step' \in [Holders -> {"idle", "inc", "dec", "value", "weak", "free"}]
           /\ step'[h] = b /\ \A g \in Holders \ {h} : step'[g] = step[g]
           /\ At(a)' = At(a) \ {h} /\ h \in At(a) /\ Cardinality(At(a)') = Cardinality(At(a)) - 1
           /\ At(b)' = At(b) \cup {h} /\ h \notin At(b) /\ Cardinality(At(b)') = Cardinality(At(b)) + 1
           /\ \A c : c # a /\ c # b => At(c)' = At(c)
<1>1. step' \in [Holders -> {"idle", "inc", "dec", "value", "weak", "free"}]
      /\ step'[h] = b /\ \A g \in Holders \ {h} : step'[g] = step[g] BY DEF Goto, ArcTypes
<1>2. At(a)' = At(a) \ {h} /\ h \in At(a) BY <1>1 DEF At
<1>3. At(b)' = At(b) \cup {h} /\ h \notin At(b) BY <1>1 DEF At
<1>4. ASSUME NEW c, c # a, c # b PROVE At(c)' = At(c) BY <1>1, <1>4 DEF At
<1>5. Cardinality(At(a) \ {h}) = Cardinality(At(a)) - 1 BY <1>2, AtFinite, FS_RemoveElement
<1>6. Cardinality(At(b) \cup {h}) = Cardinality(At(b)) + 1 BY <1>3, AtFinite, FS_AddElement
<1> QED BY <1>1, <1>2, <1>3, <1>4, <1>5, <1>6

(* What a reference, or a call in progress, says of the counters.          *)
LEMMA RefHeld ==
    ASSUME ArcInv, NEW h \in Holders
    PROVE  /\ strongs[h] > 0 \/ step[h] \in {"inc", "dec"} => strong > 0 /\ value = "live" /\ weak > 0 /\ memory = "live"
           /\ HasRef(h) \/ step[h] = "weak" => weak > 0 /\ memory = "live"
           /\ step[h] = "value" => strong = 0 /\ value = "live" /\ weak > 0 /\ memory = "live"
           /\ step[h] = "free" => weak = 0 /\ memory = "live"
<1> DEFINE S == Cardinality(RefUnits(strongs))  W == Cardinality(RefUnits(weaks))
           I == Cardinality(At("inc"))  D == Cardinality(At("dec"))  K == Cardinality(At("weak"))
<1>1. S \in Nat /\ W \in Nat /\ I \in Nat /\ D \in Nat /\ K \in Nat BY RefsFinite, AtFinite
<1>2. strong = S + I + D /\ weak = S + W + K + (IF value = "live" THEN 1 ELSE 0) BY DEF ArcInv, Counted
<1>3. strongs[h] > 0 => S > 0
  <2>1. strongs \in [Holders -> Nat] /\ \A g \in Holders : strongs[g] <= MaxRefs BY DEF ArcInv, ArcTypes, Counted
  <2> QED BY <1>1, <2>1, RefsSome
<1>4. weaks[h] > 0 => W > 0
  <2>1. weaks \in [Holders -> Nat] /\ \A g \in Holders : weaks[g] <= MaxRefs BY DEF ArcInv, ArcTypes, Counted
  <2> QED BY <1>1, <2>1, RefsSome
<1>5. /\ step[h] = "inc" => I > 0 
      /\ step[h] = "dec" => D > 0
      /\ step[h] = "weak" => K > 0
  <2>1. \A s : step[h] = s => At(s) # {} BY DEF At
  <2> QED BY <1>1, <2>1, AtFinite
<1>6. /\ step[h] = "value" => At("value") # {}
      /\ step[h] = "free" => At("free") # {} BY DEF At
<1> HIDE DEF S, W, I, D, K
<1>7. LastOut /\ ArcTypes BY DEF ArcInv
<1> QED BY <1>1, <1>2, <1>3, <1>4, <1>5, <1>6, <1>7 DEF LastOut, HasRef, ArcTypes

-----------------------------------------------------------------------------
LEMMA ArcInvSafe ==
    ASSUME ArcInv
    PROVE  ArcSafe
<1>1. NoMisuse BY DEF ArcInv
<1>2. StrongMeansLive BY RefHeld DEF StrongMeansLive, ArcInv, LastOut, ArcTypes
<1>3. AllReleased
  <2>1. SUFFICES ASSUME \A h \in Holders : step[h] = "idle" /\ ~HasRef(h)
                 PROVE  value = "dropped" /\ memory = "freed" BY DEF AllReleased
  <2>2. \A s : s # "idle" => At(s) = {} BY <2>1 DEF At
  <2>3. \A s : s # "idle" => Cardinality(At(s)) = 0 BY <2>2, AtFinite
  <2>4. /\ strongs \in [Holders -> Nat] /\ \A g \in Holders : strongs[g] <= MaxRefs
        /\ weaks \in [Holders -> Nat] /\ \A g \in Holders : weaks[g] <= MaxRefs
      BY DEF ArcInv, ArcTypes, Counted
  <2>5. \A h \in Holders : strongs[h] = 0 /\ weaks[h] = 0 BY <2>1, <2>4 DEF HasRef
  <2>6. Cardinality(RefUnits(strongs)) = 0 /\ Cardinality(RefUnits(weaks)) = 0 BY <2>4, <2>5, RefsSome
  <2>7. strong = 0 BY <2>3, <2>6 DEF ArcInv, Counted
  <2>8. value = "dropped" BY <2>2, <2>7 DEF ArcInv, ArcTypes, LastOut
  <2>9. weak = 0 BY <2>3, <2>6, <2>8 DEF ArcInv, Counted
  <2> QED BY <2>2, <2>8, <2>9 DEF ArcInv, ArcTypes, LastOut
<1> QED BY <1>1, <1>2, <1>3 DEF ArcSafe

LEMMA ArcInitial ==
    ASSUME arcInit
    PROVE  ArcInv
<1>1. First \in Holders BY ArcAssumption DEF First
<1> DEFINE z == [h \in Holders |-> 0]
<1>2. ArcTypes BY DEF arcInit, try_new, ArcTypes
<1>3. \A s : s # "idle" => At(s) = {} BY DEF At, arcInit
<1>4. \A s : s # "idle" => Cardinality(At(s)) = 0 BY <1>3, AtFinite
<1>5. z \in [Holders -> Nat] /\ \A h \in Holders : z[h] = 0 /\ z[h] < MaxRefs /\ z[h] <= MaxRefs BY ArcAssumption
<1>6. strongs = Gain(First, z) /\ weaks = z BY <1>1 DEF arcInit, Gain
<1> HIDE DEF z
<1>7. Cardinality(RefUnits(z)) = 0 BY <1>5, RefsSome
<1>8. Cardinality(RefUnits(Gain(First, z))) = 1 BY <1>1, <1>5, <1>7, RefGained
<1>9. \A h \in Holders : strongs[h] <= MaxRefs /\ weaks[h] <= MaxRefs /\ step[h] = "idle" BY <1>1, ArcAssumption DEF arcInit
<1>10. Counted BY <1>4, <1>6, <1>7, <1>8, <1>9 DEF Counted, arcInit, try_new
<1>11. LastOut BY <1>3 DEF LastOut, arcInit, try_new
<1> QED BY <1>2, <1>10, <1>11 DEF ArcInv, NoMisuse, arcInit

-----------------------------------------------------------------------------
LEMMA IncStrongStep ==
    ASSUME ArcInv, NEW h \in Holders, inc_strong(h)
    PROVE  ArcInv'
<1>1. weak > 0 /\ memory = "live" BY RefHeld DEF inc_strong
<1>2. NoMisuse' BY <1>1, Zenon DEF inc_strong, Touch, NoMisuse, ArcInv
<1>3. UNCHANGED <<weak, value, memory, strongs, weaks>> BY DEF inc_strong
<1>4. CASE strong = 0
  <2>1. UNCHANGED <<strong, step>> BY <1>4 DEF inc_strong
  <2>2. ArcTypes' /\ Counted' /\ LastOut' BY <1>3, <2>1 DEF ArcInv, ArcTypes, Counted, LastOut, At
  <2> QED BY <1>2, <2>2 DEF ArcInv
<1>5. CASE strong # 0
  <2>1. step[h] = "idle" /\ Goto(h, "inc") /\ strong' = strong + 1 /\ strongs[h] < MaxRefs BY <1>5 DEF inc_strong
  <2> ArcTypes BY DEF ArcInv
  <2>2. /\ step' \in [Holders -> {"idle", "inc", "dec", "value", "weak", "free"}]
        /\ step'[h] = "inc" /\ \A g \in Holders \ {h} : step'[g] = step[g]
        /\ Cardinality(At("inc")') = Cardinality(At("inc")) + 1
        /\ At("dec")' = At("dec") /\ At("weak")' = At("weak") /\ At("value")' = At("value") /\ At("free")' = At("free")
      BY <2>1, Steps
  <2>3. ArcTypes' BY <1>3, <2>1, <2>2 DEF ArcTypes
  <2>4. Counted' BY <1>3, <2>1, <2>2, AtFinite, RefsFinite DEF Counted, ArcInv
  <2>5. LastOut' BY <1>3, <1>5, <2>1, <2>2 DEF LastOut, ArcInv, ArcTypes
  <2> QED BY <1>2, <2>3, <2>4, <2>5 DEF ArcInv
<1> QED BY <1>4, <1>5

LEMMA IncEndStep ==
    ASSUME ArcInv, NEW h \in Holders, inc_strong_weak(h)
    PROVE  ArcInv'
<1> ArcTypes BY DEF ArcInv
<1>0. /\ Cardinality(RefUnits(strongs)) \in Nat /\ Cardinality(RefUnits(weaks)) \in Nat /\ Cardinality(At("inc")) \in Nat
      /\ Cardinality(At("dec")) \in Nat /\ Cardinality(At("weak")) \in Nat BY AtFinite, RefsFinite
<1>1. step[h] = "inc" /\ UNCHANGED <<strong, value, memory, weaks>> /\ weak' = weak + 1 BY DEF inc_strong_weak
<1>2. strong > 0 /\ value = "live" /\ weak > 0 /\ memory = "live" BY <1>1, RefHeld DEF ArcInv, HasRef
<1>3. NoMisuse' BY <1>2, Zenon DEF inc_strong_weak, Touch, NoMisuse, ArcInv
<1>4. strongs' \in [Holders -> Nat] /\ (\A g \in Holders : strongs'[g] <= MaxRefs) /\ strongs'[h] = strongs[h] + 1
      /\ (\A g \in Holders \ {h} : strongs'[g] = strongs[g])
      /\ Cardinality(RefUnits(strongs')) = Cardinality(RefUnits(strongs)) + 1
  <2>1. strongs \in [Holders -> Nat] /\ strongs[h] < MaxRefs /\ (\A g \in Holders : strongs[g] <= MaxRefs)
      BY <1>1 DEF ArcInv, ArcTypes, Counted, inc_strong_weak
  <2>2. strongs' = Gain(h, strongs) BY <1>1 DEF inc_strong_weak
  <2> QED BY <2>1, <2>2, RefGained, ArcAssumption
<1>5. Goto(h, "idle") BY DEF inc_strong_weak
<1>6. ArcInv'
  <2>1. step[h] = "inc" /\ Goto(h, "idle") BY <1>1, <1>5 DEF inc_strong_weak
  <2>2. /\ step' \in [Holders -> {"idle", "inc", "dec", "value", "weak", "free"}]
        /\ step'[h] = "idle" /\ \A g \in Holders \ {h} : step'[g] = step[g]
        /\ At("inc")' = At("inc") \ {h} /\ h \in At("inc") /\ Cardinality(At("inc")') = Cardinality(At("inc")) - 1
        /\ At("dec")' = At("dec") /\ At("weak")' = At("weak") /\ At("value")' = At("value") /\ At("free")' = At("free")
      BY <2>1, Steps
  <2>3. ArcTypes' BY <1>1, <1>2, <1>4, <2>2, <1>5 DEF ArcTypes
  <2>4. Counted' BY <1>1, <1>2, <1>4, <2>2, <1>5, <1>0 DEF Counted, ArcInv
  <2>5. LastOut' BY <1>1, <1>2, <1>4, <2>2, <1>5 DEF LastOut, ArcInv, ArcTypes
  <2> QED BY <1>3, <2>3, <2>4, <2>5 DEF ArcInv
<1> QED BY <1>6

LEMMA DecStep ==
    ASSUME ArcInv, NEW h \in Holders, dec_strong(h)
    PROVE  ArcInv'
<1> ArcTypes BY DEF ArcInv
<1>0. /\ Cardinality(RefUnits(strongs)) \in Nat /\ Cardinality(RefUnits(weaks)) \in Nat /\ Cardinality(At("inc")) \in Nat
      /\ Cardinality(At("dec")) \in Nat /\ Cardinality(At("weak")) \in Nat BY AtFinite, RefsFinite
<1>1. step[h] = "idle" /\ UNCHANGED <<strong, value, memory, weaks>> /\ weak' = weak - 1 /\ strongs[h] > 0 BY DEF dec_strong
<1>2. strong > 0 /\ value = "live" /\ weak > 0 /\ memory = "live" BY <1>1, RefHeld DEF ArcInv, HasRef
<1>3. NoMisuse' BY <1>2, Zenon DEF dec_strong, Touch, NoMisuse, ArcInv
<1>4. strongs' \in [Holders -> Nat] /\ (\A g \in Holders : strongs'[g] <= MaxRefs) /\ strongs'[h] = strongs[h] - 1
      /\ (\A g \in Holders \ {h} : strongs'[g] = strongs[g])
      /\ Cardinality(RefUnits(strongs')) = Cardinality(RefUnits(strongs)) - 1
  <2>1. strongs \in [Holders -> Nat] /\ strongs[h] > 0 /\ (\A g \in Holders : strongs[g] <= MaxRefs)
      BY <1>1 DEF ArcInv, ArcTypes, Counted, dec_strong
  <2>2. strongs' = Lose(h, strongs) BY <1>1 DEF dec_strong
  <2> QED BY <2>1, <2>2, RefLost, ArcAssumption
<1>5. Goto(h, "dec") BY DEF dec_strong
<1>6. ArcInv'
  <2>1. step[h] = "idle" /\ Goto(h, "dec") BY <1>1, <1>5 DEF dec_strong
  <2>2. /\ step' \in [Holders -> {"idle", "inc", "dec", "value", "weak", "free"}]
        /\ step'[h] = "dec" /\ \A g \in Holders \ {h} : step'[g] = step[g]
        /\ At("dec")' = At("dec") \cup {h} /\ h \notin At("dec") /\ Cardinality(At("dec")') = Cardinality(At("dec")) + 1
        /\ At("inc")' = At("inc") /\ At("weak")' = At("weak") /\ At("value")' = At("value") /\ At("free")' = At("free")
      BY <2>1, Steps
  <2>3. ArcTypes' BY <1>1, <1>2, <1>4, <2>2, <1>5 DEF ArcTypes
  <2>4. Counted' BY <1>1, <1>2, <1>4, <2>2, <1>5, <1>0 DEF Counted, ArcInv
  <2>6. weak' > 0
    <3>1. weak = Cardinality(RefUnits(strongs)) + Cardinality(RefUnits(weaks)) + Cardinality(At("weak")) + 1
        BY <1>2 DEF Counted, ArcInv
    <3>2. Cardinality(RefUnits(strongs')) \in Nat BY RefsFinite
    <3> QED BY <1>0, <1>1, <1>4, <3>1, <3>2
  <2>5. LastOut' BY <1>1, <1>2, <1>4, <2>2, <1>5, <2>6 DEF LastOut, ArcInv, ArcTypes
  <2> QED BY <1>3, <2>3, <2>4, <2>5 DEF ArcInv
<1> QED BY <1>6

LEMMA DecEndStep ==
    ASSUME ArcInv, NEW h \in Holders, dec_strong_end(h)
    PROVE  ArcInv'
<1> ArcTypes BY DEF ArcInv
<1>0. /\ Cardinality(RefUnits(strongs)) \in Nat /\ Cardinality(RefUnits(weaks)) \in Nat /\ Cardinality(At("inc")) \in Nat
      /\ Cardinality(At("dec")) \in Nat /\ Cardinality(At("weak")) \in Nat BY AtFinite, RefsFinite
<1>1. step[h] = "dec" /\ UNCHANGED <<weak, value, memory, strongs, weaks>> /\ strong' = strong - 1 BY DEF dec_strong_end
<1>2. strong > 0 /\ value = "live" /\ weak > 0 /\ memory = "live" BY <1>1, RefHeld DEF ArcInv, HasRef
<1>3. NoMisuse' BY <1>2, ZenonT(40) DEF dec_strong_end, Touch, NoMisuse, ArcInv
<1>5. CASE strong = 1
  <2>1. step[h] = "dec" /\ Goto(h, "value") BY <1>1, <1>5 DEF dec_strong_end
  <2>2. /\ step' \in [Holders -> {"idle", "inc", "dec", "value", "weak", "free"}]
        /\ step'[h] = "value" /\ \A g \in Holders \ {h} : step'[g] = step[g]
        /\ At("dec")' = At("dec") \ {h} /\ h \in At("dec") /\ Cardinality(At("dec")') = Cardinality(At("dec")) - 1
        /\ At("value")' = At("value") \cup {h} /\ h \notin At("value") /\ Cardinality(At("value")') = Cardinality(At("value")) + 1
        /\ At("inc")' = At("inc") /\ At("weak")' = At("weak") /\ At("free")' = At("free")
      BY <2>1, Steps
  <2>3. ArcTypes' BY <1>1, <1>2, <2>2, <1>5 DEF ArcTypes
  <2>4. Counted' BY <1>1, <1>2, <2>2, <1>5, <1>0 DEF Counted, ArcInv
  <2>5. LastOut' BY <1>1, <1>2, <2>2, <1>5 DEF LastOut, ArcInv, ArcTypes
  <2> QED BY <1>3, <2>3, <2>4, <2>5 DEF ArcInv
<1>6. CASE strong # 1
  <2>1. step[h] = "dec" /\ Goto(h, "idle") BY <1>1, <1>6 DEF dec_strong_end
  <2>2. /\ step' \in [Holders -> {"idle", "inc", "dec", "value", "weak", "free"}]
        /\ step'[h] = "idle" /\ \A g \in Holders \ {h} : step'[g] = step[g]
        /\ At("dec")' = At("dec") \ {h} /\ h \in At("dec") /\ Cardinality(At("dec")') = Cardinality(At("dec")) - 1
        /\ At("inc")' = At("inc") /\ At("weak")' = At("weak") /\ At("value")' = At("value") /\ At("free")' = At("free")
      BY <2>1, Steps
  <2>3. ArcTypes' BY <1>1, <1>2, <2>2, <1>6 DEF ArcTypes
  <2>4. Counted' BY <1>1, <1>2, <2>2, <1>6, <1>0 DEF Counted, ArcInv
  <2>5. LastOut' BY <1>1, <1>2, <2>2, <1>6 DEF LastOut, ArcInv, ArcTypes
  <2> QED BY <1>3, <2>3, <2>4, <2>5 DEF ArcInv
<1> QED BY <1>5, <1>6

LEMMA DropValueStep ==
    ASSUME ArcInv, NEW h \in Holders, drop_slow(h)
    PROVE  ArcInv'
<1> ArcTypes BY DEF ArcInv
<1>0. /\ Cardinality(RefUnits(strongs)) \in Nat /\ Cardinality(RefUnits(weaks)) \in Nat /\ Cardinality(At("inc")) \in Nat
      /\ Cardinality(At("dec")) \in Nat /\ Cardinality(At("weak")) \in Nat BY AtFinite, RefsFinite
<1>1. step[h] = "value" /\ UNCHANGED <<strong, weak, memory, strongs, weaks>> /\ value' = "dropped" BY DEF drop_slow
<1>2. strong = 0 /\ value = "live" /\ weak > 0 /\ memory = "live" BY <1>1, RefHeld DEF ArcInv, HasRef
<1>3. NoMisuse' BY <1>2, ZenonT(40) DEF drop_slow, Touch, NoMisuse, ArcInv
<1>5. Goto(h, "weak") BY DEF drop_slow
<1>6. ArcInv'
  <2>1. step[h] = "value" /\ Goto(h, "weak") BY <1>1, <1>5 DEF drop_slow
  <2>2. /\ step' \in [Holders -> {"idle", "inc", "dec", "value", "weak", "free"}]
        /\ step'[h] = "weak" /\ \A g \in Holders \ {h} : step'[g] = step[g]
        /\ At("value")' = At("value") \ {h} /\ h \in At("value") /\ Cardinality(At("value")') = Cardinality(At("value")) - 1
        /\ At("weak")' = At("weak") \cup {h} /\ h \notin At("weak") /\ Cardinality(At("weak")') = Cardinality(At("weak")) + 1
        /\ At("inc")' = At("inc") /\ At("dec")' = At("dec") /\ At("free")' = At("free")
      BY <2>1, Steps
  <2>3. ArcTypes' BY <1>1, <1>2, <2>2, <1>5 DEF ArcTypes
  <2>4. Counted' BY <1>1, <1>2, <2>2, <1>5, <1>0 DEF Counted, ArcInv
  <2>5. LastOut' BY <1>1, <1>2, <2>2, <1>5 DEF LastOut, ArcInv, ArcTypes
  <2> QED BY <1>3, <2>3, <2>4, <2>5 DEF ArcInv
<1> QED BY <1>6

LEMMA DropWeakStep ==
    ASSUME ArcInv, NEW h \in Holders, DropWeak(h)
    PROVE  ArcInv'
<1> ArcTypes BY DEF ArcInv
<1>0. /\ Cardinality(RefUnits(strongs)) \in Nat /\ Cardinality(RefUnits(weaks)) \in Nat /\ Cardinality(At("inc")) \in Nat
      /\ Cardinality(At("dec")) \in Nat /\ Cardinality(At("weak")) \in Nat BY AtFinite, RefsFinite
<1>1. step[h] = "idle" /\ UNCHANGED <<strong, weak, value, memory, strongs>> /\ weaks[h] > 0 BY DEF DropWeak
<1>2. weak > 0 /\ memory = "live" BY <1>1, RefHeld DEF ArcInv, HasRef
<1>3. NoMisuse' BY <1>2 DEF DropWeak, Touch, NoMisuse, ArcInv
<1>4. weaks' \in [Holders -> Nat] /\ (\A g \in Holders : weaks'[g] <= MaxRefs) /\ weaks'[h] = weaks[h] - 1
      /\ (\A g \in Holders \ {h} : weaks'[g] = weaks[g])
      /\ Cardinality(RefUnits(weaks')) = Cardinality(RefUnits(weaks)) - 1
  <2>1. weaks \in [Holders -> Nat] /\ weaks[h] > 0 /\ (\A g \in Holders : weaks[g] <= MaxRefs)
      BY <1>1 DEF ArcInv, ArcTypes, Counted, DropWeak
  <2>2. weaks' = Lose(h, weaks) BY <1>1 DEF DropWeak
  <2> QED BY <2>1, <2>2, RefLost, ArcAssumption
<1>5. Goto(h, "weak") BY DEF DropWeak
<1>6. ArcInv'
  <2>1. step[h] = "idle" /\ Goto(h, "weak") BY <1>1, <1>5 DEF DropWeak
  <2>2. /\ step' \in [Holders -> {"idle", "inc", "dec", "value", "weak", "free"}]
        /\ step'[h] = "weak" /\ \A g \in Holders \ {h} : step'[g] = step[g]
        /\ At("weak")' = At("weak") \cup {h} /\ h \notin At("weak") /\ Cardinality(At("weak")') = Cardinality(At("weak")) + 1
        /\ At("inc")' = At("inc") /\ At("dec")' = At("dec") /\ At("value")' = At("value") /\ At("free")' = At("free")
      BY <2>1, Steps
  <2>3. ArcTypes' BY <1>1, <1>2, <1>4, <2>2, <1>5 DEF ArcTypes
  <2>4. Counted' BY <1>1, <1>2, <1>4, <2>2, <1>5, <1>0 DEF Counted, ArcInv
  <2>5. LastOut' BY <1>1, <1>2, <1>4, <2>2, <1>5 DEF LastOut, ArcInv, ArcTypes
  <2> QED BY <1>3, <2>3, <2>4, <2>5 DEF ArcInv
<1> QED BY <1>6

LEMMA DecWeakStep ==
    ASSUME ArcInv, NEW h \in Holders, dec_weak(h)
    PROVE  ArcInv'
<1> ArcTypes BY DEF ArcInv
<1>0. /\ Cardinality(RefUnits(strongs)) \in Nat /\ Cardinality(RefUnits(weaks)) \in Nat /\ Cardinality(At("inc")) \in Nat
      /\ Cardinality(At("dec")) \in Nat /\ Cardinality(At("weak")) \in Nat BY AtFinite, RefsFinite
<1>1. step[h] = "weak" /\ UNCHANGED <<strong, value, memory, strongs, weaks>> /\ weak' = weak - 1 BY DEF dec_weak
<1>2. weak > 0 /\ memory = "live" BY <1>1, RefHeld DEF ArcInv, HasRef
<1>3. NoMisuse' BY <1>2, Zenon DEF dec_weak, Touch, NoMisuse, ArcInv
<1>5. CASE weak = 1
  <2>1. step[h] = "weak" /\ Goto(h, "free") BY <1>1, <1>5 DEF dec_weak
  <2>2. /\ step' \in [Holders -> {"idle", "inc", "dec", "value", "weak", "free"}]
        /\ step'[h] = "free" /\ \A g \in Holders \ {h} : step'[g] = step[g]
        /\ At("weak")' = At("weak") \ {h} /\ h \in At("weak") /\ Cardinality(At("weak")') = Cardinality(At("weak")) - 1
        /\ At("free")' = At("free") \cup {h} /\ h \notin At("free") /\ Cardinality(At("free")') = Cardinality(At("free")) + 1
        /\ At("inc")' = At("inc") /\ At("dec")' = At("dec") /\ At("value")' = At("value")
      BY <2>1, Steps
  <2>3. ArcTypes' BY <1>1, <1>2, <2>2, <1>5 DEF ArcTypes
  <2>4. Counted' BY <1>1, <1>2, <2>2, <1>5, <1>0 DEF Counted, ArcInv
  <2>5. LastOut' BY <1>1, <1>2, <2>2, <1>5 DEF LastOut, ArcInv, ArcTypes
  <2> QED BY <1>3, <2>3, <2>4, <2>5 DEF ArcInv
<1>6. CASE weak # 1
  <2>1. step[h] = "weak" /\ Goto(h, "idle") BY <1>1, <1>6 DEF dec_weak
  <2>2. /\ step' \in [Holders -> {"idle", "inc", "dec", "value", "weak", "free"}]
        /\ step'[h] = "idle" /\ \A g \in Holders \ {h} : step'[g] = step[g]
        /\ At("weak")' = At("weak") \ {h} /\ h \in At("weak") /\ Cardinality(At("weak")') = Cardinality(At("weak")) - 1
        /\ At("inc")' = At("inc") /\ At("dec")' = At("dec") /\ At("value")' = At("value") /\ At("free")' = At("free")
      BY <2>1, Steps
  <2>3. ArcTypes' BY <1>1, <1>2, <2>2, <1>6 DEF ArcTypes
  <2>4. Counted' BY <1>1, <1>2, <2>2, <1>6, <1>0 DEF Counted, ArcInv
  <2>5. LastOut' BY <1>1, <1>2, <2>2, <1>6 DEF LastOut, ArcInv, ArcTypes
  <2> QED BY <1>3, <2>3, <2>4, <2>5 DEF ArcInv
<1> QED BY <1>5, <1>6

LEMMA FreeStep ==
    ASSUME ArcInv, NEW h \in Holders, dealloc_box(h)
    PROVE  ArcInv'
<1> ArcTypes BY DEF ArcInv
<1>0. /\ Cardinality(RefUnits(strongs)) \in Nat /\ Cardinality(RefUnits(weaks)) \in Nat /\ Cardinality(At("inc")) \in Nat
      /\ Cardinality(At("dec")) \in Nat /\ Cardinality(At("weak")) \in Nat BY AtFinite, RefsFinite
<1>1. step[h] = "free" /\ UNCHANGED <<strong, weak, value, strongs, weaks>> /\ memory' = "freed" BY DEF dealloc_box
<1>2. weak = 0 /\ memory = "live" BY <1>1, RefHeld DEF ArcInv, HasRef
<1>3. NoMisuse' BY <1>2, Zenon DEF dealloc_box, Touch, NoMisuse, ArcInv
<1>5. Goto(h, "idle") BY DEF dealloc_box
<1>6. ArcInv'
  <2>1. step[h] = "free" /\ Goto(h, "idle") BY <1>1, <1>5 DEF dealloc_box
  <2>2. /\ step' \in [Holders -> {"idle", "inc", "dec", "value", "weak", "free"}]
        /\ step'[h] = "idle" /\ \A g \in Holders \ {h} : step'[g] = step[g]
        /\ At("free")' = At("free") \ {h} /\ h \in At("free") /\ Cardinality(At("free")') = Cardinality(At("free")) - 1
        /\ At("inc")' = At("inc") /\ At("dec")' = At("dec") /\ At("weak")' = At("weak") /\ At("value")' = At("value")
      BY <2>1, Steps
  <2>3. ArcTypes' BY <1>1, <1>2, <2>2, <1>5 DEF ArcTypes
  <2>4. Counted' BY <1>1, <1>2, <2>2, <1>5, <1>0 DEF Counted, ArcInv
  <2>5. LastOut' BY <1>1, <1>2, <2>2, <1>5 DEF LastOut, ArcInv, ArcTypes
  <2> QED BY <1>3, <2>3, <2>4, <2>5 DEF ArcInv
<1> QED BY <1>6

LEMMA IncWeakStep ==
    ASSUME ArcInv, NEW h \in Holders, inc_weak(h)
    PROVE  ArcInv'
<1> ArcTypes BY DEF ArcInv
<1>1. UNCHANGED <<strong, value, memory, strongs, step>> /\ weak' = weak + 1 BY DEF inc_weak
<1>2. weak > 0 /\ memory = "live" BY RefHeld DEF inc_weak
<1>3. NoMisuse' BY <1>2, Zenon DEF inc_weak, Touch, NoMisuse, ArcInv
<1>4. weaks' \in [Holders -> Nat] /\ (\A g \in Holders : weaks'[g] <= MaxRefs)
      /\ Cardinality(RefUnits(weaks')) = Cardinality(RefUnits(weaks)) + 1
  <2>1. weaks \in [Holders -> Nat] /\ weaks[h] < MaxRefs /\ (\A g \in Holders : weaks[g] <= MaxRefs)
      BY DEF ArcInv, ArcTypes, Counted, inc_weak
  <2>2. weaks' = Gain(h, weaks) BY DEF inc_weak
  <2> QED BY <2>1, <2>2, RefGained, ArcAssumption
<1>5. \A s : At(s)' = At(s) BY <1>1 DEF At
<1>6. ArcTypes' BY <1>1, <1>4 DEF ArcTypes
<1>7. Counted' BY <1>1, <1>4, <1>5, AtFinite, RefsFinite DEF Counted, ArcInv
<1>8. LastOut' BY <1>1, <1>2, <1>5 DEF LastOut, ArcInv, ArcTypes
<1> QED BY <1>3, <1>6, <1>7, <1>8 DEF ArcInv

(* A reference that moves is counted as before.                            *)
LEMMA RefMoved ==
    ASSUME NEW refs \in [Holders -> Nat], \A k \in Holders : refs[k] <= MaxRefs,
           NEW h \in Holders, NEW g \in Holders, h # g, refs[h] > 0, refs[g] < MaxRefs
    PROVE  /\ Gain(g, Lose(h, refs)) \in [Holders -> Nat]
           /\ \A k \in Holders : Gain(g, Lose(h, refs))[k] <= MaxRefs /\ (step[k] = "inc" => k \notin {g, h}) =>
                Gain(g, Lose(h, refs))[k] <= MaxRefs
           /\ \A k \in Holders \ {g} : Gain(g, Lose(h, refs))[k] <= refs[k]
           /\ Gain(g, Lose(h, refs))[g] <= MaxRefs
           /\ Cardinality(RefUnits(Gain(g, Lose(h, refs)))) = Cardinality(RefUnits(refs))
<1> PICK less : less = Lose(h, refs) OBVIOUS
<1>1. less \in [Holders -> Nat] /\ less[h] = refs[h] - 1 /\ (\A k \in Holders \ {h} : less[k] = refs[k])
      /\ Cardinality(RefUnits(less)) = Cardinality(RefUnits(refs)) - 1 BY RefLost
<1>2. less[g] < MaxRefs BY <1>1
<1> PICK more : more = Gain(g, less) OBVIOUS
<1>3. more \in [Holders -> Nat] /\ more[g] = less[g] + 1 /\ (\A k \in Holders \ {g} : more[k] = less[k])
      /\ Cardinality(RefUnits(more)) = Cardinality(RefUnits(less)) + 1 BY <1>1, <1>2, RefGained
<1> QED BY <1>1, <1>2, <1>3, RefsFinite, ArcAssumption

LEMMA MoveStep ==
    ASSUME ArcInv, NEW h \in Holders, NEW g \in Holders, Move(h, g)
    PROVE  ArcInv'
<1>1. h # g /\ step[h] = "idle" /\ step[g] = "idle" /\ UNCHANGED <<strong, weak, value, memory, step, misuse>> BY DEF Move
<1>2. \A s : At(s)' = At(s) BY <1>1 DEF At
<1>3. LastOut' /\ NoMisuse' BY <1>1, <1>2 DEF LastOut, ArcInv, NoMisuse
<1>4. ArcTypes /\ Counted BY DEF ArcInv
<1>5. /\ strongs \in [Holders -> Nat] /\ \A k \in Holders : strongs[k] <= MaxRefs
      /\ weaks \in [Holders -> Nat] /\ \A k \in Holders : weaks[k] <= MaxRefs BY <1>4 DEF ArcTypes, Counted
<1>6. CASE strongs[h] > 0 /\ strongs[g] < MaxRefs /\ strongs' = Gain(g, Lose(h, strongs)) /\ UNCHANGED weaks
  <2>1. /\ strongs' \in [Holders -> Nat] /\ \A k \in Holders \ {g} : strongs'[k] <= strongs[k]
        /\ strongs'[g] <= MaxRefs /\ Cardinality(RefUnits(strongs')) = Cardinality(RefUnits(strongs))
      BY <1>1, <1>5, <1>6, RefMoved
  <2>2. \A k \in Holders : strongs'[k] <= MaxRefs /\ (step[k] = "inc" => strongs'[k] < MaxRefs)
      BY <1>1, <1>4, <1>5, <2>1, ArcAssumption DEF Counted
  <2>3. ArcTypes' BY <1>1, <1>4, <1>6, <2>1 DEF ArcTypes
  <2>4. Counted' BY <1>1, <1>2, <1>4, <1>6, <2>1, <2>2 DEF Counted
  <2> QED BY <1>3, <2>3, <2>4 DEF ArcInv
<1>7. CASE weaks[h] > 0 /\ weaks[g] < MaxRefs /\ weaks' = Gain(g, Lose(h, weaks)) /\ UNCHANGED strongs
  <2>1. /\ weaks' \in [Holders -> Nat] /\ \A k \in Holders \ {g} : weaks'[k] <= weaks[k]
        /\ weaks'[g] <= MaxRefs /\ Cardinality(RefUnits(weaks')) = Cardinality(RefUnits(weaks))
      BY <1>1, <1>5, <1>7, RefMoved
  <2>2. \A k \in Holders : weaks'[k] <= MaxRefs BY <1>5, <2>1, ArcAssumption
  <2>3. ArcTypes' BY <1>1, <1>4, <1>7, <2>1 DEF ArcTypes
  <2>4. Counted' BY <1>1, <1>2, <1>4, <1>7, <2>1, <2>2 DEF Counted
  <2> QED BY <1>3, <2>3, <2>4 DEF ArcInv
<1> QED BY <1>6, <1>7 DEF Move

LEMMA ReadStep ==
    ASSUME ArcInv, NEW h \in Holders, as_ref(h)
    PROVE  ArcInv'
<1>1. value = "live" /\ memory = "live" BY RefHeld DEF as_ref
<1>2. NoMisuse' BY <1>1, Zenon DEF as_ref, NoMisuse, ArcInv
<1>3. UNCHANGED <<strong, weak, value, memory, strongs, weaks, step>> BY DEF as_ref
<1>4. ArcTypes' /\ Counted' /\ LastOut' BY <1>3 DEF ArcInv, ArcTypes, Counted, LastOut, At
<1> QED BY <1>2, <1>4 DEF ArcInv

LEMMA ArcStep ==
    ASSUME ArcInv, [arcNext]_arcVars
    PROVE  ArcInv'
<1>1. CASE UNCHANGED arcVars
  <2>1. UNCHANGED <<strong, weak, value, memory, strongs, weaks, step, misuse>> BY <1>1 DEF arcVars
  <2> QED BY <2>1 DEF ArcInv, ArcTypes, Counted, LastOut, At, NoMisuse
<1>2. CASE arcNext
  <2>1. PICK h \in Holders :
          \/ inc_strong(h) \/ inc_strong_weak(h) \/ inc_weak(h) \/ dec_strong(h) \/ dec_strong_end(h)
          \/ drop_slow(h) \/ DropWeak(h) \/ dec_weak(h) \/ dealloc_box(h) \/ as_ref(h)
          \/ \E g \in Holders : Move(h, g)
      BY <1>2, Zenon DEF arcNext
  <2> QED BY <2>1, IncStrongStep, IncEndStep, IncWeakStep, DecStep, DecEndStep, DropValueStep, DropWeakStep,
             DecWeakStep, FreeStep, ReadStep, MoveStep
<1> QED BY <1>1, <1>2

(* TryArc and WeakArc, for any number of threads and references: nothing   *)
(* that is gone is used, the value lives while a strong reference does,    *)
(* and with the last reference all of it is released.                      *)
THEOREM ArcIsSafe == arcSpec => []ArcSafe
<1>1. arcInit => ArcInv BY ArcInitial
<1>2. ArcInv /\ [arcNext]_arcVars => ArcInv' BY ArcStep
<1>3. ArcInv => ArcSafe BY ArcInvSafe
<1> QED BY <1>1, <1>2, <1>3, PTL DEF arcSpec

-----------------------------------------------------------------------------
(* Elements of a vector.                                                  *)
-----------------------------------------------------------------------------

(* Dropping elements that are not gone yet adds them to the ones that are:   *)
(* the count of DropAll stays the count of a set.                            *)
LEMMA DropMore ==
    ASSUME NEW G, NEW S, NEW d, Counts(d, G), S \cap G = {}
    PROVE  Counts(DropAll(d, S), G \cup S)
  BY DEF DropAll, Counts

(* Old and new elements are told apart, and each by its index.               *)
LEMMA ElemsApart ==
    ASSUME NEW A, NEW B
    PROVE  /\ Old(A) \cap New(B) = {}
           /\ A \cap B = {} => Old(A) \cap Old(B) = {}
  BY DEF Old, New

(* What a slot is known to hold names the set of what a range of slots holds. *)
LEMMA HeldOld ==
    ASSUME NEW js, \A j \in js : slots[j] = <<"old", j>>
    PROVE  Held(js) = Old(js)
  BY DEF Held, Old

LEMMA HeldNew ==
    ASSUME NEW js, \A j \in js : slots[j] = <<"new", j>>
    PROVE  Held(js) = New(js)
  BY DEF Held, New

(* The truncation drops the tail, a failed reservation the whole vector.     *)
LEMMA TruncateStep == VecInv /\ Truncate => VecInv'
<1> SUFFICES ASSUME VecInv, Truncate PROVE VecInv'
  OBVIOUS
<1> DEFINE n == IF source < Len(slots) THEN source ELSE Len(slots)
<1>1. /\ source \in Nat /\ had \in Nat /\ i = 1 /\ Len(slots) = had /\ phase = "start"
      /\ slots \in Seq(Elems) /\ MaxLen \in Nat /\ source <= MaxLen /\ had <= MaxLen
      /\ \A j \in 1..had : slots[j] = <<"old", j>>
      /\ Counts(drops, {})
  BY VecAssumption DEF VecInv, VecTypes, SlotsInv, Truncate, Spent
<1>2. n \in 0..source /\ n <= had
  BY <1>1
<1>3. UNCHANGED <<kind, had, source, i>>
  BY DEF Truncate
<1>4. ASSUME slots' = SubSeq(slots, 1, n), drops' = DropAll(drops, Held((n + 1)..Len(slots))), phase' = "inplace"
      PROVE  VecInv'
  <2>1. Len(slots') = n /\ slots' \in Seq(Elems) /\ \A j \in 1..n : slots'[j] = slots[j]
    BY <1>1, <1>2, <1>4
  <2>2. Held((n + 1)..had) = Old((n + 1)..had)
    BY <1>1, <1>2, HeldOld
  <2>3. Counts(drops', {} \cup Old((n + 1)..had))
    BY <1>1, <1>4, <2>2, DropMore
  <2>4. Spent' = Old(1..0) \cup Old((n + 1)..had)
    BY <1>1, <1>3, <1>4, <2>1 DEF Spent
  <2>5. Old(1..0) = {}
    BY DEF Old
  <2>6. Counts(drops', Spent')
    BY <2>3, <2>4, <2>5, Zenon
  <2>7. VecTypes'
    BY <1>1, <1>3, <1>4, <2>1 DEF VecInv, VecTypes
  <2>8. SlotsInv'
    BY <1>1, <1>2, <1>3, <1>4, <2>1 DEF SlotsInv
  <2> QED
    BY <2>6, <2>7, <2>8 DEF VecInv
<1>5. ASSUME phase' = "err", slots' = <<>>, drops' = DropAll(drops, Held(1..Len(slots)))
      PROVE  VecInv'
  <2>1. Held(1..had) = Old(1..had)
    BY <1>1, HeldOld
  <2>2. Counts(drops', {} \cup Old(1..had))
    BY <1>1, <1>5, <2>1, DropMore
  <2>3. Spent' = Old(1..had) \cup New(1..0)
    BY <1>1, <1>3, <1>5 DEF Spent
  <2>4. New(1..0) = {}
    BY DEF New
  <2>5. Counts(drops', Spent')
    BY <2>2, <2>3, <2>4, ZenonT(40)
  <2>6. VecTypes'
    BY <1>1, <1>3, <1>5 DEF VecInv, VecTypes
  <2>7. SlotsInv'
    BY <1>1, <1>3, <1>5 DEF SlotsInv
  <2> QED
    BY <2>5, <2>6, <2>7 DEF VecInv
<1> QED
  BY <1>4, <1>5 DEF Truncate

(* An element is handed to try_clone_from, which consumes it; if that fails  *)
(* the guard drops all the others.                                           *)
LEMMA UpdateStep == VecInv /\ UpdateInPlace => VecInv'
<1> SUFFICES ASSUME VecInv, UpdateInPlace PROVE VecInv'
  OBVIOUS
<1> DEFINE G == Old(1..(i - 1)) \cup Old((Len(slots) + 1)..had)
           len == Len(slots)
           taken == DropAll(drops, {slots[i]})
<1>1. /\ source \in Nat /\ had \in Nat /\ i \in Nat \ {0} /\ len \in Nat /\ i <= len /\ phase = "inplace"
      /\ slots \in Seq(Elems) /\ len <= source /\ len <= had
      /\ MaxLen \in Nat /\ source <= MaxLen /\ had <= MaxLen
      /\ \A j \in 1..(i - 1) : slots[j] = <<"new", j>>
      /\ \A j \in i..len : slots[j] = <<"old", j>>
      /\ Counts(drops, G)
  BY VecAssumption DEF VecInv, VecTypes, SlotsInv, UpdateInPlace, Spent
<1>2. UNCHANGED <<kind, had, source>>
  BY DEF UpdateInPlace
<1>3. {slots[i]} = Old({i})
  <2>1. slots[i] = <<"old", i>>
    BY <1>1
  <2> QED
    BY <2>1, Zenon DEF Old
<1>4. Old({i}) \cap G = {}
  BY <1>1 DEF Old
<1>5. Counts(taken, G \cup Old({i}))
  BY <1>1, <1>3, <1>4, DropMore, Zenon
<1>6. ASSUME slots' = [slots EXCEPT ![i] = <<"new", i>>], i' = i + 1, drops' = taken, UNCHANGED phase
      PROVE  VecInv'
  <2>1. <<"new", i>> \in Elems
    BY <1>1 DEF Elems
  <2>2. Len(slots') = len /\ slots' \in Seq(Elems)
        /\ \A j \in 1..len : slots'[j] = IF j = i THEN <<"new", i>> ELSE slots[j]
    BY <1>1, <1>6, <2>1
  <2>3. Spent' = Old(1..i) \cup Old((len + 1)..had)
    BY <1>1, <1>2, <1>6, <2>2 DEF Spent
  <2>4. G \cup Old({i}) = Old(1..i) \cup Old((len + 1)..had)
    BY <1>1 DEF Old
  <2>5. VecTypes'
    BY <1>1, <1>2, <1>6, <2>2 DEF VecInv, VecTypes
  <2>6. SlotsInv'
    BY <1>1, <1>2, <1>6, <2>2 DEF SlotsInv
  <2> QED
    BY <1>5, <1>6, <2>3, <2>4, <2>5, <2>6, Zenon DEF VecInv
<1>7. ASSUME phase' = "err", slots' = <<>>, drops' = GuardDrop(taken), UNCHANGED i
      PROVE  VecInv'
  <2> DEFINE H == New(1..(i - 1)) \cup Old((i + 1)..len)
  <2>1. Held((1..len) \ {i}) = H
    <3>1. (1..len) \ {i} = (1..(i - 1)) \cup ((i + 1)..len)
      BY <1>1
    <3>2. Held((1..len) \ {i}) = Held(1..(i - 1)) \cup Held((i + 1)..len)
      BY <3>1 DEF Held
    <3>3. Held(1..(i - 1)) = New(1..(i - 1))
      BY <1>1, HeldNew
    <3>4. Held((i + 1)..len) = Old((i + 1)..len)
      BY <1>1, HeldOld
    <3> QED
      BY <3>2, <3>3, <3>4, Zenon
  <2>2. H \cap (G \cup Old({i})) = {}
    BY <1>1 DEF Old, New
  <2>3. Counts(drops', (G \cup Old({i})) \cup H)
    BY <1>5, <1>7, <2>1, <2>2, DropMore, ZenonT(40) DEF GuardDrop
  <2>4. (G \cup Old({i})) \cup H = Old(1..had) \cup New(1..(i - 1))
    BY <1>1 DEF Old
  <2>5. Spent' = Old(1..had) \cup New(1..(i - 1))
    BY <1>1, <1>2, <1>7 DEF Spent
  <2>6. VecTypes'
    BY <1>1, <1>2, <1>7 DEF VecInv, VecTypes
  <2>7. SlotsInv'
    BY <1>1, <1>2, <1>7 DEF SlotsInv
  <2> QED
    BY <2>3, <2>4, <2>5, <2>6, <2>7, Zenon DEF VecInv
<1> QED
  BY <1>6, <1>7 DEF UpdateInPlace

(* The rest is appended; a failure drops what was cloned so far.             *)
LEMMA AppendStep == VecInv /\ Append1 => VecInv'
<1> SUFFICES ASSUME VecInv, Append1 PROVE VecInv'
  OBVIOUS
<1>1. /\ source \in Nat /\ had \in Nat /\ i \in Nat \ {0} /\ Len(slots) = i - 1 /\ i <= source
      /\ slots \in Seq(Elems) /\ phase = "append" /\ MaxLen \in Nat /\ source <= MaxLen
      /\ \A j \in 1..(i - 1) : slots[j] = <<"new", j>>
      /\ Counts(drops, Old(1..had))
  BY VecAssumption DEF VecInv, VecTypes, SlotsInv, Append1, Spent
<1>2. UNCHANGED <<kind, had, source>>
  BY DEF Append1
<1>3. ASSUME slots' = Append(slots, <<"new", i>>), i' = i + 1, UNCHANGED <<phase, drops>>
      PROVE  VecInv'
  <2>1. <<"new", i>> \in Elems
    BY <1>1 DEF Elems
  <2>2. Len(slots') = i /\ slots' \in Seq(Elems) /\ slots'[i] = <<"new", i>>
        /\ \A j \in 1..(i - 1) : slots'[j] = slots[j]
    BY <1>1, <1>3, <2>1
  <2>3. Spent' = Old(1..had)
    BY <1>1, <1>2, <1>3 DEF Spent
  <2>4. VecTypes'
    BY <1>1, <1>2, <1>3, <2>2 DEF VecInv, VecTypes
  <2>5. SlotsInv'
    BY <1>1, <1>2, <1>3, <2>2 DEF SlotsInv
  <2> QED
    BY <1>1, <1>3, <2>3, <2>4, <2>5 DEF VecInv
<1>4. ASSUME phase' = "err", slots' = <<>>, drops' = DropAll(drops, Held(1..Len(slots))), UNCHANGED i
      PROVE  VecInv'
  <2>1. Held(1..(i - 1)) = New(1..(i - 1))
    BY <1>1, HeldNew
  <2>2. New(1..(i - 1)) \cap Old(1..had) = {}
    BY ElemsApart
  <2>3. Counts(drops', Old(1..had) \cup New(1..(i - 1)))
    BY <1>1, <1>4, <2>1, <2>2, DropMore
  <2>4. Spent' = Old(1..had) \cup New(1..(i - 1))
    BY <1>1, <1>2, <1>4 DEF Spent
  <2>5. VecTypes'
    BY <1>1, <1>2, <1>4 DEF VecInv, VecTypes
  <2>6. SlotsInv'
    BY <1>1, <1>2, <1>4 DEF SlotsInv
  <2> QED
    BY <2>3, <2>4, <2>5, <2>6 DEF VecInv
<1> QED
  BY <1>3, <1>4 DEF Append1

(* The loops are entered and left.                                           *)
LEMMA TurnStep == VecInv /\ (StartArray \/ EndInPlace \/ EndAppend) => VecInv'
<1> SUFFICES ASSUME VecInv, StartArray \/ EndInPlace \/ EndAppend PROVE VecInv'
  OBVIOUS
<1>1. UNCHANGED <<kind, had, source, slots, i, drops>>
  BY DEF StartArray, EndInPlace, EndAppend
<1>2. source \in Nat /\ had \in Nat /\ i \in Nat \ {0} /\ Len(slots) \in Nat /\ MaxLen \in Nat
  BY VecAssumption DEF VecInv, VecTypes
<1>3. VecTypes'
  BY <1>1 DEF VecInv, VecTypes, StartArray, EndInPlace, EndAppend
<1>4. SlotsInv'
  BY <1>1, <1>2 DEF VecInv, VecTypes, SlotsInv, StartArray, EndInPlace, EndAppend
<1>5. CASE StartArray
  <2>1. had = 0 /\ Spent = {} /\ Spent' = Old(1..had)
    BY <1>1, <1>5 DEF VecInv, VecTypes, StartArray, Spent
  <2>2. Old(1..0) = {}
    BY DEF Old
  <2> QED
    BY <1>1, <1>3, <1>4, <2>1, <2>2 DEF VecInv
<1>6. CASE EndInPlace
  <2>1. i = Len(slots) + 1 /\ Len(slots) <= had
    BY <1>2, <1>6 DEF VecInv, SlotsInv, EndInPlace
  <2>2. Spent = Old(1..(i - 1)) \cup Old((Len(slots) + 1)..had) /\ Spent' = Old(1..had)
    BY <1>1, <1>6 DEF EndInPlace, Spent
  <2>3. Old(1..(i - 1)) \cup Old((Len(slots) + 1)..had) = Old(1..had)
    BY <1>2, <2>1 DEF Old
  <2> QED
    BY <1>1, <1>3, <1>4, <2>2, <2>3, Zenon DEF VecInv
<1>7. CASE EndAppend
  <2>1. Spent' = Spent
    BY <1>1, <1>7 DEF EndAppend, Spent
  <2> QED
    BY <1>1, <1>3, <1>4, <2>1 DEF VecInv
<1> QED
  BY <1>5, <1>6, <1>7

LEMMA VecInit == vecInit => VecInv
<1> SUFFICES ASSUME vecInit PROVE VecInv
  OBVIOUS
<1>1. source \in 0..MaxLen /\ had \in 0..MaxLen /\ MaxLen \in Nat /\ (kind = "array" => had = 0)
  BY VecAssumption DEF vecInit
<1>2. \A j \in 1..had : <<"old", j>> \in Elems
  BY <1>1 DEF Elems
<1>3. slots \in Seq(Elems) /\ Len(slots) = had /\ \A j \in 1..had : slots[j] = <<"old", j>>
  BY <1>1, <1>2 DEF vecInit
<1>4. VecTypes
  BY <1>1, <1>3 DEF vecInit, VecTypes
<1>5. SlotsInv
  BY <1>1, <1>3 DEF vecInit, SlotsInv
<1> QED
  BY <1>4, <1>5 DEF vecInit, VecInv, Spent, Counts

(* The invariant says what DroppedOnce asks for.                             *)
LEMMA VecInvSafe == VecInv => DroppedOnce
<1> SUFFICES ASSUME VecInv PROVE DroppedOnce
  OBVIOUS
<1>1. /\ source \in Nat /\ had \in Nat /\ i \in Nat \ {0} /\ Len(slots) \in Nat /\ MaxLen \in Nat
      /\ source <= MaxLen /\ had <= MaxLen /\ (i <= source + 1 \/ phase \in {"start", "inplace"})
      /\ slots \in Seq(Elems)
  BY VecAssumption DEF VecInv, VecTypes, SlotsInv
<1>2. \A e \in Elems : drops[e] \in {0, 1} /\ (drops[e] = 1 <=> e \in Spent)
  BY DEF VecInv, Counts
<1>3. ASSUME NEW j \in 1..Len(slots), slots[j] \in Spent
      PROVE  FALSE
  BY <1>1, <1>3 DEF VecInv, VecTypes, SlotsInv, Spent, Old, New
<1>4. \A e \in Elems : drops[e] <= 1 /\ (drops[e] = 1 => e \notin Held(1..Len(slots)))
  BY <1>2, <1>3 DEF Held
<1>5. ASSUME phase = "ok"
      PROVE  slots = [j \in 1..source |-> <<"new", j>>]
  <2>1. Len(slots) = source /\ \A j \in 1..source : slots[j] = <<"new", j>>
    BY <1>1, <1>5 DEF VecInv, SlotsInv
  <2>2. slots = [j \in 1..source |-> slots[j]]
    BY <1>1, <2>1
  <2> QED
    BY <2>1, <2>2
<1>6. ASSUME phase \in {"ok", "err"}, NEW j \in 1..had
      PROVE  drops[<<"old", j>>] = 1
  BY <1>1, <1>2, <1>6 DEF VecInv, VecTypes, Spent, Old, Elems
<1>7. ASSUME phase = "err", NEW j \in 1..(i - 1)
      PROVE  drops[<<"new", j>>] = 1
  <2>1. j \in 1..MaxLen
    BY <1>1, <1>7 DEF VecInv, VecTypes
  <2> QED
  BY <1>2, <1>7, <2>1 DEF Spent, New, Elems
<1> QED
  BY <1>4, <1>5, <1>6, <1>7 DEF DroppedOnce

(* For vectors and sources of any length, wherever the loops of              *)
(* try_clone_slice_into_vec and of try_clone for arrays fail, no element is  *)
(* dropped twice or lost.                                                    *)
THEOREM CloneDropsOnce == vecSpec => []DroppedOnce
<1>1. VecInv /\ [vecNext]_vecVars => VecInv'
  <2>1. VecInv /\ UNCHANGED vecVars => VecInv'
    BY DEF vecVars, VecInv, VecTypes, SlotsInv, Spent
  <2> QED
    BY <2>1, TruncateStep, UpdateStep, AppendStep, TurnStep DEF vecNext
<1> QED
  BY <1>1, VecInit, VecInvSafe, PTL DEF vecSpec
==============================================================================
