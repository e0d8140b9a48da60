-------------------------------- MODULE Frames --------------------------------
(***************************************************************************)
(* The allocator of physical frames (kernel/src/memory/physics.rs): frames *)
(* that were returned, last first, then fresh ones, through the regions of *)
(* the machine in their order.  Callers hold FRAME_ALLOCATOR, so each      *)
(* operation is one step.  Addresses are plain numbers and PAGE is 4K.     *)
(***************************************************************************)
EXTENDS Integers, Sequences, FiniteSets, Functions

CONSTANTS PAGE,      \* size of a frame
          Regions,   \* MEMORY_REGION: a sequence of [base, length, usable]
          Start      \* first address after the kernel

Base(r) == Regions[r].base
End(r) == Regions[r].base + Regions[r].length
Aligned(x) == x % PAGE = 0

(* The regions above the kernel start on a page.                           *)
ASSUME FramesAssumption ==
    /\ PAGE \in Nat \ {0} /\ Start \in Nat \ {0} /\ Aligned(Start)
    /\ Regions \in Seq([base : Nat, length : Nat, usable : BOOLEAN])
    /\ \A r \in DOMAIN Regions : Base(r) > Start => Aligned(Base(r))

NULL == 0

VARIABLES
    first_alloc_address,   \* next address never handed out; NULL: none is left
    linked_free_address,   \* returned frames, the head of the list first
    used                   \* ghost: frames handed out and not returned

frameVars == <<first_alloc_address, linked_free_address, used>>

frameInit == first_alloc_address = Start /\ linked_free_address = <<>> /\ used = {}

Larger(a, b) == IF a > b THEN a ELSE b

(* Where an allocation in region r would start.                            *)
alloc_start(r) ==
    LET s == Larger(Base(r), first_alloc_address)
    IN  IF Aligned(s) THEN s ELSE ((s \div PAGE) % 2) * PAGE + PAGE

(* The region is not used up and the frame ends within it.                 *)
Fits(r) == End(r) > first_alloc_address /\ alloc_start(r) + PAGE <= End(r)

Fitting == {r \in DOMAIN Regions : Fits(r)}
Chosen == CHOOSE r \in Fitting : \A q \in Fitting : r <= q

\* Variant: a frame that is reused stays on the list
FromList_keep ==
    /\ linked_free_address # <<>>
    /\ used' = used \cup {Head(linked_free_address)}
    /\ UNCHANGED <<first_alloc_address, linked_free_address>>
FromList ==
    /\ linked_free_address # <<>>
    /\ linked_free_address' = Tail(linked_free_address)
    /\ used' = used \cup {Head(linked_free_address)}
    /\ UNCHANGED first_alloc_address

FromRegion ==
    /\ linked_free_address = <<>> /\ first_alloc_address # NULL /\ Fitting # {}
    /\ first_alloc_address' = alloc_start(Chosen) + PAGE
    /\ used' = used \cup {alloc_start(Chosen)}
    /\ UNCHANGED linked_free_address

(* No memory is left; only returned frames are handed out from now on.     *)
NoFrame ==
    /\ linked_free_address = <<>> /\ (first_alloc_address = NULL \/ Fitting = {})
    /\ first_alloc_address' = NULL /\ UNCHANGED <<linked_free_address, used>>

alloc_frame == FromList \/ FromRegion \/ NoFrame

delloc_frame(a) ==
    /\ a \in used
    /\ used' = used \ {a} /\ linked_free_address' = <<a>> \o linked_free_address
    /\ UNCHANGED first_alloc_address

frameNext == alloc_frame \/ \E a \in used : delloc_frame(a)

frameSpec == frameInit /\ [][frameNext]_frameVars

-----------------------------------------------------------------------------
(* Whatever is allocated and returned in whatever order, a frame is never  *)
(* in two hands: none is both used and on the free list, or on it twice,   *)
(* and the ones to come are above all those already handed out.            *)
FramesApart ==
    /\ IsInjective(linked_free_address)
    /\ used \cap Range(linked_free_address) = {}
    /\ first_alloc_address # NULL =>
          \A a \in used \cup Range(linked_free_address) : a + PAGE <= first_alloc_address

(* The whole pages of the regions above the kernel.                        *)
PhysPages ==
    UNION {{a \in Base(r)..(End(r) - PAGE) : Aligned(a) /\ a >= Start} : r \in DOMAIN Regions}

(* Every frame handed out is a whole page of one region, above the kernel. *)
FramesInside == used \cup Range(linked_free_address) \subseteq PhysPages

(* The regions come in the order of their addresses and do not overlap.    *)
Ordered == \A q, r \in DOMAIN Regions : q < r => End(q) <= Base(r)

(* No page is passed over: every page below the next fresh address was     *)
(* handed out, and when the allocator gives up every page was.             *)
NoneForgotten ==
    Ordered =>
        \A a \in PhysPages : first_alloc_address = NULL \/ a < first_alloc_address =>
            a \in used \cup Range(linked_free_address)

(* What the steps keep: the frames are apart and inside, none is passed    *)
(* over, and the next fresh address is a page above the kernel.            *)
FrameInv ==
    /\ first_alloc_address \in Nat /\ linked_free_address \in Seq(Nat) /\ used \subseteq Nat
    /\ first_alloc_address # NULL => Aligned(first_alloc_address) /\ first_alloc_address >= Start
    /\ FramesApart /\ FramesInside /\ NoneForgotten

(* Every frame handed out is memory the firmware reports as usable; the    *)
(* list the boot loader passes on names the reserved regions too.          *)
FramesUsable ==
    \A a \in used : \E r \in DOMAIN Regions :
        Base(r) <= a /\ a + PAGE <= End(r) /\ Regions[r].usable

(* alloc_frame and delloc_frame: a frame is in one hand at a time, is a     *)
(* whole page of one region above the kernel, and no page is passed over.   *)
FramesSafe == FramesApart /\ FramesInside /\ NoneForgotten
==============================================================================
