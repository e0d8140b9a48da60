------------------------------ MODULE MemoryMap ------------------------------
(***************************************************************************)
(* normalize_memory_region (bootloader/src/memory.rs): the memory map of   *)
(* the BIOS, in any order, with overlaps and kinds nobody knows, becomes   *)
(* the list of regions the kernel's frame allocator walks through.  The    *)
(* slice is the first `size' entries of `map'; a step is one turn of a     *)
(* loop.  Addresses are small numbers: base + length does not overflow.    *)
(***************************************************************************)
EXTENDS Integers, Functions

CONSTANTS Bases, Extents, Kinds,   \* what a BIOS may report of a region
          MaxRegions

ASSUME MapAssumption == Bases \subseteq Nat /\ Extents \subseteq Nat /\ Kinds \subseteq Nat /\ MaxRegions \in Nat

TYPE_USABLE == 1
TYPE_RESERVED == 2

VARIABLES bios,      \* ghost: the map as the BIOS gave it
          map, size, \* the slice memory_region
          loop,      \* the loop that runs
          turn,      \* its index i
          len,       \* regions kept so far
          moved      \* change_base_addr

mapVars == <<bios, map, size, loop, turn, len, moved>>

mapInit ==
    /\ size \in 0..MaxRegions /\ bios \in [1..size -> [base : Bases, length : Extents, kind : Kinds]]
    /\ map = bios /\ loop = "sort" /\ turn = 1 /\ len = 0 /\ moved = FALSE

EndOf(r) == r.base + r.length
SaturatingSub(a, b) == IF a > b THEN a - b ELSE 0

Proceed(s, first) == loop' = s /\ turn' = first /\ moved' = FALSE /\ UNCHANGED bios

(* sort_unstable_by_key: regions of one base come in any order.            *)
Sorted(s) ==
    {t \in {[i \in DOMAIN s |-> IF i \in 1..size THEN s[p[i]] ELSE s[i]] : p \in Bijection(1..size, 1..size)} :
        \A i, j \in 1..size : i < j => t[i].base <= t[j].base}

Known(r) == [r EXCEPT !.kind = IF r.kind = TYPE_USABLE THEN TYPE_USABLE ELSE TYPE_RESERVED]

SortFirst ==
    /\ loop = "sort" /\ map' \in Sorted([i \in DOMAIN map |-> Known(map[i])])
    /\ Proceed("overlap", 2) /\ UNCHANGED <<size, len>>

(* The later of two regions gives way to a reserved one, otherwise the     *)
(* earlier one does.                                                       *)
Moved(r, overlap) == [r EXCEPT !.base = r.base + overlap, !.length = SaturatingSub(r.length, overlap)]
Cut(r, overlap) == [r EXCEPT !.length = SaturatingSub(r.length, overlap)]

Overlap ==
    LET overlap == EndOf(map[turn - 1]) - map[turn].base
        reserved == map[turn - 1].kind = TYPE_RESERVED
    IN
    /\ loop = "overlap" /\ turn <= size
    /\ IF overlap <= 0 THEN UNCHANGED <<map, moved>>
       ELSE /\ map' = IF reserved THEN [map EXCEPT ![turn] = Moved(map[turn], overlap)]
                                  ELSE [map EXCEPT ![turn - 1] = Cut(map[turn - 1], overlap)]
            /\ moved' = (moved \/ reserved)
    /\ turn' = turn + 1 /\ UNCHANGED <<bios, size, loop, len>>

\* Variant: the regions are put in order and not compared again
Resort_once ==
    /\ loop = "overlap" /\ turn > size /\ moved
    /\ map' \in Sorted(map) /\ Proceed("merge", 2) /\ UNCHANGED <<size, len>>
Resort ==
    /\ loop = "overlap" /\ turn > size /\ moved
    /\ map' \in Sorted(map) /\ Proceed("overlap", 2) /\ UNCHANGED <<size, len>>

(* Regions of length zero go; if there were any, the neighbours changed.   *)
BeginRemove ==
    /\ loop = "overlap" /\ turn > size /\ ~moved
    /\ Proceed("remove", 1) /\ len' = 0 /\ UNCHANGED <<map, size>>
RemoveEmpty ==
    /\ loop = "remove" /\ turn <= size
    /\ IF map[turn].length > 0 THEN map' = [map EXCEPT ![len + 1] = map[turn]] /\ len' = len + 1
                               ELSE UNCHANGED <<map, len>>
    /\ turn' = turn + 1 /\ UNCHANGED <<bios, size, loop, moved>>
EndRemove ==
    /\ loop = "remove" /\ turn > size
    /\ size' = len /\ Proceed(IF len = size THEN "merge" ELSE "overlap", 2) /\ UNCHANGED <<map, len>>

Merges(i) == map[i - 1].kind = map[i].kind /\ EndOf(map[i - 1]) = map[i].base
Joined(r, n) == [r EXCEPT !.length = r.length + n]

Merge ==
    /\ loop = "merge" /\ turn <= size
    /\ IF Merges(turn)
       THEN /\ map' = [j \in DOMAIN map |->
                         IF j = turn - 1 THEN Joined(map[j], map[turn].length)
                         ELSE IF j \in turn..(size - 1) THEN map[j + 1] ELSE map[j]]
            /\ size' = size - 1 /\ UNCHANGED turn
       ELSE turn' = turn + 1 /\ UNCHANGED <<map, size>>
    /\ UNCHANGED <<bios, loop, len, moved>>

Return == loop = "merge" /\ turn > size /\ Proceed("done", 1) /\ UNCHANGED <<map, size, len>>

mapNext == SortFirst \/ Overlap \/ Resort \/ BeginRemove \/ RemoveEmpty \/ EndRemove \/ Merge \/ Return

mapSpec == mapInit /\ [][mapNext]_mapVars

-----------------------------------------------------------------------------
Within(r) == r.base..(EndOf(r) - 1)

(* The finished map is in order, without overlaps, without empty regions,  *)
(* and as short as it can be: what the walk of alloc_frame relies on.      *)
MapOrdered ==
    loop = "done" =>
        /\ \A i \in 1..size : map[i].length > 0
        /\ \A i \in 2..size :
              \/ EndOf(map[i - 1]) < map[i].base
              \/ EndOf(map[i - 1]) = map[i].base /\ map[i - 1].kind # map[i].kind

(* No address becomes usable that the BIOS did not report as usable, or    *)
(* that any other entry restricts, through every repetition of the passes. *)
UsableWasReported ==
    loop = "done" =>
        \A i \in 1..size : map[i].kind = TYPE_USABLE =>
            \A a \in Within(map[i]) :
                /\ \E j \in DOMAIN bios : a \in Within(bios[j]) /\ bios[j].kind = TYPE_USABLE
                /\ \A j \in DOMAIN bios : a \in Within(bios[j]) => bios[j].kind = TYPE_USABLE

(* What was reported as reserved stays reserved: shrinking and moving      *)
(* regions never leaves a hole in the restrictions.                        *)
ReservedKept ==
    loop = "done" =>
        \A j \in DOMAIN bios : bios[j].kind # TYPE_USABLE =>
            \A a \in Within(bios[j]) : \E i \in 1..size : a \in Within(map[i]) /\ map[i].kind = TYPE_RESERVED

(* The normalised memory map: in order and without overlaps, no address    *)
(* usable that was not reported so, none reserved forgotten.               *)
MapSafe == MapOrdered /\ UsableWasReported /\ ReservedKept

-----------------------------------------------------------------------------
(* The inductive invariant.  Between any two turns the slice still         *)
(* restricts what the BIOS restricted, and offers nothing it did not.  In  *)
(* a pass over the overlaps, the entries that are still to come are in     *)
(* order; a region that was moved past the next one left only addresses    *)
(* that reserved regions before it cover.                                  *)
Region == [base : Nat, length : Nat, kind : Nat]

MapTypes ==
    /\ size \in Nat /\ turn \in Nat \ {0} /\ len \in Nat
    /\ loop \in {"sort", "overlap", "remove", "merge", "done"}
    /\ bios \in [DOMAIN bios -> Region] /\ map \in [DOMAIN bios -> Region] /\ 1..size \subseteq DOMAIN bios
    /\ loop # "sort" => \A i \in 1..size : map[i].kind \in {TYPE_USABLE, TYPE_RESERVED}

(* The entries that count: the loop that removes empty ones writes over    *)
(* those it has read.                                                      *)
Live == IF loop = "remove" THEN (1..len) \cup (turn..size) ELSE 1..size

Offers ==
    \A i \in Live : map[i].kind = TYPE_USABLE =>
        \A a \in Within(map[i]) : \E j \in DOMAIN bios : a \in Within(bios[j]) /\ bios[j].kind = TYPE_USABLE
Restricts ==
    \A j \in DOMAIN bios : bios[j].kind # TYPE_USABLE =>
        \A a \in Within(bios[j]) : \E i \in Live : a \in Within(map[i]) /\ map[i].kind # TYPE_USABLE

InOrder(i, j) == map[i].base <= map[j].base
Apart(i, j) == EndOf(map[i]) <= map[j].base

OverlapInv ==
    loop = "overlap" =>
        /\ turn >= 2
        /\ \A i, j \in turn..size : i < j => InOrder(i, j)
        /\ turn <= size => \A a \in map[turn].base..(map[turn - 1].base - 1) :
              \E i \in 1..(turn - 2) : a \in Within(map[i]) /\ map[i].kind = TYPE_RESERVED
        /\ ~moved => /\ \A i, j \in 1..size : i < j => InOrder(i, j)
                     /\ \A i, j \in 1..size : i < j /\ j < turn => Apart(i, j)

RemoveInv ==
    loop = "remove" =>
        /\ len < turn /\ turn <= size + 1
        /\ \A i, j \in Live : i < j => Apart(i, j)
        /\ \A i \in 1..len : map[i].length > 0

MergeInv ==
    loop \in {"merge", "done"} =>
        /\ loop = "merge" => turn >= 2
        /\ \A i \in 1..size : map[i].length > 0
        /\ \A i, j \in 1..size : i < j => Apart(i, j)
        /\ \A i \in 2..size : i < turn \/ loop = "done" => ~Merges(i)

MapInv == MapTypes /\ Offers /\ Restricts /\ OverlapInv /\ RemoveInv /\ MergeInv
==============================================================================
