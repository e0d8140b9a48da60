-------------------------------- MODULE TryVec --------------------------------
(***************************************************************************)
(* Cloning into a vector and into an array when an element may fail to     *)
(* clone: try_clone_slice_into_vec (library/try_alloc/src/vec.rs) and      *)
(* try_clone of [T; N] (clone.rs).  Both keep uninitialised slots behind a *)
(* guard that drops what is initialised when a clone fails.  An element is *)
(* <<"old", i>>, what the vector held, or <<"new", i>>, the clone of the   *)
(* source's i-th; old elements handed to try_clone_from are consumed by it.*)
(***************************************************************************)
EXTENDS Integers, Sequences

CONSTANT MaxLen   \* bound: elements of the vector and of the source

ASSUME VecAssumption == MaxLen \in Nat

VARIABLES kind,     \* "into_vec", "array"
          had,      \* ghost: how many elements the vector began with
          source,   \* length of the source
          slots,    \* the slots of the buffer; the vector's length is Len(slots)
          i,        \* loop counter
          phase,    \* "start", "inplace", "append", "ok", "err"
          drops     \* ghost: how often each element was dropped or consumed

vecVars == <<kind, had, source, slots, i, phase, drops>>

Elems == {"old", "new"} \X (1..MaxLen)
vecInit ==
    /\ kind \in {"into_vec", "array"} /\ source \in 0..MaxLen
    /\ had \in 0..(IF kind = "array" THEN 0 ELSE MaxLen) /\ slots = [j \in 1..had |-> <<"old", j>>]
    /\ i = 1 /\ phase = "start" /\ drops = [e \in Elems |-> 0]

DropAll(d, es) == [e \in Elems |-> d[e] + (IF e \in es THEN 1 ELSE 0)]
Held(js) == {slots[j] : j \in js}

(* truncate, then room for the rest, which may not be there.               *)
Truncate ==
    LET n == IF source < Len(slots) THEN source ELSE Len(slots) IN
    /\ phase = "start" /\ kind = "into_vec"
    /\ \/ /\ slots' = SubSeq(slots, 1, n) /\ drops' = DropAll(drops, Held((n + 1)..Len(slots)))
          /\ phase' = "inplace"
       \/ /\ source > n /\ phase' = "err" /\ slots' = <<>> /\ drops' = DropAll(drops, Held(1..Len(slots)))
    /\ UNCHANGED <<kind, had, source, i>>
StartArray == phase = "start" /\ kind = "array" /\ phase' = "append" /\ UNCHANGED <<kind, had, source, slots, i, drops>>

\* Variant: the guard also drops the slot in hand
GuardDrop_all(d) == DropAll(d, Held(1..Len(slots)))
(* Guard::drop: every slot but the one whose element is out.               *)
GuardDrop(d) == DropAll(d, Held((1..Len(slots)) \ {i}))

(* One element updated in place, or not.                                   *)
UpdateInPlace ==
    LET taken == DropAll(drops, {slots[i]}) IN
    /\ phase = "inplace" /\ i <= Len(slots)
    /\ \/ slots' = [slots EXCEPT ![i] = <<"new", i>>] /\ i' = i + 1 /\ drops' = taken /\ UNCHANGED phase
       \/ phase' = "err" /\ slots' = <<>> /\ drops' = GuardDrop(taken) /\ UNCHANGED i
    /\ UNCHANGED <<kind, had, source>>
EndInPlace == phase = "inplace" /\ i > Len(slots) /\ phase' = "append" /\ UNCHANGED <<kind, had, source, slots, i, drops>>

(* One element appended, or not: the vector, or the array's guard, drops   *)
(* the elements it has.                                                    *)
Append1 ==
    /\ phase = "append" /\ i <= source
    /\ \/ slots' = Append(slots, <<"new", i>>) /\ i' = i + 1 /\ UNCHANGED <<phase, drops>>
       \/ phase' = "err" /\ slots' = <<>> /\ drops' = DropAll(drops, Held(1..Len(slots))) /\ UNCHANGED i
    /\ UNCHANGED <<kind, had, source>>
EndAppend == phase = "append" /\ i > source /\ phase' = "ok" /\ UNCHANGED <<kind, had, source, slots, i, drops>>

vecNext == Truncate \/ StartArray \/ UpdateInPlace \/ EndInPlace \/ Append1 \/ EndAppend

vecSpec == vecInit /\ [][vecNext]_vecVars

-----------------------------------------------------------------------------
(* However the clone ends, no element is dropped twice and none is lost:   *)
(* old ones are dropped once, new ones are in the result, or dropped once  *)
(* after a failure; a result is the whole source.                          *)
DroppedOnce ==
    /\ \A e \in Elems : drops[e] <= 1 /\ (drops[e] = 1 => e \notin Held(1..Len(slots)))
    /\ phase = "ok" => slots = [j \in 1..source |-> <<"new", j>>]
    /\ phase \in {"ok", "err"} => \A j \in 1..had : drops[<<"old", j>>] = 1
    /\ phase = "err" => \A j \in 1..(i - 1) : drops[<<"new", j>>] = 1

-----------------------------------------------------------------------------
(* The inductive invariant: what each slot holds, and which elements are   *)
(* gone, at every turn of the two loops.                                   *)
Old(js) == {<<"old", j>> : j \in js}
New(js) == {<<"new", j>> : j \in js}

VecTypes ==
    /\ kind \in {"into_vec", "array"} /\ phase \in {"start", "inplace", "append", "ok", "err"}
    /\ source \in 0..MaxLen /\ had \in 0..MaxLen /\ i \in 1..(MaxLen + 1)
    /\ slots \in Seq(Elems) /\ (kind = "array" => had = 0)

SlotsInv ==
    /\ phase = "start" => i = 1 /\ Len(slots) = had /\ \A j \in 1..had : slots[j] = <<"old", j>>
    /\ phase = "inplace" =>
         /\ Len(slots) <= source /\ Len(slots) <= had /\ i <= Len(slots) + 1
         /\ \A j \in 1..(i - 1) : slots[j] = <<"new", j>>
         /\ \A j \in i..Len(slots) : slots[j] = <<"old", j>>
    /\ phase \in {"append", "ok"} =>
         /\ Len(slots) = i - 1 /\ i <= source + 1
         /\ \A j \in 1..Len(slots) : slots[j] = <<"new", j>>
    /\ phase = "ok" => i = source + 1
    /\ phase = "err" => Len(slots) = 0 /\ i <= source + 1

Spent ==
    IF phase = "start" THEN {}
    ELSE IF phase = "inplace" THEN Old(1..(i - 1)) \cup Old((Len(slots) + 1)..had)
    ELSE IF phase = "err" THEN Old(1..had) \cup New(1..(i - 1))
    ELSE Old(1..had)

Counts(d, es) == d = [e \in Elems |-> IF e \in es THEN 1 ELSE 0]

VecInv == VecTypes /\ SlotsInv /\ Counts(drops, Spent)
==============================================================================
