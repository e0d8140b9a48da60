-------------------------------- MODULE TryArc --------------------------------
(***************************************************************************)
(* TryArc and WeakArc (library/try_alloc/src/rc.rs): one allocation with   *)
(* two counters.  weak counts every reference, strong and weak, and one    *)
(* more for the value itself.  Each counter is atomic and the two are not  *)
(* updated together: every access is a step, and threads interleave.       *)
(* TryRc is the same on one thread.  A clone or a downgrade is made from   *)
(* a reference its thread keeps while the call runs.                       *)
(***************************************************************************)
EXTENDS Integers, FiniteSets

CONSTANTS Holders,   \* threads that own references
          MaxRefs    \* bound: references of a kind that a thread owns

ASSUME ArcAssumption == IsFiniteSet(Holders) /\ Holders # {} /\ MaxRefs \in Nat \ {0}

VARIABLES
    strong, weak,        \* the counters of ArcInner
    value,               \* "live", "dropped"
    memory,              \* "live", "freed"
    strongs, weaks,      \* how many strong and weak references each thread has
    step,                \* what thread h is in the middle of
    misuse               \* ghost: the value or the memory was touched or dropped when it was gone

arcVars == <<strong, weak, value, memory, strongs, weaks, step, misuse>>

(* try_new: one strong reference, which the first thread has.              *)
try_new == strong = 1 /\ weak = 2 /\ value = "live" /\ memory = "live"
First == CHOOSE h \in Holders : TRUE
arcInit ==
    /\ try_new /\ misuse = FALSE
    /\ strongs = [h \in Holders |-> IF h = First THEN 1 ELSE 0] /\ weaks = [h \in Holders |-> 0]
    /\ step = [h \in Holders |-> "idle"]

Goto(h, s) == step' = [step EXCEPT ![h] = s]
Gain(h, refs) == [refs EXCEPT ![h] = @ + 1]
Lose(h, refs) == [refs EXCEPT ![h] = @ - 1]
Touch == misuse' = (misuse \/ memory = "freed")
HasRef(h) == strongs[h] > 0 \/ weaks[h] > 0

\* Variant: a count of zero is counted up like any other
inc_strong_any(h) ==
    /\ step[h] = "idle" /\ strongs[h] < MaxRefs /\ HasRef(h)
    /\ strong' = strong + 1 /\ Goto(h, "inc")
    /\ Touch /\ UNCHANGED <<weak, value, memory, strongs, weaks>>
(* inc_strong, for clone and upgrade: the update fails at zero; the weak   *)
(* count follows in a step of its own.                                     *)
inc_strong(h) ==
    /\ step[h] = "idle" /\ strongs[h] < MaxRefs /\ HasRef(h)
    /\ IF strong = 0 THEN UNCHANGED <<strong, step>> ELSE strong' = strong + 1 /\ Goto(h, "inc")
    /\ Touch /\ UNCHANGED <<weak, value, memory, strongs, weaks>>
inc_strong_weak(h) ==
    /\ step[h] = "inc" /\ weak' = weak + 1 /\ strongs' = Gain(h, strongs) /\ Goto(h, "idle")
    /\ Touch /\ UNCHANGED <<strong, value, memory, weaks>>

(* inc_weak: downgrade, and clone of a weak reference.                     *)
inc_weak(h) ==
    /\ step[h] = "idle" /\ weaks[h] < MaxRefs /\ HasRef(h)
    /\ weak' = weak + 1 /\ weaks' = Gain(h, weaks)
    /\ Touch /\ UNCHANGED <<strong, value, memory, strongs, step>>

(* dec_strong, in drop: the weak count first.                              *)
dec_strong(h) ==
    /\ step[h] = "idle" /\ strongs[h] > 0
    /\ strongs' = Lose(h, strongs) /\ weak' = weak - 1 /\ Goto(h, "dec")
    /\ Touch /\ UNCHANGED <<strong, value, memory, weaks>>
dec_strong_end(h) ==
    /\ step[h] = "dec" /\ strong' = strong - 1
    /\ Goto(h, IF strong = 1 THEN "value" ELSE "idle")
    /\ Touch /\ UNCHANGED <<weak, value, memory, strongs, weaks>>

(* drop_slow of the last strong reference: the value goes, then the weak   *)
(* reference that stood for it.                                            *)
drop_slow(h) ==
    /\ step[h] = "value" /\ value' = "dropped" /\ misuse' = (misuse \/ value = "dropped" \/ memory = "freed")
    /\ Goto(h, "weak") /\ UNCHANGED <<strong, weak, memory, strongs, weaks>>

(* Drop of a WeakArc: dec_weak, and the memory goes with the last one.     *)
DropWeak(h) ==
    /\ step[h] = "idle" /\ weaks[h] > 0
    /\ weaks' = Lose(h, weaks) /\ Goto(h, "weak")
    /\ UNCHANGED <<strong, weak, value, memory, strongs, misuse>>
dec_weak(h) ==
    /\ step[h] = "weak" /\ weak' = weak - 1 /\ Goto(h, IF weak = 1 THEN "free" ELSE "idle")
    /\ Touch /\ UNCHANGED <<strong, value, memory, strongs, weaks>>
dealloc_box(h) ==
    /\ step[h] = "free" /\ memory' = "freed" /\ Goto(h, "idle")
    /\ Touch /\ UNCHANGED <<strong, weak, value, strongs, weaks>>

(* Rust moves a reference between threads as it likes (Send); as_ref and   *)
(* deref read the value.                                                   *)
Move(h, g) ==
    /\ step[h] = "idle" /\ step[g] = "idle" /\ h # g
    /\ \/ strongs[h] > 0 /\ strongs[g] < MaxRefs /\ strongs' = Gain(g, Lose(h, strongs)) /\ UNCHANGED weaks
       \/ weaks[h] > 0 /\ weaks[g] < MaxRefs /\ weaks' = Gain(g, Lose(h, weaks)) /\ UNCHANGED strongs
    /\ UNCHANGED <<strong, weak, value, memory, step, misuse>>
as_ref(h) ==
    /\ step[h] = "idle" /\ strongs[h] > 0
    /\ misuse' = (misuse \/ value = "dropped" \/ memory = "freed")
    /\ UNCHANGED <<strong, weak, value, memory, strongs, weaks, step>>

arcNext ==
    \E h \in Holders :
        \/ inc_strong(h) \/ inc_strong_weak(h) \/ inc_weak(h) \/ dec_strong(h) \/ dec_strong_end(h)
        \/ drop_slow(h) \/ DropWeak(h) \/ dec_weak(h) \/ dealloc_box(h) \/ as_ref(h)
        \/ \E g \in Holders : Move(h, g)

arcSpec == arcInit /\ [][arcNext]_arcVars

-----------------------------------------------------------------------------
(* No thread reads, counts on, drops or frees what is gone, although the   *)
(* two counters are never updated together.                                *)
NoMisuse == ~misuse

(* Once no thread has a reference or a call in progress, the value is      *)
(* dropped and the memory is back with the allocator.                      *)
AllReleased ==
    (\A h \in Holders : step[h] = "idle" /\ ~HasRef(h))
        => value = "dropped" /\ memory = "freed"

(* The value lives while a thread has a strong reference: an upgrade that  *)
(* succeeded found it, and one that failed never will.                     *)
StrongMeansLive ==
    /\ (\E h \in Holders : strongs[h] > 0 \/ step[h] = "inc") => value = "live"
    /\ value = "dropped" => strong = 0

(* Reference counting with two counters: nothing gone is used, the value lives *)
(* while a strong reference does, and in the end all is released.              *)
ArcSafe == NoMisuse /\ AllReleased /\ StrongMeansLive

-----------------------------------------------------------------------------
(* The inductive invariant: what each counter counts.  A strong reference  *)
(* is counted in strong from the start of its inc_strong to the end of its *)
(* dec_strong; weak counts the references whose thread owns them, those on *)
(* their way out, and one for the value until it is dropped.               *)
ArcTypes ==
    /\ strong \in Nat /\ weak \in Nat /\ value \in {"live", "dropped"} /\ memory \in {"live", "freed"}
    /\ strongs \in [Holders -> Nat] /\ weaks \in [Holders -> Nat]
    /\ step \in [Holders -> {"idle", "inc", "dec", "value", "weak", "free"}]

RefUnits(refs) == {u \in Holders \X (1..MaxRefs) : u[2] <= refs[u[1]]}
At(s) == {h \in Holders : step[h] = s}

Counted ==
    /\ \A h \in Holders : strongs[h] <= MaxRefs /\ weaks[h] <= MaxRefs /\ (step[h] = "inc" => strongs[h] < MaxRefs)
    /\ strong = Cardinality(RefUnits(strongs)) + Cardinality(At("inc")) + Cardinality(At("dec"))
    /\ weak = Cardinality(RefUnits(strongs)) + Cardinality(RefUnits(weaks)) + Cardinality(At("weak"))
                 + (IF value = "live" THEN 1 ELSE 0)

(* The count that reaches zero leaves one thread to drop the value, and    *)
(* one to free the memory.                                                 *)
LastOut ==
    /\ strong > 0 => value = "live"
    /\ strong = 0 => (value = "live" <=> At("value") # {})
    /\ \A g, h \in At("value") : g = h
    /\ At("value") # {} => strong = 0
    /\ weak > 0 => memory = "live"
    /\ weak = 0 => (memory = "live" <=> At("free") # {})
    /\ \A g, h \in At("free") : g = h
    /\ At("free") # {} => weak = 0

ArcInv == ArcTypes /\ Counted /\ LastOut /\ NoMisuse
==============================================================================
