------------------------------- MODULE TempSlot -------------------------------
(***************************************************************************)
(* Access to physical memory through the one temporary entry that all page *)
(* tables share (insert_temp_page_table in kernel/src/memory/page.rs,      *)
(* read_memory, write_memory and zero_memory in physics.rs), by threads on *)
(* the one CPU.  A system call copies to or from user memory with          *)
(* interrupts on, so the timer may switch threads between the entry and    *)
(* the copy; the frame allocator and the page tables are worked on with    *)
(* interrupts off.  A read strays as a write does: both are copies here.   *)
(***************************************************************************)
EXTENDS Integers

CONSTANTS Copiers,    \* threads, each with its own pages
          UNIT,       \* size of a page
          Offsets, Amounts,  \* where operations begin, and how much they copy
          MaxCopies   \* bound: operations of a thread

ASSUME SlotAssumption ==
    /\ Copiers \subseteq Nat \ {0} /\ UNIT \in Nat \ {0} /\ MaxCopies \in Nat
    /\ Offsets \subseteq Nat /\ Amounts \subseteq Nat

Own(t, page) == 2 * t + page              \* the frame behind page 0 or 1 of t
PhysFrames == {Own(t, page) : t \in Copiers, page \in {0, 1}}
TableOf(t) == -t                          \* the frame of its page table
Nobody == 0

VARIABLES
    at,        \* the current thread; Nobody: memory is garbage
    slot,      \* the frame in the temporary entry
    mapped,    \* pages of each thread that are mapped
    op,        \* the operation of a thread: stage, masked, from, next, last, res
    phys,      \* who wrote each unit of a frame last
    disturbed, \* ghost: threads whose entry was changed before their copy
    copies

slotVars == <<at, slot, mapped, op, phys, disturbed, copies>>

NoOp == [stage |-> "idle", masked |-> FALSE, from |-> 0, next |-> 0, last |-> 0, res |-> "none"]

slotInit ==
    /\ at \in Copiers /\ slot = 0
    /\ mapped \in [Copiers -> {{0}, {0, 1}}]
    /\ op = [t \in Copiers |-> NoOp] /\ disturbed = {}
    /\ phys = [f \in PhysFrames |-> [i \in 0..(UNIT - 1) |-> Nobody]]
    /\ copies = [t \in Copiers |-> 0]

\* Variant: the timer may interrupt a guarded operation
timer_masked(t) ==
    /\ at # Nobody /\ t # at /\ at' = t
    /\ UNCHANGED <<slot, mapped, op, phys, disturbed, copies>>
(* The timer: not under an IrqGuard.                                       *)
timer(t) ==
    /\ at # Nobody /\ t # at /\ ~(op[at].masked /\ op[at].stage # "idle") /\ at' = t
    /\ UNCHANGED <<slot, mapped, op, phys, disturbed, copies>>

(* write_user_process_memory and the like, or a guarded access.            *)
BeginCopy(t, a, n, masked) ==
    /\ at = t /\ op[t].stage = "idle" /\ copies[t] < MaxCopies
    /\ a + n <= 2 * UNIT
    /\ op' = [op EXCEPT ![t] = [stage |-> "next", masked |-> masked, from |-> a, next |-> a, last |-> a + n, res |-> "none"]]
    /\ copies' = [copies EXCEPT ![t] = @ + 1]
    /\ UNCHANGED <<at, slot, mapped, phys, disturbed>>

(* The entry is pointed at a frame; threads about to copy through it are   *)
(* disturbed.                                                              *)
insert_temp_page_table(t, f) ==
    /\ slot' = f
    /\ disturbed' = disturbed \cup
         {[of |-> u, masked |-> op[u].masked] : u \in {v \in Copiers \ {t} : op[v].stage \in {"look", "copy"}}}

(* The head of the loop: done, or the tables of the process are read.      *)
LoopHead(t) ==
    /\ at = t /\ op[t].stage = "next"
    /\ IF op[t].next >= op[t].last
       THEN op' = [op EXCEPT ![t].stage = "idle", ![t].res = "ok"] /\ UNCHANGED <<slot, disturbed>>
       ELSE op' = [op EXCEPT ![t].stage = "look"] /\ insert_temp_page_table(t, TableOf(t))
    /\ UNCHANGED <<at, mapped, phys, copies>>

(* get_page_table_mapped_physical: what is read through the entry may be   *)
(* another thread's memory, and mean anything.                             *)
Translate(t) ==
    LET page == op[t].next \div UNIT
        seen == IF slot # TableOf(t) THEN PhysFrames \cup {0}
                ELSE IF page \in mapped[t] THEN {Own(t, page)} ELSE {0}
    IN
    /\ at = t /\ op[t].stage = "look"
    /\ \E f \in seen :
         IF f = 0 THEN op' = [op EXCEPT ![t].stage = "idle", ![t].res = "fault"] /\ UNCHANGED <<slot, disturbed>>
         ELSE op' = [op EXCEPT ![t].stage = "copy"] /\ insert_temp_page_table(t, f)
    /\ UNCHANGED <<at, mapped, phys, copies>>

(* The rest of the page, or of the range.                                  *)
chunk(t) ==
    LET page == UNIT - (op[t].next % UNIT)  range == op[t].last - op[t].next
    IN  IF page < range THEN page ELSE range

(* copy_nonoverlapping through the entry, wherever it points by now.  In a *)
(* page table the copy leaves garbage; no step after that is explored.     *)
CopyChunk(t) ==
    LET off == op[t].next % UNIT IN
    /\ at = t /\ op[t].stage = "copy"
    /\ IF slot \in PhysFrames
       THEN /\ phys' = [phys EXCEPT ![slot] = [i \in 0..(UNIT - 1) |-> IF i \in off..(off + chunk(t) - 1) THEN t ELSE @[i]]]
            /\ UNCHANGED at
       ELSE at' = Nobody /\ UNCHANGED phys
    /\ op' = [op EXCEPT ![t].next = @ + chunk(t), ![t].stage = "next"]
    /\ UNCHANGED <<slot, mapped, disturbed, copies>>

slotNext == \E t \in Copiers :
    \/ timer(t) \/ LoopHead(t) \/ Translate(t) \/ CopyChunk(t)
    \/ \E a \in Offsets, n \in Amounts, masked \in BOOLEAN : BeginCopy(t, a, n, masked)

slotSpec == slotInit /\ [][slotNext]_slotVars

-----------------------------------------------------------------------------
(* A copy lands in the memory it was meant for.                            *)
CopyLands ==
    \A t, u \in Copiers, page \in {0, 1} : u # t => \A i \in 0..(UNIT - 1) : phys[Own(u, page)][i] # t

(* Operations under an IrqGuard are never disturbed by others, and one     *)
(* that is not strays only if another pointed the entry elsewhere between  *)
(* its own insert_temp_page_table and its copy.                            *)
GuardedLands ==
    /\ \A d \in disturbed : ~d.masked
    /\ disturbed = {} => CopyLands

(* An undisturbed operation copies its whole range and nothing past it; if *)
(* a page is missing, everything before that page and nothing after it.    *)
RangeExact ==
    \A t \in Copiers : disturbed = {} /\ copies[t] = 1 =>
        /\ \A u \in Copiers, page \in {0, 1}, i \in 0..(UNIT - 1) :
              phys[Own(u, page)][i] = t <=> u = t /\ page * UNIT + i \in op[t].from..(op[t].next - 1)
        /\ op[t].res = "ok" => op[t].next = op[t].last
        /\ op[t].res = "fault" => op[t].next % UNIT = 0 \/ op[t].next = op[t].from

(* Copies through the temporary entry: guarded ones are never disturbed, and *)
(* one that is not disturbed copies exactly its range.                       *)
CopiesSafe == GuardedLands /\ RangeExact

-----------------------------------------------------------------------------
(* The inductive invariant.  A guarded operation in progress is that of    *)
(* the current thread.  While nothing was disturbed, the entry still is    *)
(* what the thread that looks or copies through it made it.                *)
OpStates == [stage : {"idle", "next", "look", "copy"}, masked : BOOLEAN, from : Nat, next : Nat, last : Nat,
             res : {"none", "ok", "fault"}]

SlotTypes ==
    /\ at \in Copiers \cup {Nobody} /\ slot \in Int
    /\ mapped \in [Copiers -> SUBSET {0, 1}] /\ op \in [Copiers -> OpStates]
    /\ phys \in [PhysFrames -> [0..(UNIT - 1) -> Copiers \cup {Nobody}]]
    /\ copies \in [Copiers -> Nat]

MaskInv ==
    /\ \A t \in Copiers : op[t].masked /\ op[t].stage # "idle" => at \in {t, Nobody}
    /\ \A d \in disturbed : ~d.masked

Progress(o) ==
    /\ o.from <= o.next /\ o.next <= o.last /\ o.last <= 2 * UNIT
    /\ o.next = o.from \/ o.next = o.last \/ o.next % UNIT = 0
    /\ o.stage \in {"look", "copy"} => o.next < o.last
    /\ o.res = "ok" => o.next = o.last
    /\ o.res = "fault" => o.next % UNIT = 0 \/ o.next = o.from
    /\ o.stage # "idle" => o.res = "none"

RangeInv == \A t \in Copiers : Progress(op[t]) /\ (copies[t] = 0 => op[t].stage = "idle")

EntryInv ==
    disturbed = {} => \A t \in Copiers :
        /\ op[t].stage = "look" => slot = TableOf(t)
        /\ op[t].stage = "copy" => slot = Own(t, op[t].next \div UNIT)

LandsIn(t, u, page, i) ==
    /\ phys[Own(u, page)][i] = t => u = t /\ copies[t] # 0
    /\ copies[t] = 1 => (phys[Own(u, page)][i] = t <=> u = t /\ op[t].from <= page * UNIT + i /\ page * UNIT + i < op[t].next)

LandInv == disturbed = {} => \A t, u \in Copiers, page \in {0, 1}, i \in 0..(UNIT - 1) : LandsIn(t, u, page, i)

SlotInv == SlotTypes /\ MaskInv /\ RangeInv /\ EntryInv /\ LandInv
==============================================================================
