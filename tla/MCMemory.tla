------------------------------- MODULE MCMemory -------------------------------
(* Frames, page tables, the temporary entry, the heap, the loading of       *)
(* images and the containers over the heap for TLC.  Each takes the ones    *)
(* below it as operations that succeed or fail, so a behaviour explores one *)
(* of them and leaves the others where they start.                          *)
EXTENDS MemoryMap, Frames, PageTables, TempSlot, Heap, ElfLoad, RBTree, TryArc, LinkedList, TryVec

VARIABLE part

(* A region the kernel covers in part, one it ends in, one too small for a  *)
(* frame, a reserved one, one with a rest at its end: a map MemoryMap's     *)
(* MapOrdered allows.                                                       *)
MCRegion(b, l, u) == [base |-> b, length |-> l, usable |-> u]
MCRegions == <<MCRegion(0, 3, TRUE), MCRegion(6, 8, TRUE), MCRegion(16, 3, TRUE),
               MCRegion(24, 9, FALSE), MCRegion(36, 8, TRUE)>>

MCClasses == <<1, 2>>

MCSegment(load, v, o, f, m, r, w, x) ==
  [load |-> load, vaddr |-> v, offset |-> o, filesz |-> f, memsz |-> m, r |-> r, w |-> w, x |-> x]
MCSegments ==
  {MCSegment(TRUE, v, o, f, m, TRUE, w, ~w) :
     v \in {4, 7, 10}, o \in {0, 3}, f \in {0, 3}, m \in {0, 3, 5, 8}, w \in BOOLEAN}
  \cup {MCSegment(FALSE, 0, 0, 0, 0, TRUE, FALSE, FALSE), MCSegment(TRUE, 8, 0, 0, 3, FALSE, FALSE, FALSE),
        MCSegment(TRUE, 3, 0, 1, 3, TRUE, FALSE, FALSE), MCSegment(TRUE, 8, 0, 0, 3, TRUE, TRUE, TRUE)}

vars == <<mapVars, frameVars, pageVars, slotVars, heapVars, elfVars, treeVars, arcVars, listVars, vecVars, part>>

Init ==
  /\ part \in {"boot", "frames", "tables", "slot", "heap", "elf", "tree", "arc", "list", "vec"}
  /\ (part = "boot" \/ bios = <<>>) /\ mapInit
  /\ frameInit /\ pageInit /\ heapInit /\ treeInit /\ arcInit /\ listInit
  /\ slotInit /\ at = 1 /\ mapped[1] \subseteq mapped[2]
  /\ (part # "slot" => mapped[2] = {0})
  /\ vecInit /\ (part # "vec" => kind = "array" /\ source = 0)
  /\ (part = "elf" \/ image = <<CHOOSE s \in MCSegments : TRUE>>) /\ elfInit

kernelVars == <<mapVars, frameVars, pageVars, slotVars, heapVars, elfVars>>
containerVars == <<treeVars, arcVars, listVars, vecVars>>

KernelNext ==
  \/ part = "boot"   /\ mapNext   /\ UNCHANGED <<frameVars, pageVars, slotVars, heapVars, elfVars>>
  \/ part = "frames" /\ frameNext /\ UNCHANGED <<mapVars, pageVars, slotVars, heapVars, elfVars>>
  \/ part = "tables" /\ pageNext  /\ UNCHANGED <<mapVars, frameVars, slotVars, heapVars, elfVars>>
  \/ part = "slot"   /\ slotNext  /\ UNCHANGED <<mapVars, frameVars, pageVars, heapVars, elfVars>>
  \/ part = "heap"   /\ heapNext  /\ UNCHANGED <<mapVars, frameVars, pageVars, slotVars, elfVars>>
  \/ part = "elf"    /\ elfNext   /\ UNCHANGED <<mapVars, frameVars, pageVars, slotVars, heapVars>>
ContainerNext ==
  \/ part = "tree" /\ treeNext /\ UNCHANGED <<arcVars, listVars, vecVars>>
  \/ part = "arc"  /\ arcNext  /\ UNCHANGED <<treeVars, listVars, vecVars>>
  \/ part = "list" /\ listNext /\ UNCHANGED <<treeVars, arcVars, vecVars>>
  \/ part = "vec"  /\ vecNext  /\ UNCHANGED <<treeVars, arcVars, listVars>>

Next ==
  /\ \/ KernelNext /\ UNCHANGED containerVars
     \/ ContainerNext /\ UNCHANGED kernelVars
  /\ UNCHANGED part

Spec == Init /\ [][Next]_vars
==============================================================================
