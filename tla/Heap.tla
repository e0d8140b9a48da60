--------------------------------- MODULE Heap ---------------------------------
(***************************************************************************)
(* The heap under the kernel's and the user's global allocator             *)
(* (library/heap/src/lib.rs): one list of pages per size class, each page  *)
(* with its own free list, larger requests in whole pages.  The kernel     *)
(* calls it with interrupts off and KERNEL_HEAP locked                     *)
(* (kernel/src/memory/heap.rs), so an operation is one step.  Sizes are in *)
(* units of the smallest class; a page has PageUnits of them, of which the *)
(* head takes HeadUnits.                                                   *)
(***************************************************************************)
EXTENDS Integers, Sequences, FiniteSets, SequencesExt

CONSTANTS SizeClasses,   \* HEAP_SIZE_CLASSES, ascending
          PageUnits, HeadUnits,
          NPages,        \* pages the provider has
          Sizes,         \* the sizes asked for
          MaxHeapOps     \* bound: operations

Classes == DOMAIN SizeClasses
Pages == 1..NPages
Null == 0

VARIABLES
    bucket,   \* the first page of each class that has room; Null: none
    head,     \* HeapNodeHead of a page: prev, next, free_ptr (the free list), free_count
    held,     \* pages the provider handed out
    blocks,   \* ghost: the blocks in use: page, offset, units asked for
    heapOps

heapVars == <<bucket, head, held, blocks, heapOps>>

NoHead == [prev |-> Null, next |-> Null, free_ptr |-> <<>>, free_count |-> 0]

heapInit ==
    /\ bucket = [c \in Classes |-> Null] /\ head = [p \in Pages |-> NoHead]
    /\ held = {} /\ blocks = {} /\ heapOps = 0

free_count(c) == (PageUnits - HeadUnits) \div SizeClasses[c]

(* Offsets of the blocks of a page: from the class size, or after the      *)
(* head, while they start within the page.                                 *)
Slots(c) ==
    LET from == IF SizeClasses[c] > HeadUnits THEN SizeClasses[c] ELSE HeadUnits
    IN  {from + k * SizeClasses[c] : k \in 0..PageUnits} \cap 0..(PageUnits - 1)

NewHead(c) ==
    [prev |-> Null, next |-> Null, free_ptr |-> SetToSortSeq(Slots(c), >), free_count |-> free_count(c)]

(* The count written at compile time is the number of blocks cut out of a   *)
(* page; also for the nine classes of the program, in units of 8 bytes, of *)
(* which a page has 512 and its head 4.                                    *)
ASSUME HeapAssumption ==
    /\ \A c \in Classes : free_count(c) = Cardinality(Slots(c))
    /\ \A c, d \in Classes : c < d => SizeClasses[c] < SizeClasses[d]
    /\ \A k \in 0..8 :
          LET size == 2^k  from == IF size > 4 THEN size ELSE 4
          IN  (512 - from) % size = 0 /\ (512 - from) \div size = (512 - 4) \div size

(* The class of a size; Len(SizeClasses) + 1 for whole pages.              *)
get_bucket_index_by_layout(size) == Cardinality({c \in Classes : SizeClasses[c] < size}) + 1
PagesFor(size) == (size + PageUnits - 1) \div PageUnits

(* allocate_pages and deallocate_pages of the provider.                    *)
Runs(n) == {p \in Pages : p + n - 1 \in Pages /\ (p..(p + n - 1)) \cap held = {}}
Run(n) == CHOOSE p \in Runs(n) : \A q \in Runs(n) : p <= q

HeapStep == heapOps < MaxHeapOps /\ heapOps' = heapOps + 1
(* copy tells two grants of the same place apart.                          *)
Block(p, off, size) ==
    [page |-> p, off |-> off, size |-> size, copy |-> Cardinality({x \in blocks : x.page = p /\ x.off = off})]

(* A block leaves the free list of the first page; a page without room     *)
(* leaves the list of the class.                                           *)
Taken(hs, b, c) ==
    LET p == b[c]
        h == [hs EXCEPT ![p].free_ptr = Tail(@), ![p].free_count = @ - 1]
        n == h[p].next
    IN  IF h[p].free_count # 0 THEN [b |-> b, h |-> h]
        ELSE [b |-> [b EXCEPT ![c] = n], h |-> IF n = Null THEN h ELSE [h EXCEPT ![n].prev = Null]]

(* allocate: whole pages, or a block of the class, from a new page if no   *)
(* page of it has room; null if the provider has none.                     *)
AllocatePages(size) ==
    LET n == PagesFor(size) IN
    /\ HeapStep /\ get_bucket_index_by_layout(size) \notin Classes
    /\ IF Runs(n) = {} THEN UNCHANGED <<held, blocks>>
       ELSE /\ held' = held \cup (Run(n)..(Run(n) + n - 1))
            /\ blocks' = blocks \cup {Block(Run(n), 0, size)}
    /\ UNCHANGED <<bucket, head>>

AllocateBlock(size) ==
    LET c == get_bucket_index_by_layout(size)
        grow == c \in Classes /\ bucket[c] = Null
        hs == IF grow THEN [head EXCEPT ![Run(1)] = NewHead(c)] ELSE head
        b == IF grow THEN [bucket EXCEPT ![c] = Run(1)] ELSE bucket
        t == Taken(hs, b, c)
    IN
    /\ HeapStep /\ c \in Classes
    /\ IF grow /\ Runs(1) = {} THEN UNCHANGED <<bucket, head, held, blocks>>
       ELSE /\ held' = IF grow THEN held \cup {Run(1)} ELSE held
            /\ blocks' = blocks \cup {Block(b[c], Head(hs[b[c]].free_ptr), size)}
            /\ bucket' = t.b /\ head' = t.h

(* deallocate.  A page in which the first block is freed joins the list of *)
(* its class at the front.                                                 *)
Freed(hs, b, c, p, off) ==
    LET h == [hs EXCEPT ![p].free_ptr = <<off>> \o @, ![p].free_count = @ + 1]
        g == IF b[c] = Null THEN h ELSE [h EXCEPT ![b[c]].prev = p]
    IN  IF h[p].free_count # 1 THEN [b |-> b, h |-> h]
        ELSE [b |-> [b EXCEPT ![c] = p], h |-> [g EXCEPT ![p].next = b[c], ![p].prev = Null]]

\* Variant: only the neighbour in front learns that the page is gone
Unlinked_half(hs, b, c, p) ==
    LET l == hs[p].prev  n == hs[p].next IN
    IF l = Null THEN [b |-> [b EXCEPT ![c] = n], h |-> hs]
    ELSE [b |-> b, h |-> [hs EXCEPT ![l].next = n]]
(* A page that is wholly free leaves the list and goes to the provider.    *)
Unlinked(hs, b, c, p) ==
    LET l == hs[p].prev  n == hs[p].next
        back == IF n = Null THEN hs ELSE [hs EXCEPT ![n].prev = l]
    IN  IF l = Null THEN [b |-> [b EXCEPT ![c] = n], h |-> back]
        ELSE [b |-> b, h |-> [back EXCEPT ![l].next = n]]

DeallocatePages(x) ==
    /\ HeapStep /\ x \in blocks /\ x.off = 0
    /\ held' = held \ (x.page..(x.page + PagesFor(x.size) - 1)) /\ blocks' = blocks \ {x}
    /\ UNCHANGED <<bucket, head>>

DeallocateBlock(x) ==
    LET c == get_bucket_index_by_layout(x.size)
        f == Freed(head, bucket, c, x.page, x.off)
        u == Unlinked(f.h, f.b, c, x.page)
    IN
    /\ HeapStep /\ x \in blocks /\ x.off # 0 /\ blocks' = blocks \ {x}
    /\ IF f.h[x.page].free_count = free_count(c)
       THEN bucket' = u.b /\ head' = [u.h EXCEPT ![x.page] = NoHead] /\ held' = held \ {x.page}
       ELSE bucket' = f.b /\ head' = f.h /\ UNCHANGED held

heapNext ==
    \/ \E s \in Sizes : AllocatePages(s) \/ AllocateBlock(s)
    \/ \E x \in blocks : DeallocatePages(x) \/ DeallocateBlock(x)

-----------------------------------------------------------------------------
(* What a block covers, in units of the whole memory.                      *)
Extent(x) == LET at == (x.page - 1) * PageUnits + x.off IN at..(at + x.size - 1)

(* Blocks in use never overlap, lie in pages the provider handed out and   *)
(* spare the heads of the pages that are cut into blocks.                  *)
BlocksApart ==
    /\ \A x, y \in blocks : x # y => Extent(x) \cap Extent(y) = {}
    /\ \A x \in blocks :
          /\ \A u \in Extent(x) : (u \div PageUnits) + 1 \in held
          /\ x.off = 0 \/ (x.off >= HeadUnits /\ x.off + x.size <= PageUnits)

(* The pages of a class, following next from the bucket.                   *)
Reach(c, k) ==
    LET f[i \in 0..NPages] == IF i = 0 THEN bucket[c] ELSE IF f[i - 1] = Null THEN Null ELSE head[f[i - 1]].next
    IN  f[k]
Listed(c) == {Reach(c, k) : k \in 0..NPages} \ {Null}
CutInto(c) == {x.page : x \in {y \in blocks : y.off # 0 /\ get_bucket_index_by_layout(y.size) = c}}

(* A class lists exactly the pages in which it has a block free: each can  *)
(* be reached from the bucket, its count is that of its free list, and     *)
(* prev undoes next.  So no page with room is lost, and none is kept that  *)
(* has no block in use.                                                    *)
ListsWhole ==
    \A c \in Classes :
        /\ Listed(c) = {p \in CutInto(c) : head[p].free_ptr # <<>>}
        /\ \A p \in Listed(c) :
              /\ head[p].free_count = Len(head[p].free_ptr)
              /\ head[p].prev = Null <=> p = bucket[c]
              /\ head[p].next # Null => head[head[p].next].prev = p

(* The provider gets back what it gave: the pages held are those with a    *)
(* block in use.                                                           *)
PagesReturned == held = {(u \div PageUnits) + 1 : u \in UNION {Extent(x) : x \in blocks}}

(* The heap: blocks in use do not overlap, each class lists exactly its pages *)
(* with room, and pages without a block in use are back with the provider.    *)
HeapSafe == BlocksApart /\ ListsWhole /\ PagesReturned
==============================================================================
