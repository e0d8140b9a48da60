------------------------------ MODULE PageTables ------------------------------
(***************************************************************************)
(* The four-level page tables of user processes                            *)
(* (kernel/src/memory/page.rs): mapping and unmapping of pages, creation   *)
(* and release of a table.  Callers hold off interrupts, so each operation *)
(* is one step; what can go wrong is memory running out halfway.  (Only    *)
(* the clearing of a new root is not guarded: TempSlot is about that.)     *)
(* A table has Fan entries, a page number one digit per level.  The        *)
(* entries that all tables share with the kernel's are left out: they are  *)
(* not user entries, and no operation here touches them.                   *)
(***************************************************************************)
EXTENDS Integers, Sequences, FiniteSets, SequencesExt

CONSTANTS Owners,        \* processes
          Fan,           \* entries of a table (512)
          NFrames,       \* physical frames
          StaticPages,   \* pages an image asks for by number
          MaxPages,      \* bound: pages of one request
          MaxPageOps     \* bound: operations

AllFrames == 1..NFrames
VPages == 0..(Fan^4 - 1)   \* USER_SEARCH_START..USER_SEARCH_END, in pages
Idx == 0..(Fan - 1)

VARIABLES
    pool,      \* free frames in the order they will be handed out
    mem,       \* frames as tables: the frame each entry points to; 0: not present
    root,      \* Process.page_table; 0: none
    leaked,    \* ghost: frames that were mapped when their table was released
    asked,     \* ghost: the last request and how it ended
    pageOps

pageVars == <<pool, mem, root, leaked, asked, pageOps>>

Zeroed == [i \in Idx |-> 0]
Junk(f) == [i \in Idx |-> f]   \* what a frame holds that is not a table

pageInit ==
    /\ pool = [i \in AllFrames |-> i] /\ mem = [f \in AllFrames |-> Junk(f)]
    /\ root = [p \in Owners |-> 0] /\ leaked = {} /\ pageOps = 0
    /\ asked = [op |-> "none", p |-> CHOOSE p \in Owners : TRUE, v |-> 0, n |-> 0, res |-> "ok"]

(* The operations work on s, the frames free and the tables.               *)
Delloc(s, f) == [pool |-> <<f>> \o s.pool, mem |-> [s.mem EXCEPT ![f] = Junk(f)]]
DellocIf(s, new, f) == IF new THEN Delloc(s, f) ELSE s

Index(v, level) == (v \div Fan^(level - 1)) % Fan
Entry(s, f, v, level) == IF f = 0 THEN 0 ELSE s.mem[f][Index(v, level)]
write_entry(s, f, v, level, e) == [s EXCEPT !.mem[f][Index(v, level)] = e]
is_all_emptry(s, f) == s.mem[f] = Zeroed

(* The tables on the way to page v: level 4 is the root.                   *)
Table(s, p, v, level) ==
    LET pdpt == Entry(s, p, v, 4)
        pd   == Entry(s, pdpt, v, 3)
    IN  CASE level = 4 -> p [] level = 3 -> pdpt [] level = 2 -> pd [] level = 1 -> Entry(s, pd, v, 2)

get_page_table_mapped_physical(s, p, v) == Entry(s, Table(s, p, v, 1), v, 1)

find_user_free_virtual_memory(s, p, n) ==
    {v \in VPages : \A i \in 0..(n - 1) : v + i \in VPages /\ get_page_table_mapped_physical(s, p, v + i) = 0}

\* Variant: a new table is not cleared
get_or_alloc_dirty(s, e) ==
    IF e # 0 THEN [s |-> s, f |-> e, new |-> FALSE]
    ELSE IF s.pool = <<>> THEN [s |-> s, f |-> 0, new |-> FALSE]
    ELSE [s |-> [s EXCEPT !.pool = Tail(@)], f |-> Head(s.pool), new |-> TRUE]
(* The next table, or a new one, cleared and not entered yet; f = 0: no    *)
(* frame is left.                                                          *)
get_or_alloc(s, e) ==
    IF e # 0 THEN [s |-> s, f |-> e, new |-> FALSE]
    ELSE IF s.pool = <<>> THEN [s |-> s, f |-> 0, new |-> FALSE]
    ELSE [s |-> [pool |-> Tail(s.pool), mem |-> [s.mem EXCEPT ![Head(s.pool)] = Zeroed]],
          f |-> Head(s.pool), new |-> TRUE]

Failed(s) == [s |-> s, ok |-> FALSE]

\* Variant: a table allocated on the way is forgotten when the next fails
write_memory_page_leak(s, p, v, data) ==
    LET a == get_or_alloc(s, Entry(s, p, v, 4))
        b == get_or_alloc(a.s, Entry(a.s, a.f, v, 3))
        c == get_or_alloc(b.s, Entry(b.s, b.f, v, 2))
        w1 == write_entry(c.s, c.f, v, 1, data)
        w2 == write_entry(w1, b.f, v, 2, c.f)
        w3 == write_entry(w2, a.f, v, 3, b.f)
    IN  IF a.f = 0 \/ b.f = 0 \/ c.f = 0 THEN Failed(IF a.f = 0 THEN a.s ELSE IF b.f = 0 THEN b.s ELSE c.s)
        ELSE [s |-> write_entry(w3, p, v, 4, a.f), ok |-> TRUE]
(* Enters a frame for page v.  If a table is missing and cannot be had,    *)
(* the ones allocated before it go back.                                   *)
write_memory_page(s, p, v, data) ==
    LET a == get_or_alloc(s, Entry(s, p, v, 4))
        b == get_or_alloc(a.s, Entry(a.s, a.f, v, 3))
        c == get_or_alloc(b.s, Entry(b.s, b.f, v, 2))
        w1 == write_entry(c.s, c.f, v, 1, data)
        w2 == write_entry(w1, b.f, v, 2, c.f)
        w3 == write_entry(w2, a.f, v, 3, b.f)
    IN  IF a.f = 0 THEN Failed(a.s)
        ELSE IF b.f = 0 THEN Failed(DellocIf(b.s, a.new, a.f))
        ELSE IF c.f = 0 THEN Failed(DellocIf(DellocIf(c.s, a.new, a.f), b.new, b.f))
        ELSE [s |-> write_entry(w3, p, v, 4, a.f), ok |-> TRUE]

(* The table on a level goes back when its last entry is gone, and then    *)
(* perhaps the one above.                                                  *)
Prune(s, p, v, level) ==
    LET f == Table(s, p, v, level)
    IN  IF f # 0 /\ is_all_emptry(s, f)
        THEN Delloc(write_entry(s, Table(s, p, v, level + 1), v, level + 1, 0), f) ELSE s

remove_memory_page(s, p, v) ==
    LET gone == write_entry(Delloc(s, get_page_table_mapped_physical(s, p, v)), Table(s, p, v, 1), v, 1, 0)
    IN  Prune(Prune(Prune(gone, p, v, 1), p, v, 2), p, v, 3)

free_mapped_frame(s, p, v, n) == FoldLeft(LAMBDA t, i : remove_memory_page(t, p, v + i - 1), s, [i \in 1..n |-> i])

(* One page of a request: a frame, then its entry.  When either cannot be  *)
(* had, this frame and the pages mapped before go back.                    *)
MapOne(t, p, v, i) ==
    LET data == Head(t.s.pool)
        w == write_memory_page([t.s EXCEPT !.pool = Tail(@)], p, v + i - 1, data)
    IN  IF ~t.ok THEN t
        ELSE IF t.s.pool = <<>> THEN Failed(free_mapped_frame(t.s, p, v, i - 1))
        ELSE IF ~w.ok THEN Failed(free_mapped_frame(Delloc(w.s, data), p, v, i - 1))
        ELSE w

State == [pool |-> pool, mem |-> mem]
Become(s) == pool' = s.pool /\ mem' = s.mem
Did(op, p, v, n, res) == asked' = [op |-> op, p |-> p, v |-> v, n |-> n, res |-> res]
PageStep == pageOps < MaxPageOps /\ pageOps' = pageOps + 1

alloc_user_page_table(p) ==
    /\ PageStep /\ root[p] = 0 /\ UNCHANGED leaked
    /\ IF pool = <<>> THEN Did("table", p, 0, 0, "oom") /\ UNCHANGED <<pool, mem, root>>
       ELSE /\ Become([pool |-> Tail(pool), mem |-> [mem EXCEPT ![Head(pool)] = Zeroed]])
            /\ root' = [root EXCEPT ![p] = Head(pool)] /\ Did("table", p, 0, 0, "ok")

(* alloc_mapped_frame: at the first place that is free, or at the page the *)
(* image asks for if that is.                                              *)
Places(p, n, vaddr) ==
    LET free == find_user_free_virtual_memory(State, root[p], n)
    IN  IF vaddr = -1 THEN {v \in free : \A w \in free : v <= w} ELSE free \cap {vaddr}

alloc_mapped_frame(p, n, vaddr) ==
    /\ PageStep /\ root[p] # 0 /\ UNCHANGED <<root, leaked>>
    /\ IF Places(p, n, vaddr) = {} THEN Did("map", p, 0, n, "nospace") /\ UNCHANGED <<pool, mem>>
       ELSE \E v \in Places(p, n, vaddr) :
              LET t == FoldLeft(LAMBDA u, i : MapOne(u, root[p], v, i), [s |-> State, ok |-> TRUE], [i \in 1..n |-> i])
              IN  Become(t.s) /\ Did("map", p, v, n, IF t.ok THEN "ok" ELSE "oom")

(* free_process_page, of pages that are mapped.                            *)
free_process_page(p, v, n) ==
    /\ PageStep /\ root[p] # 0
    /\ \A i \in 0..(n - 1) : v + i \in VPages /\ get_page_table_mapped_physical(State, root[p], v + i) # 0
    /\ Become(free_mapped_frame(State, root[p], v, n)) /\ Did("unmap", p, v, n, "ok")
    /\ UNCHANGED <<root, leaked>>

Present(f) == SelectSeq([i \in 1..Fan |-> mem[f][i - 1]], LAMBDA e : e # 0)
Mapped(p) == {get_page_table_mapped_physical(State, p, v) : v \in VPages} \ {0}

(* walk_free_page from depth 3: the first-level tables are the last it     *)
(* returns, and the pages they map stay allocated.                         *)
Walked(p) ==
    FlattenSeq([i \in DOMAIN Present(p) |-> LET pdpt == Present(p)[i] IN
        FlattenSeq([j \in DOMAIN Present(pdpt) |-> LET pd == Present(pdpt)[j] IN Present(pd) \o <<pd>>])
            \o <<pdpt>>]) \o <<p>>

release_user_page_table(p) ==
    /\ PageStep /\ root[p] # 0
    /\ Become(FoldLeft(Delloc, State, Walked(root[p])))
    /\ root' = [root EXCEPT ![p] = 0] /\ leaked' = leaked \cup Mapped(root[p])
    /\ Did("release", p, 0, 0, "ok")

pageNext == \E p \in Owners :
    \/ alloc_user_page_table(p) \/ release_user_page_table(p)
    \/ \E n \in 1..MaxPages : \/ \E v \in StaticPages \cup {-1} : alloc_mapped_frame(p, n, v)
                              \/ \E v \in VPages : free_process_page(p, v, n)

-----------------------------------------------------------------------------
Mapping == [p \in Owners |-> [v \in VPages |-> get_page_table_mapped_physical(State, root[p], v)]]
TablesOf(p) == UNION {{Table(State, root[p], v, l) : l \in 1..3} : v \in VPages} \ {0}
Tables == UNION {TablesOf(p) : p \in Owners} \cup (Range(root) \ {0})
References(f) == {<<t, i>> \in Tables \X Idx : mem[t][i] = f}

(* A frame has one use, however requests fail and tables go: it is free,   *)
(* once, or the root of one process, or entered in one place of one table, *)
(* or was lost with a table that was released.                             *)
FramesAccounted ==
    pageOps > 0 => \A f \in AllFrames :
        Cardinality({i \in DOMAIN pool : pool[i] = f}) + Cardinality({p \in Owners : root[p] = f})
          + Cardinality(References(f)) + (IF f \in leaked THEN 1 ELSE 0) = 1

(* No table is kept for nothing: but for the roots each maps some page,    *)
(* also after a request that failed halfway.                               *)
NoEmptyTable == pageOps > 0 => \A f \in Tables \ Range(root) : mem[f] # Zeroed

(* A request maps, or unmaps, exactly the pages it is about; one that      *)
(* fails leaves every mapping and every free frame as it found them.       *)
RequestExact ==
    [][pageOps' # pageOps =>
       LET r == asked'
           touched == IF r.res = "ok" /\ r.op \in {"map", "unmap"} THEN r.v..(r.v + r.n - 1) ELSE {}
       IN  /\ r.op # "release" =>
                \A p \in Owners, v \in VPages :
                    IF p = r.p /\ v \in touched THEN (Mapping[p][v] = 0) # (Mapping'[p][v] = 0)
                                                ELSE Mapping'[p][v] = Mapping[p][v]
           /\ r.res # "ok" => Range(pool') = Range(pool)]_pageVars

(* The tables after any requests and failures: each frame has one use, and no *)
(* table is kept for nothing.                                                 *)
TablesSafe == FramesAccounted /\ NoEmptyTable
==============================================================================
