-------------------------------- MODULE Fat32 --------------------------------
(***************************************************************************)
(* The FAT32 driver of library/filesystem/src/fs/fat32.rs: cluster         *)
(* allocation, directory entries and open files.                           *)
(*                                                                         *)
(* Every operation runs under the write lock of Fat32Inner, so operations  *)
(* do not interleave.  What does happen between two block writes of one    *)
(* operation is a failing write, which ends the operation with an error,   *)
(* or a power cut, which ends everything.  An operation is therefore the   *)
(* sequence `todo' of the effects it will have, computed from the disk it  *)
(* starts on; Progress performs the next one, IoError makes it fail,       *)
(* PowerCut remounts.                                                      *)
(*                                                                         *)
(* A sector holds SlotsPerSector directory slots or one unit of data.  A   *)
(* path has one or two names; a name needs one long entry, or two when it  *)
(* is in LongNames.  The ghost variables store, want and subject hold what *)
(* the files should be, and upset the ways the code is known to leave that *)
(* course, each recorded when it happens.                                  *)
(***************************************************************************)
EXTENDS Integers, Sequences, FiniteSets, SequencesExt, TLC

CONSTANTS
    Paths,              \* the paths the callers use
    LongNames,          \* the names that need two long entries
    Total,              \* max_cluster: the clusters are 2 .. Total + 1
    FatEntries,         \* the entries of one FAT copy
    SectorsPerCluster,
    SlotsPerSector,
    Handles,            \* file handles that can be open at once
    MaxUnits,           \* the longest write, in units
    MaxOps, MaxFaults   \* bounds: operations, and write errors and power cuts

VARIABLES
    fs,         \* disk: fat, mirror, info, slots, data; memory: count, occupied_file, handle
    todo,       \* the effects the running operation still has to perform
    undo,       \* what it does if one of the last undo.left effects fails
    store, want, subject,
    upset,
    halt,       \* "spin" or "panic" once the kernel no longer proceeds
    ops, faults

fatVars == <<fs, todo, undo, store, want, subject, upset, halt, ops, faults>>

ASSUME FatAssumption ==
    /\ {Total, FatEntries, SectorsPerCluster, SlotsPerSector} \subseteq Nat \ {0}
    /\ \A p \in Paths : Len(p) \in 1 .. 2

Clusters == 2 .. Total + 1
root_cluster == 2
next_free_cluster == 3
FREE == 0
EOC == -1

Empty == <<>>
Long(order, name) == <<"long", order, name>>
Short(first, size, dir) == <<"short", first, size, dir>>
IsLong(e) == e # Empty /\ e[1] = "long"

(* A file's directory entry: long entries, then the short one; start and   *)
(* at say where the first and the short entry are.                         *)
Meta(name, first, dir) ==
    [long |-> [i \in 1 .. (IF name \in LongNames THEN 2 ELSE 1) |-> Long(i - 1, name)],
     short |-> Short(first, 0, dir), start |-> <<>>, at |-> <<>>]
NoMeta == [long |-> <<>>, short |-> Short(FREE, 0, FALSE), start |-> <<>>, at |-> <<>>]
First(m) == m.short[2]
Size(m) == m.short[3]
IsDir(m) == m.short[4]

BlankSector == [j \in 1 .. SlotsPerSector |-> Empty]
BlankCluster == [s \in 1 .. SectorsPerCluster |-> BlankSector]
Closed == [meta |-> NoMeta, pointer |-> 0, path |-> <<>>]

-----------------------------------------------------------------------------
(* Reading the disk.                                                       *)

RECURSIVE Follow(_, _, _)
Follow(fat, c, seen) ==
    IF c \in DOMAIN fat /\ \A i \in DOMAIN seen : seen[i] # c
    THEN Follow(fat, fat[c], Append(seen, c)) ELSE seen
Chain(d, c) == Follow(d.fat, c, <<>>)

Places(d, c) ==
    LET ch == Chain(d, c)
        per == SectorsPerCluster * SlotsPerSector
    IN  [k \in 1 .. Len(ch) * per |->
            <<ch[(k - 1) \div per + 1],
              (((k - 1) \div SlotsPerSector) % SectorsPerCluster) + 1,
              ((k - 1) % SlotsPerSector) + 1>>]

SlotAt(d, p) == d.slots[p[1]][p[2]][p[3]]

(* The start position is only set by a long entry, so an entry without one *)
(* reports the start of an earlier file.                                   *)
walk_file_meta_by_cluster(d, c) ==
    LET Visit(acc, p) ==
            LET e == SlotAt(d, p) IN
            IF IsLong(e)
            THEN [acc EXCEPT !.long = Append(@, e), !.start = IF acc.long = <<>> THEN p ELSE @]
            ELSE IF e = Empty THEN [acc EXCEPT !.long = <<>>]
            ELSE [acc EXCEPT !.long = <<>>,
                             !.found = Append(@, [long |-> acc.long, short |-> e,
                                                  start |-> acc.start, at |-> p])]
    IN  FoldLeft(Visit, [long |-> <<>>, start |-> <<>>, found |-> <<>>], Places(d, c)).found

FirstNamed(found, name) ==
    LET hits == {i \in DOMAIN found : found[i].long = Meta(name, FREE, FALSE).long}
    IN  IF hits = {} THEN NoMeta ELSE found[CHOOSE i \in hits : \A j \in hits : i <= j]
get_file_metadata_by_cluster(d, c, name) == FirstNamed(walk_file_meta_by_cluster(d, c), name)

Below(d, top, path) ==
    IF Len(path) = 1 THEN top
    ELSE IF top = NoMeta \/ ~IsDir(top) THEN NoMeta
    ELSE get_file_metadata_by_cluster(d, First(top), path[2])
get_file_metadata(d, path) ==
    Below(d, get_file_metadata_by_cluster(d, root_cluster, path[1]), path)

(* The metadata of the parent directory; the root has none of its own.     *)
Parent(d, path) ==
    IF Len(path) = 1 THEN [NoMeta EXCEPT !.short = Short(root_cluster, 0, TRUE)]
                     ELSE get_file_metadata(d, <<path[1]>>)

(* What a caller sees under a path: nothing, a directory, or the units.    *)
Contents(d, m) ==
    LET ch == Chain(d, First(m))
    IN  IF m = NoMeta THEN <<"none">>
        ELSE IF IsDir(m) THEN <<"dir">>
        ELSE IF Size(m) > Len(ch) * SectorsPerCluster THEN <<"cut">>
        ELSE <<"file", [k \in 1 .. Size(m) |->
                 d.data[ch[(k - 1) \div SectorsPerCluster + 1]][((k - 1) % SectorsPerCluster) + 1]]>>
View(d, path) == Contents(d, get_file_metadata(d, path))

-----------------------------------------------------------------------------
(* Effects: block writes, and the changes of memory between them.          *)

IsWrite(w) == w[1] \in {"fat", "mirror", "info", "slots", "zero", "data"}

Do(d, w) ==
    CASE w[1] = "fat"     -> [d EXCEPT !.fat[w[2]] = w[3]]
      [] w[1] = "mirror"  -> [d EXCEPT !.mirror = d.fat]
      [] w[1] = "count"   -> [d EXCEPT !.count = @ + w[2]]
      [] w[1] = "info"    -> [d EXCEPT !.info = d.count]
      [] w[1] = "slots"   -> [d EXCEPT !.slots[w[2]][w[3]] = w[4], !.data[w[2]][w[3]] = -1]
      [] w[1] = "zero"    -> [d EXCEPT !.slots[w[2]] = BlankCluster,
                                       !.data[w[2]] = [s \in 1 .. SectorsPerCluster |-> 0]]
      [] w[1] = "data"    -> [d EXCEPT !.data[w[2]][w[3]] = w[4]]
      [] w[1] = "pointer" -> [d EXCEPT !.handle[w[2]].pointer = w[3]]
      [] w[1] = "size"    -> [d EXCEPT !.handle[w[2]].meta.short[3] = w[3]]
      [] OTHER            -> d

After(d, script) == FoldLeft(Do, d, script)

Full == 0
Spin == 1
Without(c) == IF c = Full THEN <<<<"full">>>> ELSE <<<<"spin">>>>

(* The scan starts at the hint, which never moves, and wraps to 2.  With a *)
(* hint it never concludes that the disk is full: only a free count of 0   *)
(* says so, and a wrong count makes it scan for ever.                      *)
Available(d) ==
    LET free == {c \in Clusters : d.fat[c] = FREE}
        high == {c \in free : c >= next_free_cluster}
        scan == IF high = {} THEN free ELSE high
    IN  CASE d.count = 0 -> Full
          [] d.count # 0 /\ free = {} -> Spin
          [] OTHER -> CHOOSE c \in scan : \A e \in scan : c <= e

update_cluster(c, v) == <<<<"fat", c, v>>, <<"mirror">>>>

find_available_cluster(c) == update_cluster(c, EOC) \o <<<<"count", -1>>, <<"info">>>>

free_cluster(c) == update_cluster(c, FREE) \o <<<<"count", 1>>, <<"info">>>>

FreeChain(d, c) ==
    LET ch == Chain(d, c) IN FlattenSeq([i \in DOMAIN ch |-> free_cluster(ch[i])])

(* The free test looks at the first byte: an unused slot has 0 there, and  *)
(* so has a long entry of order 0.                                         *)
is_free(e) == e = Empty \/ (IsLong(e) /\ e[2] = 0)

Sectors(d, c) ==
    LET ch == Chain(d, c)
    IN  [k \in 1 .. Len(ch) * SectorsPerCluster |->
            <<ch[(k - 1) \div SectorsPerCluster + 1], ((k - 1) % SectorsPerCluster) + 1>>]

Starts(slots, need) ==
    {i \in 1 .. SlotsPerSector - need + 1 : \A j \in i .. i + need - 1 : is_free(slots[j])}

Fill(slots, i, m) ==
    [j \in 1 .. SlotsPerSector |->
        IF j \in i .. i + Len(m.long) - 1 THEN m.long[j - i + 1]
        ELSE IF j = i + Len(m.long) THEN m.short ELSE slots[j]]

(* Where an entry of `need' slots goes: the first sector with room.        *)
FirstRoom(d, secs, need) ==
    LET room == {k \in DOMAIN secs : Starts(d.slots[secs[k][1]][secs[k][2]], need) # {}}
        k0 == CHOOSE k \in room : \A l \in room : k <= l
        st == Starts(d.slots[secs[k0][1]][secs[k0][2]], need)
    IN  IF room = {} THEN <<>>
        ELSE <<secs[k0][1], secs[k0][2], CHOOSE i \in st : \A j \in st : i <= j>>
Hole(d, c, m) == FirstRoom(d, Sectors(d, c), Len(m.long) + 1)

EnterMeta(d, dir, m, hole, c) ==
    IF Len(m.long) + 1 > SlotsPerSector THEN <<<<"long">>>>
    ELSE IF hole # <<>>
    THEN <<<<"slots", hole[1], hole[2], Fill(d.slots[hole[1]][hole[2]], hole[3], m)>>>>
    ELSE IF c \notin Clusters THEN Without(c)
    ELSE find_available_cluster(c)
         \o <<<<"zero", c>>, <<"slots", c, 1, Fill(BlankSector, 1, m)>>>>
         \o update_cluster(Last(Chain(d, dir)), c)
create_file_meta(d, dir, m) == EnterMeta(d, dir, m, Hole(d, dir, m), Available(d))

(* Clears from the start of the entry to its short entry.  In the sector   *)
(* of the short entry it begins at the start offset whichever sector the   *)
(* start is in; with a stale start behind that it does not stop.           *)
delete_file_meta(d, m) ==
    LET s0 == SubSeq(m.start, 1, 2)
        s1 == SubSeq(m.at, 1, 2)
        stops == m.start[3] <= m.at[3]
        secs == Sectors(d, m.start[1])
        from == CHOOSE k \in DOMAIN secs : secs[k] = s0
        to == IF stops THEN CHOOSE k \in DOMAIN secs : secs[k] = s1 ELSE Len(secs)
        Wiped(s, j) == s = s1 => j >= m.start[3] /\ (stops => j <= m.at[3])
        Wipe(s) == <<"slots", s[1], s[2], [j \in 1 .. SlotsPerSector |->
                        IF Wiped(s, j) THEN Empty ELSE d.slots[s[1]][s[2]][j]]>>
    IN  IF m.start = <<>> THEN <<>> ELSE [k \in 1 .. to - from + 1 |-> Wipe(secs[from + k - 1])]

\* Variant: the slot before the short entry is overwritten
update_file_metadata_off(d, m, size) ==
    <<<<"slots", m.at[1], m.at[2],
        [d.slots[m.at[1]][m.at[2]] EXCEPT ![m.at[3] - 1] = Short(First(m), size, FALSE)]>>>>
update_file_metadata(d, m, size) ==
    <<<<"slots", m.at[1], m.at[2],
        [d.slots[m.at[1]][m.at[2]] EXCEPT ![m.at[3]] = Short(First(m), size, FALSE)]>>>>

-----------------------------------------------------------------------------
(* Operations.                                                             *)

Unspoilt(f) == upset \cap f = {}
Astray == {"clobber", "movedOpen", "twoNames", "intoSelf", "intoFile", "halfLink"}

(* The write lock is free, so the next operation may start.                *)
Ready == todo = <<>> /\ halt = "no" /\ ops < MaxOps

Begin(script, kind, left, back, moved, flags) ==
    /\ Ready
    /\ ops' = ops + 1
    /\ todo' = script
    /\ undo' = [kind |-> kind, left |-> left, script |-> back]
    /\ want' = moved /\ subject' = DOMAIN moved
    /\ upset' = upset \cup flags
    /\ UNCHANGED <<fs, store, halt, faults>>

Overlaps(d, hole, m) ==
    hole # <<>> /\ \E j \in 0 .. Len(m.long) : IsLong(d.slots[hole[1]][hole[2]][hole[3] + j])
Clobbers(d, dir, m) == Overlaps(d, Hole(d, dir, m), m)

(* The entry of the new file m, which has claimed its cluster c.           *)
Entered(parent, c, blank, m) ==
    blank \o create_file_meta(After(fs, find_available_cluster(c) \o blank), First(parent), m)

\* Variant: a failed creation keeps the cluster it claimed
CreateWith_keep(path, dir, parent, c, m, rest) ==
    Begin(find_available_cluster(c) \o rest, "create", 0, <<>>,
          path :> (IF dir THEN <<"dir">> ELSE <<"file", <<>>>>),
          IF Clobbers(fs, First(parent), m) THEN {"clobber"} ELSE {})
CreateWith(path, dir, parent, c, m, rest) ==
    Begin(find_available_cluster(c) \o rest, "create", Len(rest), free_cluster(c),
          path :> (IF dir THEN <<"dir">> ELSE <<"file", <<>>>>),
          IF Clobbers(fs, First(parent), m) THEN {"clobber"} ELSE {})

CreateIn(parent, path, dir, c) ==
    LET blank == IF dir THEN <<<<"zero", c>>>> ELSE <<>>
        m == Meta(Last(path), c, dir)
    IN  /\ parent # NoMeta /\ IsDir(parent)
        /\ get_file_metadata_by_cluster(fs, First(parent), Last(path)) = NoMeta
        /\ IF c \notin Clusters
           THEN Begin(Without(c), "create", 0, <<>>, path :> store[path], {})
           ELSE CreateWith(path, dir, parent, c, m, Entered(parent, c, blank, m))

(* create_file and create_directory differ in the cleared cluster.         *)
Create(path, dir) == CreateIn(Parent(fs, path), path, dir, Available(fs))

(* delete_file and delete_directory: the entry first, then the chain.      *)
Delete(path) ==
    LET m == get_file_metadata(fs, path) IN
    /\ m # NoMeta
    /\ IF IsDir(m) THEN walk_file_meta_by_cluster(fs, First(m)) = <<>>
                   ELSE First(m) \notin fs.occupied_file
    /\ Begin(delete_file_meta(fs, m) \o FreeChain(fs, First(m)), "delete", 0, <<>>,
             path :> <<"none">>, {})

(* rename enters the source's own entry, old name included, in the new     *)
(* parent.  It checks neither that the parent is a directory nor that the  *)
(* file is closed, nor that the old name is free there.                    *)
Rename(old, new) ==
    LET src == get_file_metadata(fs, old)
        parent == Parent(fs, new)
        wipe == delete_file_meta(fs, src)
        d == After(fs, wipe)
        to == Append(SubSeq(new, 1, Len(new) - 1), Last(old))
        there == get_file_metadata_by_cluster(fs, First(parent), Last(old))
        kept == to = old
        moved == {p \in Paths : IsPrefix(old, p)} \cup ({to} \cap Paths)
        view == [p \in moved |-> IF kept THEN store[p]
                                 ELSE IF p = to THEN store[old] ELSE <<"none">>]
        flags == {f \in {"movedOpen", "twoNames", "intoSelf", "intoFile", "clobber"} :
                    \/ f = "movedOpen" /\ \/ First(src) \in fs.occupied_file
                                          \/ \E h \in Handles : IsPrefix(old, fs.handle[h].path)
                    \/ f = "twoNames" /\ there \notin {NoMeta, src}
                    \/ f = "intoSelf" /\ IsPrefix(old, new)
                    \/ f = "intoFile" /\ ~IsDir(parent)
                    \/ f = "clobber" /\ Clobbers(d, First(parent), src)}
    IN  /\ src # NoMeta /\ parent # NoMeta
        /\ get_file_metadata_by_cluster(fs, First(parent), Last(new)) = NoMeta
        /\ Begin(wipe \o create_file_meta(d, First(parent), src), "rename", 0, <<>>, view, flags)

(* The loops of write, one unit at a time: the pointer moves as the buffer *)
(* is filled, before the cluster is written; a missing cluster is          *)
(* allocated and linked first.                                             *)
RECURSIVE WriteUnits(_, _, _, _, _)
WriteUnits(d, h, p, k, v) ==
    LET ch == Chain(d, First(d.handle[h].meta))
        c == Available(d)
        grow == find_available_cluster(c) \o update_cluster(Last(ch), c)
    IN  IF k = 0 THEN <<>>
        ELSE IF p < Len(ch) * SectorsPerCluster
        THEN <<<<"pointer", h, p + 1>>,
               <<"data", ch[p \div SectorsPerCluster + 1], (p % SectorsPerCluster) + 1, v>>>>
             \o WriteUnits(d, h, p + 1, k - 1, v)
        ELSE IF c \notin Clusters THEN Without(c)
        ELSE grow \o WriteUnits(After(d, grow), h, p, k, v)

Written(units, p, k, v) ==
    [i \in 1 .. (IF p + k > Len(units) THEN p + k ELSE Len(units)) |->
        IF i \in p + 1 .. p + k THEN v ELSE IF i > Len(units) THEN 0 ELSE units[i]]

Write(h, k) ==
    LET f == fs.handle[h]
        n == f.pointer + k
        units == WriteUnits(fs, h, f.pointer, k, ops + 1)
        size == IF Last(units) \in {<<"full">>, <<"spin">>} \/ n <= Size(f.meta) THEN <<>>
                ELSE <<<<"size", h, n>>>> \o update_file_metadata(fs, f.meta, n)
    IN  /\ f # Closed
        /\ Begin(units \o size, "write", 0, <<>>,
                 f.path :> (IF Unspoilt(Astray \cup {"shortWrite", "lostRename"})
                            THEN <<"file", Written(store[f.path][2], f.pointer, k, ops + 1)>>
                            ELSE View(After(fs, units \o size), f.path)), {})

(* The operations that only change memory.                                 *)
Touch(d, stop) ==
    /\ Ready
    /\ ops' = ops + 1 /\ fs' = d /\ halt' = stop
    /\ UNCHANGED <<todo, undo, store, want, subject, upset, faults>>

open_file(path, h) ==
    LET m == get_file_metadata(fs, path) IN
    /\ fs.handle[h] = Closed
    /\ m # NoMeta /\ ~IsDir(m) /\ First(m) \notin fs.occupied_file
    /\ Touch([fs EXCEPT !.occupied_file = @ \cup {First(m)},
                        !.handle[h] = [meta |-> m, pointer |-> 0, path |-> path]], "no")

close(h) ==
    /\ fs.handle[h] # Closed
    /\ Touch([fs EXCEPT !.occupied_file = @ \ {First(fs.handle[h].meta)},
                        !.handle[h] = Closed], "no")

move_pointer(h, position) ==
    LET size == Size(fs.handle[h].meta) IN
    /\ fs.handle[h] # Closed
    /\ Touch([fs EXCEPT !.handle[h].pointer = IF position < size THEN position ELSE size], "no")

(* read subtracts the pointer from the size, unsigned.                     *)
read(h, k) ==
    LET left == Size(fs.handle[h].meta) - fs.handle[h].pointer IN
    /\ fs.handle[h] # Closed
    /\ IF left < 0 THEN Touch(fs, "panic")
       ELSE Touch([fs EXCEPT !.handle[h].pointer = @ + (IF k < left THEN k ELSE left)], "no")

-----------------------------------------------------------------------------
(* What happens between the block writes.                                  *)

Settled(d, value) == [p \in Paths |-> IF p \in subject THEN value[p] ELSE store[p]]
Seen(d) == [p \in Paths |-> View(d, p)]

(* The operation ends with an error, after its rollback if it has one.     *)
Fail(flags) ==
    /\ IF Len(todo) <= undo.left
       THEN /\ todo' = undo.script
            /\ want' = [p \in subject |-> store[p]]
            /\ UNCHANGED <<store, subject>>
       ELSE /\ todo' = <<>>
            /\ store' = Settled(fs, Seen(fs)) /\ subject' = {} /\ want' = <<>>
    /\ undo' = [undo EXCEPT !.left = 0]
    /\ upset' = upset \cup flags \cup (CASE undo.kind = "write" -> {"shortWrite"}
                                         [] undo.kind = "rename" -> {"lostRename"}
                                         [] OTHER -> {})
    /\ UNCHANGED <<fs, halt, ops>>

Progress ==
    /\ todo # <<>> /\ halt = "no"
    /\ CASE Head(todo) \in {<<"full">>, <<"long">>} -> Fail({}) /\ UNCHANGED faults
         [] Head(todo) = <<"spin">> ->
                /\ halt' = "spin"
                /\ UNCHANGED <<fs, todo, undo, store, want, subject, upset, ops, faults>>
         [] OTHER ->
                /\ fs' = Do(fs, Head(todo)) /\ todo' = Tail(todo)
                /\ IF Tail(todo) = <<>>
                   THEN store' = Settled(fs', want) /\ subject' = {} /\ want' = <<>>
                   ELSE UNCHANGED <<store, subject, want>>
                /\ UNCHANGED <<undo, upset, halt, ops, faults>>

IoError ==
    /\ todo # <<>> /\ halt = "no" /\ faults < MaxFaults /\ IsWrite(Head(todo))
    /\ faults' = faults + 1
    /\ Fail({"ioerror"} \cup
            (IF undo.kind = "create" /\ undo.left > 0 /\ todo = <<<<"mirror">>>>
             THEN {"halfLink"} ELSE {}))

PowerCut ==
    /\ faults < MaxFaults
    /\ faults' = faults + 1
    /\ fs' = [fs EXCEPT !.count = fs.info, !.occupied_file = {},
                        !.handle = [h \in Handles |-> Closed]]
    /\ todo' = <<>> /\ store' = Settled(fs', Seen(fs')) /\ subject' = {} /\ want' = <<>>
    /\ upset' = upset \cup {"crash"}
                \cup (IF subject # {} /\ undo.kind = "rename" THEN {"lostRename"} ELSE {})
    /\ halt' = "no"
    /\ UNCHANGED <<undo, ops>>

with_format ==
    [fat |-> [c \in Clusters |-> IF c = root_cluster \/ c >= FatEntries THEN EOC ELSE FREE],
     mirror |-> [c \in Clusters |-> IF c = root_cluster \/ c >= FatEntries THEN EOC ELSE FREE],
     info |-> Total - 1, count |-> Total - 1,
     slots |-> [c \in Clusters |-> BlankCluster],
     data |-> [c \in Clusters |-> [s \in 1 .. SectorsPerCluster |-> 0]],
     occupied_file |-> {}, handle |-> [h \in Handles |-> Closed]]

fatInit ==
    /\ fs = with_format
    /\ todo = <<>> /\ undo = [kind |-> "none", left |-> 0, script |-> <<>>]
    /\ store = [p \in Paths |-> <<"none">>] /\ want = <<>> /\ subject = {}
    /\ upset = {} /\ halt = "no" /\ ops = 0 /\ faults = 0

OnHandle(h) ==
    \/ \E k \in 1 .. MaxUnits : Write(h, k) \/ read(h, k)
    \/ \E p \in Paths : open_file(p, h)
    \/ \E k \in 0 .. 1 : move_pointer(h, k)
    \/ close(h)

fatNext ==
    \/ Ready /\ \E p \in Paths, dir \in BOOLEAN : Create(p, dir)
    \/ Ready /\ \E p \in Paths : Delete(p)
    \/ Ready /\ \E p, q \in Paths : Rename(p, q)
    \/ Ready /\ \E h \in Handles : OnHandle(h)
    \/ Progress \/ IoError \/ PowerCut

-----------------------------------------------------------------------------
(* Properties.                                                             *)

(* Every entry that can be reached, from the root and its subdirectories.  *)
Entries(d) ==
    LET top == Range(walk_file_meta_by_cluster(d, root_cluster)) IN
    top \cup UNION {Range(walk_file_meta_by_cluster(d, First(m))) : m \in {t \in top : IsDir(t)}}

ChainSet(d, c) == Range(Chain(d, c))

(* At every moment, also between the block writes of an operation and      *)
(* after a write error or a power cut, the chains of the files on disk     *)
(* hold no free cluster, end properly and share no cluster: the entry is   *)
(* written after its cluster is claimed and removed before it is freed.    *)
ChainsApart ==
    Unspoilt(Astray) =>
        /\ \A m \in Entries(fs) :
             /\ First(m) \in Clusters
             /\ \A c \in ChainSet(fs, First(m)) : fs.fat[c] # FREE /\ c # root_cluster
             /\ fs.fat[Last(Chain(fs, First(m)))] = EOC
        /\ \A m, n \in Entries(fs) :
             m # n => ChainSet(fs, First(m)) \cap ChainSet(fs, First(n)) = {}

(* No operation changes a file other than the ones it is about, and when   *)
(* it has ended those are what it promised: every path reads as the calls  *)
(* so far say it should, whatever failed or was cut short elsewhere.       *)
Bystanders ==
    Unspoilt(Astray) => \A p \in Paths \ subject : View(fs, p) = store[p]

(* A creation or a deletion is all or nothing on disk: at each of its      *)
(* block writes, hence after a power cut there, the path reads as before   *)
(* or as after.                                                            *)
AllOrNothing ==
    Unspoilt(Astray) /\ undo.kind \in {"create", "delete"} =>
        \A p \in subject : View(fs, p) \in {store[p], want[p]}

(* Between operations the free count in memory and on disk is the number   *)
(* of free clusters and the two FAT copies agree, as long as no write      *)
(* failed and the power stayed on.                                         *)
CountsAgree ==
    todo = <<>> /\ Unspoilt({"ioerror", "crash"}) =>
        /\ fs.count = Cardinality({c \in Clusters : fs.fat[c] = FREE})
        /\ fs.info = fs.count
        /\ fs.mirror = fs.fat

(* Without faults no cluster is lost: between operations every claimed     *)
(* cluster is in the chain of the root or of a file.                       *)
NoneLost ==
    todo = <<>> /\ upset \subseteq {"shortWrite"} =>
        {c \in Clusters : fs.fat[c] # FREE} =
            ChainSet(fs, root_cluster) \cup UNION {ChainSet(fs, First(m)) : m \in Entries(fs)}

(* The allocator only scans for ever, and read only underflows, after a    *)
(* fault: a spoilt free count, or a write that stopped half way and left   *)
(* the pointer past the recorded size.                                     *)
HaltExplained ==
    /\ halt = "spin" => ~Unspoilt({"ioerror", "crash"})
    /\ halt = "panic" => ~Unspoilt({"shortWrite"})

(* An open file is protected: while its handle is open the file's entry is *)
(* still where the handle will write it back, unless it was renamed.       *)
HandleFollowsEntry ==
    Unspoilt(Astray) /\ todo = <<>> =>
        \A h \in Handles : fs.handle[h] # Closed =>
            /\ \E m \in Entries(fs) : m.at = fs.handle[h].meta.at /\ First(m) = First(fs.handle[h].meta)
            /\ First(fs.handle[h].meta) \in fs.occupied_file

(* What creating a file promises of the others, whatever their names: a    *)
(* path that read as a file still does.                                    *)
CreateKeepsOthers ==
    [][undo.kind = "create" /\ todo # <<>> /\ Unspoilt(Astray \ {"clobber"}) =>
        \A p \in Paths \ subject : View(fs, p) # <<"none">> => View(fs', p) # <<"none">>]_fatVars

(* The FAT: at every block write the chains are proper and share no cluster; *)
(* between operations, as long as nothing failed, the free count and both    *)
(* copies are right and no cluster is lost.                                  *)
ClustersSafe == ChainsApart /\ CountsAgree /\ NoneLost

(* The files: operations change only those they are about, a creation or     *)
(* deletion is all or nothing at every block write, an open handle keeps its *)
(* entry, and the driver gets stuck only after a fault.                      *)
FilesSafe ==
    Bystanders /\ AllOrNothing /\ HandleFollowsEntry /\ HaltExplained
==============================================================================
