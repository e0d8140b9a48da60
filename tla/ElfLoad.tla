-------------------------------- MODULE ElfLoad --------------------------------
(***************************************************************************)
(* Loading an ELF image into a new process (library/elf/src/lib.rs over    *)
(* kernel/src/multitask/elf_loader.rs): the headers are checked, then each *)
(* LOAD segment gets its pages, its bytes from the file and its zeros.     *)
(* Segments are adjusted when their first page belongs to an earlier one.  *)
(* Addresses and lengths are small numbers, a page is PAGE_SIZE of them    *)
(* and the copy buffer BUF.  The byte at position k of the file is k.      *)
(***************************************************************************)
EXTENDS Integers, Sequences

CONSTANTS PAGE_SIZE, BUF,
          Low, High,    \* user addresses: Low..High - 1
          FileLen,      \* length of the file
          Segments,     \* program headers an image may have
          MaxSegments   \* bound: headers of an image

Segment == [load : BOOLEAN, vaddr : Nat, offset : Nat, filesz : Nat, memsz : Nat, r : BOOLEAN, w : BOOLEAN, x : BOOLEAN]

ASSUME ElfAssumption ==
    /\ PAGE_SIZE \in Nat \ {0} /\ BUF \in Nat \ {0} /\ Segments \subseteq Segment
    /\ Low \in Nat /\ High \in Nat /\ FileLen \in Nat /\ MaxSegments \in Nat

ZERO == -1   \* a byte that was cleared
JUNK == -2   \* one that was not written

VARIABLES
    image,            \* the program headers
    stage, seg,       \* where the loader is
    addr, remain,     \* of the segment that is copied
    allocated_page,   \* ElfLoader.allocated_page: <<start, size>>
    prot,             \* pages that are mapped: may be written, may be executed
    bytes,            \* memory of the process
    err               \* what the load failed with

elfVars == <<image, stage, seg, addr, remain, allocated_page, prot, bytes, err>>

Floor(x) == (x \div PAGE_SIZE) * PAGE_SIZE
Ceil(x) == Floor(x + PAGE_SIZE - 1)
PagesOf(from, to) == {p \in 0..(High \div PAGE_SIZE) : from <= p * PAGE_SIZE /\ p * PAGE_SIZE < to}
Memory == 0..(High + PAGE_SIZE)

elfInit ==
    /\ image \in UNION {[1..n -> Segments] : n \in 1..MaxSegments}
    /\ stage = "headers" /\ seg = 1 /\ addr = 0 /\ remain = 0
    /\ allocated_page = <<>> /\ prot = <<>> /\ bytes = [a \in Memory |-> JUNK] /\ err = "none"

Fail(why) == stage' = "failed" /\ err' = why

(* from_io: the header or the table may be unreadable or of another kind.  *)
from_io ==
    /\ stage = "headers"
    /\ \/ \E why \in {"Read", "Format", "Unsupport"} : Fail(why)
       \/ /\ \A i \in DOMAIN image : image[i].filesz <= image[i].memsz
          /\ stage' = "segment" /\ UNCHANGED err
    /\ UNCHANGED <<image, seg, addr, remain, allocated_page, prot, bytes>>

Now == image[seg]

(* The next header; those that are not LOAD are passed over.               *)
NextSegment ==
    /\ stage = "segment"
    /\ IF seg > Len(image) THEN stage' = "done" /\ UNCHANGED seg
       ELSE IF Now.load THEN stage' = "alloc" /\ UNCHANGED seg
       ELSE seg' = seg + 1 /\ UNCHANGED stage
    /\ UNCHANGED <<image, addr, remain, allocated_page, prot, bytes, err>>

Reserved(a, n) == a < Low \/ a + n >= High

(* The first page of the segment is one that was allocated.                *)
Shares(p) ==
    \E i \in DOMAIN allocated_page :
        allocated_page[i][1] <= p /\ p < allocated_page[i][1] + allocated_page[i][2]

(* Where the pages of a segment start, and how much is left to map.        *)
Claim(a, n) ==
    LET skip == IF Shares(Floor(a)) THEN PAGE_SIZE ELSE 0
        size == n + a - Floor(a)
    IN  [start |-> Floor(a) + skip, size |-> IF size < skip THEN 0 ELSE size - skip]

(* create_process_page at a fixed address: the pages must be free, and     *)
(* memory may run out.  Read-only data is mapped writable.                 *)
alloc_static ==
    LET c == Claim(Now.vaddr, Now.memsz)
        want == PagesOf(c.start, c.start + Ceil(c.size))
        mode == [w |-> Now.w \/ ~Now.x, x |-> ~Now.w /\ Now.x]
    IN
    /\ stage = "alloc"
    /\ IF ~Now.r \/ (Now.w /\ Now.x) THEN Fail("PageProtection") /\ UNCHANGED <<allocated_page, prot>>
       ELSE IF Reserved(Now.vaddr, Now.memsz) THEN Fail("PageReserved") /\ UNCHANGED <<allocated_page, prot>>
       ELSE IF c.size = 0 THEN stage' = "copy" /\ UNCHANGED <<allocated_page, prot, err>>
       ELSE \/ Fail("AllocFail") /\ UNCHANGED <<allocated_page, prot>>
            \/ /\ want \cap DOMAIN prot = {}
               /\ prot' = [p \in want \cup DOMAIN prot |-> IF p \in want THEN mode ELSE prot[p]]
               /\ allocated_page' = Append(allocated_page, <<c.start, Ceil(c.size)>>)
               /\ stage' = "copy" /\ UNCHANGED err
    /\ addr' = Now.vaddr /\ remain' = Now.filesz
    /\ UNCHANGED <<image, seg, bytes>>

(* Copies go page by page and stop at the first that is not mapped.        *)
Written(from, n, val) ==
    LET fault == {a \in from..(from + n - 1) : a \div PAGE_SIZE \notin DOMAIN prot}
    IN  /\ bytes' = [a \in Memory |-> IF a \in from..(from + n - 1) /\ \A f \in fault : a < f THEN val[a] ELSE bytes[a]]
        /\ IF fault = {} THEN UNCHANGED err ELSE err' = "PageFault"

(* load, a buffer at a time: read_exact, then write_to_memory.             *)
CopyBuf ==
    LET step == IF BUF < remain THEN BUF ELSE remain
        pos == Now.offset + addr - Now.vaddr
    IN
    /\ stage = "copy" /\ remain > 0
    /\ \/ Fail("Read") /\ UNCHANGED <<addr, remain, bytes>>
       \/ /\ pos + step <= FileLen
          /\ IF Reserved(addr, step) THEN Fail("PageReserved") /\ UNCHANGED bytes
             ELSE /\ Written(addr, step, [a \in addr..(addr + step - 1) |-> pos + a - addr])
                  /\ stage' = IF err' = "none" THEN "copy" ELSE "failed"
          /\ addr' = addr + step /\ remain' = remain - step
    /\ UNCHANGED <<image, seg, allocated_page, prot>>

\* Variant: the whole segment is cleared after the copy
Cleared_all(s) == [from |-> s.vaddr, n |-> s.memsz]
Cleared(s) == [from |-> s.vaddr + s.filesz, n |-> s.memsz - s.filesz]

clear_memory ==
    LET c == Cleared(Now) IN
    /\ stage = "copy" /\ remain = 0
    /\ IF Now.filesz >= Now.memsz THEN stage' = "segment" /\ UNCHANGED <<bytes, err>>
       ELSE IF Reserved(c.from, c.n) THEN Fail("PageReserved") /\ UNCHANGED bytes
       ELSE /\ Written(c.from, c.n, [a \in c.from..(c.from + c.n - 1) |-> ZERO])
            /\ stage' = IF err' = "none" THEN "segment" ELSE "failed"
    /\ seg' = seg + 1
    /\ UNCHANGED <<image, addr, remain, allocated_page, prot>>

elfNext == from_io \/ NextSegment \/ alloc_static \/ CopyBuf \/ clear_memory

elfSpec == elfInit /\ [][elfNext]_elfVars

-----------------------------------------------------------------------------
Loads == {i \in DOMAIN image : image[i].load}
Span(s) == s.vaddr..(s.vaddr + s.memsz - 1)
Covers(s) == PagesOf(Floor(s.vaddr), Ceil(s.vaddr + s.memsz))
Value(s, a) == IF a - s.vaddr < s.filesz THEN s.offset + a - s.vaddr ELSE ZERO
Disjoint == \A i, j \in Loads : i # j => Span(image[i]) \cap Span(image[j]) = {}

(* When load succeeds on an image whose segments do not overlap, each byte *)
(* of a segment is the file's, and past its file size zero, although       *)
(* segments share pages and are cleared after others were copied.          *)
LoadedExact ==
    stage = "done" /\ Disjoint =>
        \A i \in Loads : \A a \in Span(image[i]) : bytes[a] = Value(image[i], a)

Suits(s, p) == (s.w => prot[p].w) /\ (s.x => prot[p].x)

(* The pages mapped are those of the segments loaded so far, neither fewer *)
(* nor more, and a page lets a segment do what it asks for unless an       *)
(* earlier segment set it up.                                              *)
PagesCovered ==
    /\ DOMAIN prot \subseteq UNION {Covers(image[i]) : i \in Loads}
    /\ stage = "done" => \A i \in Loads : \A p \in Covers(image[i]) :
          /\ p \in DOMAIN prot
          /\ \/ Suits(image[i], p)
             \/ \E j \in Loads : j < i /\ p \in Covers(image[j])

(* Pages are only refused for a reason in the image or in memory: a copy   *)
(* or a clear never meets a page that alloc_static left unmapped.          *)
NoFault == err # "PageFault"

(* A loaded image: exactly the pages of its segments are mapped, their bytes *)
(* are the file's or zero, and the loader itself never meets a missing page. *)
LoadSafe == LoadedExact /\ PagesCovered /\ NoFault

-----------------------------------------------------------------------------
(* The inductive invariant.  A page is mapped for a segment that was       *)
(* begun; all pages of such a segment are mapped, which the adjustment of  *)
(* alloc_static only keeps because allocated_page names mapped pages; and  *)
(* the segments behind the loader, with the part of this one that was      *)
(* copied, have their bytes.                                               *)
ElfTypes ==
    /\ image \in Seq(Segments) /\ seg \in Nat \ {0} /\ addr \in Nat /\ remain \in Nat
    /\ stage \in {"headers", "segment", "alloc", "copy", "done", "failed"}
    /\ allocated_page \in Seq(Nat \X Nat) /\ DOMAIN bytes = Memory
    /\ stage = "headers" => seg = 1 /\ DOMAIN prot = {}
    /\ stage = "done" => seg > Len(image)
    /\ stage \in {"alloc", "copy"} => seg \in Loads
    /\ stage \in {"segment", "alloc", "copy"} => \A i \in DOMAIN image : image[i].filesz <= image[i].memsz

Begun(j) == j < seg \/ (j = seg /\ stage = "copy")

PageInv ==
    /\ \A p \in DOMAIN prot : \E j \in Loads : (Begun(j) \/ (j = seg /\ stage = "failed")) /\ p \in Covers(image[j])
    /\ \A i \in DOMAIN allocated_page :
          PagesOf(allocated_page[i][1], allocated_page[i][1] + allocated_page[i][2]) \subseteq DOMAIN prot
    /\ stage # "failed" => \A j \in Loads : Begun(j) =>
          /\ ~Reserved(image[j].vaddr, image[j].memsz)
          /\ \A p \in Covers(image[j]) :
                p \in DOMAIN prot /\ (Suits(image[j], p) \/ \E k \in Loads : k < j /\ p \in Covers(image[k]))

CopyInv == stage = "copy" => Now.vaddr <= addr /\ addr + remain = Now.vaddr + Now.filesz

ByteInv ==
    Disjoint /\ stage # "failed" =>
        /\ \A j \in Loads : j < seg => \A a \in Span(image[j]) : bytes[a] = Value(image[j], a)
        /\ stage = "copy" => \A a \in Now.vaddr..(addr - 1) : bytes[a] = Value(Now, a)

ElfInv == ElfTypes /\ PageInv /\ CopyInv /\ ByteInv /\ NoFault
==============================================================================
