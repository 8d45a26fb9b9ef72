------------------------------ MODULE ElfLoad -------------------------------
(***************************************************************************)
(* load_elf of core/loader/elf.c: the first loadable segment is mapped     *)
(* with the size of the whole image, which makes the kernel find a place   *)
(* for all of it, the rest is unmapped again, and the other segments are   *)
(* mapped over the hole with MAP_FIXED.                                    *)
(*                                                                         *)
(* A byte of memory has a value: file.base plus the offset in the file it  *)
(* comes from, Zero, None where nothing is mapped, Bus in a page behind    *)
(* the file's end, or Other if the kernel had mapped it before.  Xmain     *)
(* calls load_elf, once or twice.                                          *)
(***************************************************************************)
EXTENDS Integers, Sequences, FiniteSets, FiniteSetsExt

CONSTANTS
  PAGE_SIZE,
  NPages,      \* bound: the size of the address space
  LowPages     \* pages at the bottom that the kernel never maps

Zero == -1
None == -2
Bus == -3
Other == -4

Addrs == 0 .. NPages * PAGE_SIZE - 1

ASSUME ElfLoadAssumption ==
    /\ PAGE_SIZE \in Nat \ {0} /\ NPages \in Nat
    /\ LowPages \in 0 .. NPages

VARIABLES
  file,     \* the ELF file: [ok, dyn, size, base, phoff, entry, phdrs]; the
            \* p_align of its segments is PAGE_SIZE
  stage,    \* "idle", "open", "first", "region", "done"; or "dead", by a
            \* signal or an assertion
  next,     \* i of the loop in load_elf
  bias,     \* load_bias
  need,     \* need_interp
  val,      \* the memory: what each byte holds,
  write,    \* and whether it can be written
  before,   \* val when load_elf was called
  unplaced  \* map_first went on without a mapping

memory == <<val, write>>
history == <<before, unplaced>>
elf == <<file, stage, next, bias, need, memory, history>>

ALIGN_DOWN(v) == v - (v % PAGE_SIZE)
ALIGN_UP(v) == ALIGN_DOWN(v + PAGE_SIZE - 1)

PageOf(a) == a \div PAGE_SIZE

Span(from, to) == from .. to - 1

Phdr == [type : STRING, vaddr : Nat, offset : Nat, filesz : Nat, memsz : Nat, w : BOOLEAN]

LoadsOf(f) == {i \in 1 .. Len(f.phdrs) : f.phdrs[i].type = "LOAD"}

(* What a linker makes: a segment lies in the file and has pages of its    *)
(* own.                                                                    *)
Linked(f) ==
    LET p == f.phdrs
    IN  /\ p \in Seq(Phdr) /\ f.size \in Nat /\ f.base \in Nat
        /\ LoadsOf(f) # {}
        /\ \A i \in LoadsOf(f) :
              p[i].memsz > 0 /\ p[i].filesz <= p[i].memsz /\ p[i].offset + p[i].filesz <= f.size
        /\ \A i, j \in LoadsOf(f) : p[i].vaddr <= p[j].vaddr /\ i # j =>
              ALIGN_UP(p[i].vaddr + p[i].memsz) <= ALIGN_DOWN(p[j].vaddr)

-----------------------------------------------------------------------------
(* The kernel *)

(* What a file mapping shows at offset o. *)
FileByte(o) ==
    IF o < file.size THEN file.base + o
    ELSE IF o < ALIGN_UP(file.size) THEN Zero ELSE Bus

(* sys_uniform_mmap gives the kernel the offset in pages. *)
PageOffset(off) == ALIGN_DOWN(off)

(* mmap of the file, when it succeeds. *)
MapFile(v, from, to, off) ==
    [a \in Addrs |-> IF a \in Span(from, to)
                     THEN FileByte(PageOffset(off) + a - from) ELSE v[a]]

Fill(v, from, to, x) == [a \in Addrs |-> IF a \in Span(from, to) THEN x ELSE v[a]]

(* memset from the program: a page that is not there or not writable, or   *)
(* lies behind the file's end, raises a signal.                            *)
CanStore(v, w, from, to) ==
    \A a \in Span(from, to) : a \in Addrs /\ w[a] /\ v[a] \notin {Bus, None}

-----------------------------------------------------------------------------
(* load_elf up to the first mmap: open_elf_file, load_phdrs and            *)
(* get_total_map_sz                                                        *)

load_elf(f) ==
    /\ file' = f
    /\ stage' = "open"
    /\ next' = 1
    /\ bias' = 0
    /\ need' = FALSE
    /\ before' = val
    /\ UNCHANGED <<memory, unplaced>>

Loads == LoadsOf(file)

first == CHOOSE i \in Loads : \A j \in Loads : file.phdrs[i].vaddr <= file.phdrs[j].vaddr

(* Mutant: the last segment counts with its size in the file. *)
SegEnd_File(p) == p.vaddr + p.filesz

(* p_end. *)
SegEnd(p) == p.vaddr + p.memsz

total_map_sz ==
    ALIGN_UP(Max({SegEnd(file.phdrs[i]) : i \in Loads}))
        - ALIGN_DOWN(Min({file.phdrs[i].vaddr : i \in Loads}))

(* A file that cannot be opened, is cut short or is no program for this    *)
(* machine fails an assertion, and so does a segment whose address is not  *)
(* congruent to its offset.                                                *)
open_elf_file ==
    /\ stage = "open"
    /\ stage' = IF /\ file.ok
                   /\ \A i \in Loads :
                         (file.phdrs[i].vaddr - file.phdrs[i].offset) % PAGE_SIZE = 0
                   /\ file.phdrs[first].offset = 0
                THEN "first" ELSE "dead"
    /\ UNCHANGED <<file, next, bias, need, memory, history>>

-----------------------------------------------------------------------------
(* map_first *)

(* Where the pages behind the first segment start. *)
UnmapFrom(start) == ALIGN_UP(start + file.phdrs[first].memsz)

(* The addresses mmap can return: the file's own with MAP_FIXED, any that  *)
(* has room without.                                                       *)
Places ==
    LET Free(n) == \A a \in Span(PAGE_SIZE * n, PAGE_SIZE * n + total_map_sz) : val[a] = None
        fixed == PageOf(file.phdrs[first].vaddr)
        last == NPages - total_map_sz \div PAGE_SIZE
    IN  {PAGE_SIZE * n : n \in {n \in LowPages .. last : IF file.dyn THEN Free(n) ELSE n = fixed}}

(* The result of an mmap that fails: an errno, negated. *)
MAP_ERROR == -1

(* Nobody looks at the result of mmap.  If it is an error, a file that can *)
(* go anywhere is loaded there all the same, at the end of the address     *)
(* space and on from its beginning, and one with an address of its own has *)
(* no first segment.                                                       *)
map_first ==
    LET p == file.phdrs[first]
    IN  /\ stage = "first"
        /\ \E map_addr \in Places \cup {MAP_ERROR} :
              LET failed == map_addr = MAP_ERROR
                  load_bias == IF file.dyn THEN map_addr - p.vaddr ELSE 0
                  start == load_bias + ALIGN_DOWN(p.vaddr)
                  end == load_bias + ALIGN_UP(p.vaddr + total_map_sz)
                  mapped == IF failed THEN val ELSE MapFile(val, start, end, p.offset)
                  v == Fill(mapped, UnmapFrom(start), ALIGN_UP(end), None)
                  w == IF failed THEN write ELSE Fill(write, start, end, p.w)
                  pad == p.filesz < p.memsz /\ p.w
              IN  /\ bias' = load_bias
                  /\ write' = w
                  /\ unplaced' = (unplaced \/ failed)
                  /\ IF pad /\ ~CanStore(v, w, start + p.filesz, start + p.memsz)
                     THEN val' = v /\ stage' = "dead"
                     ELSE /\ val' = IF pad THEN Fill(v, start + p.filesz, start + p.memsz, Zero)
                                    ELSE v
                          /\ stage' = "region"
        /\ UNCHANGED <<file, next, need, before>>

-----------------------------------------------------------------------------
(* map_region *)

(* Mutant: only the anonymous pages are zero. *)
PadFrom_Page(fend) == ALIGN_UP(fend)

(* Where the zeroes start. *)
PadFrom(fend) == fend

(* Either mmap may fail, as it does for no bytes at all and for the pages  *)
(* at the bottom: the assertion behind it ends the program.                *)
map_region ==
    LET p == file.phdrs[next]
        start == bias + p.vaddr
        fend == start + p.filesz
        mend == start + p.memsz
        v == Fill(MapFile(val, ALIGN_DOWN(start), ALIGN_UP(fend), p.offset),
                  ALIGN_UP(fend), ALIGN_UP(mend), Zero)
        w == Fill(write, ALIGN_DOWN(start), ALIGN_UP(mend), p.w)
    IN  /\ stage = "region"
        /\ next <= Len(file.phdrs) /\ next \in Loads \ {first}
        /\ \/ stage' = "dead" /\ UNCHANGED memory
           \/ /\ ALIGN_DOWN(start) >= LowPages * PAGE_SIZE
              /\ ALIGN_DOWN(start) < ALIGN_UP(fend)
              /\ write' = w
              /\ IF CanStore(v, w, PadFrom(fend), ALIGN_UP(mend))
                 THEN /\ val' = Fill(v, PadFrom(fend), ALIGN_UP(mend), Zero)
                      /\ UNCHANGED stage
                 ELSE val' = v /\ stage' = "dead"
        /\ next' = next + 1
        /\ UNCHANGED <<file, bias, need, history>>

-----------------------------------------------------------------------------
(* The loop of load_elf *)

(* The other program headers are passed over, and an interpreter is noted. *)
SkipPhdr ==
    /\ stage = "region"
    /\ next <= Len(file.phdrs) /\ next \notin Loads \ {first}
    /\ need' = (need \/ file.phdrs[next].type = "INTERP")
    /\ next' = next + 1
    /\ UNCHANGED <<file, stage, bias, memory, history>>

LoadElfReturns ==
    /\ stage = "region" /\ next > Len(file.phdrs)
    /\ stage' = "done"
    /\ UNCHANGED <<file, next, bias, need, memory, history>>

(* What load_elf returns, *)
LoadedEntry == bias + file.entry

(* Mutant: the headers are looked for where the file, not the image, starts. *)
LoadedPhdrs_Unbiased == ALIGN_DOWN(file.phdrs[first].vaddr) + file.phoff

(* and what it stores at pp_phdrs. *)
LoadedPhdrs == bias + ALIGN_DOWN(file.phdrs[first].vaddr) + file.phoff

InLoadElf == open_elf_file \/ map_first \/ map_region \/ SkipPhdr \/ LoadElfReturns

-----------------------------------------------------------------------------
(* Properties *)

Done == stage = "done"

(* When load_elf returns, and the kernel had room, every segment is at its *)
(* place with the bytes of the file, then zeroes if it is writable, and    *)
(* with its write permission: no segment was spoiled by the mapping, or    *)
(* the padding, of another.                                                *)
ImageRight ==
    Done /\ ~unplaced => \A i \in Loads :
        LET p == file.phdrs[i]
        IN  \A k \in Span(0, p.memsz) :
                LET a == bias + p.vaddr + k
                IN  /\ k < p.filesz => val[a] = file.base + p.offset + k
                    /\ k >= p.filesz /\ p.w => val[a] = Zero
                    /\ write[a] = p.w

(* "to make sure we have enough continuous memory space": a file that can  *)
(* go anywhere never takes a byte that was mapped when load_elf was        *)
(* called, though all its segments but one are mapped with MAP_FIXED; and  *)
(* when load_elf returns, it has mapped no page without a segment in it.   *)
NeighboursIntact ==
    stage \in {"region", "done"} /\ ~unplaced =>
        /\ file.dyn => \A a \in Addrs : before[a] # None => val[a] = before[a]
        /\ Done => \A a \in Addrs :
              before[a] = None /\ val[a] # None =>
                  \E i \in Loads : \E k \in Span(0, file.phdrs[i].memsz) :
                      PageOf(bias + file.phdrs[i].vaddr + k) = PageOf(a)
=============================================================================
