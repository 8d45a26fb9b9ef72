------------------------------ MODULE MCXmain -------------------------------
(* Xmain with pages of four bytes.  A file has a segment that starts at    *)
(* offset 0 and holds the program headers, and a second one on pages of    *)
(* its own, at an address congruent to its offset; three bytes (a section  *)
(* table) follow it in the file.  PT_PHDR and PT_INTERP come before the    *)
(* segments, as the linkers put them, other headers between or behind.     *)
EXTENDS Xmain

Last(s) == s[Len(s)]

Seg(v, o, f, m, wr) == [type |-> "LOAD", vaddr |-> v, offset |-> o, filesz |-> f,
                        memsz |-> m, w |-> wr]

NoSeg(t) == [Seg(0, 0, 0, 0, FALSE) EXCEPT !.type = t]

(* A file that can go anywhere starts at 0, an executable behind it.  Its  *)
(* first segment is writable or not; only a writable one is larger in      *)
(* memory than in the file.                                                *)
Firsts(v) == {Seg(v, 0, f, f, FALSE) : f \in {3, 4, 6}} \cup
             {Seg(v, 0, 3, 5, TRUE), Seg(v, 0, 5, 5, TRUE)}

(* The first offset from o on that is congruent to v. *)
Congruent(v, o) == CHOOSE n \in o .. o + PAGE_SIZE - 1 : n % PAGE_SIZE = v % PAGE_SIZE

(* A second segment, gap bytes behind the pages of the first. *)
Seconds(p) ==
    LET From(gap) == ALIGN_UP(p.vaddr + p.memsz) + gap
        Second(gap, f, b, wr) == Seg(From(gap), Congruent(From(gap), p.filesz), f, f + b, wr)
    IN  {Second(gap, f, b, TRUE) : gap \in 0 .. 5, f \in {0, 1, 3, 4}, b \in {0, 1, 6}}
        \cup {Second(gap, f, 0, FALSE) : gap \in {0, 2, 5}, f \in {1, 4}}

(* The entry is in the second segment if that one is read-only. *)
File(p, t, q) ==
    [ok |-> TRUE, dyn |-> p.vaddr = 0, size |-> q.offset + q.filesz + 3, base |-> 0,
     phoff |-> 1, phsz |-> 2, entry |-> IF q.w THEN p.vaddr ELSE q.vaddr,
     phdrs |-> IF t = "INTERP" THEN <<NoSeg("PHDR"), NoSeg(t), p, q>> ELSE <<p, NoSeg(t), q>>]

(* A third segment, or one more header, can follow. *)
AddPhdr(f, r) == [f EXCEPT !.size = r.offset + r.filesz + f.size, !.phdrs = Append(@, r)]

Third(f, n, b) ==
    LET q == Last(f.phdrs)
        v == ALIGN_UP(q.vaddr + q.memsz) + 1
    IN  AddPhdr(f, Seg(v, Congruent(v, f.size), n, n + b, TRUE))

(* Only some of the programs need ld-linux.so.2. *)
Kind(p, q) == IF p.filesz \in {3, 4, 6} /\ q.filesz \in {1, 3} THEN "INTERP" ELSE "NOTE"

Programs(v) ==
    LET Two(p) == {File(p, Kind(p, q), q) : q \in {q \in Seconds(p) : q.memsz > 0}}
        Three(p) == {Third(f, n, b) : f \in {f \in Two(p) : Last(f.phdrs).memsz = 1},
                                      n \in {1, 3}, b \in {0, 4}}
    IN  UNION {Two(p) \cup Three(p) : p \in Firsts(v)}

AsLdso(f) == [f EXCEPT !.base = 100]

Small(t, v) == File(Seg(v, 0, 4, 4, FALSE), t, Seg(v + 5, 5, 1, 2, TRUE))

BadFiles ==
    {[Small("NOTE", 4) EXCEPT !.ok = FALSE],
     File(Seg(4, 0, 4, 4, FALSE), "NOTE", Seg(8, 5, 1, 1, TRUE)),
     File(Seg(4, 4, 4, 4, FALSE), "NOTE", Seg(8, 8, 1, 1, TRUE))}

-----------------------------------------------------------------------------
WRAPPED == 20

(* The tables a linker may make for two words, and ones relocate_interp    *)
(* refuses.                                                                *)
Rel(tab, syms, g, b) == [reltab |-> tab, symtab |-> syms, got |-> g, load_bias |-> b,
                         relsz |-> 8 * Len(tab), relent |-> 8, rela |-> FALSE]

Entry(o, t, y) == [offset |-> o, type |-> t, sym |-> y]

GoodRels ==
    {Rel(<<Entry(2, "R_386_RELATIVE", 0), Entry(1, "R_386_GLOB_DAT", 2)>>,
         <<30, WRAPPED>>, <<0, 31>>, 200),
     Rel(<<Entry(1, "R_386_RELATIVE", 0)>>, <<>>, <<WRAPPED, 31>>, 200),
     Rel(<<>>, <<>>, <<WRAPPED, 31>>, 0)}

SomeRel == CHOOSE r \in GoodRels : Len(r.reltab) = 2

BadRels ==
    {[SomeRel EXCEPT !.rela = TRUE], [SomeRel EXCEPT !.relsz = 0],
     [SomeRel EXCEPT !.relent = 0], [SomeRel EXCEPT !.symtab = <<>>],
     [SomeRel EXCEPT !.reltab[1].type = "R_386_PC32"]}

-----------------------------------------------------------------------------
FullAuxv == <<AT_SYSINFO, AT_SYSINFO_EHDR, AT_PHDR, AT_PHENT, AT_PHNUM, AT_BASE, AT_ENTRY,
              AT_EXECFN>>

Without(t) == SelectSeq(FullAuxv, LAMBDA u : u # t)

(* By hand: the loader and the stack are the pages that are taken. *)
ByHand(f) ==
    [byhand |-> TRUE, norandom |-> TRUE, setid |-> FALSE, args |-> <<3, 1>>, envs |-> <<2, 0>>, execfn |-> 3,
     auxv |-> FullAuxv, entry |-> 0, phent |-> PHDR_SZ, rel |-> SomeRel,
     wrapped |-> WRAPPED + SomeRel.load_bias,
     taken |-> {11}, program |-> f, ldso |-> AsLdso(Small("NOTE", 0))]

(* As the interpreter: the program is there, too. *)
AsInterp(f) ==
    [ByHand(f) EXCEPT !.byhand = FALSE, !.entry = 16, !.taken = {4, 11}, !.ldso = AsLdso(f)]

Bases == {ByHand(Small("INTERP", 4)), ByHand(Small("NOTE", 0)), AsInterp(Small("NOTE", 0))}

MCStarts ==
    {ByHand(f) : f \in Programs(0) \cup Programs(4) \cup BadFiles}
    \cup {AsInterp(f) : f \in Programs(0)}
    \cup UNION {{[b EXCEPT !.args = a, !.envs = e, !.norandom = n] :
                    a \in {<<>>, <<3>>, <<2, 0>>, <<3, 0, 2>>},
                    e \in {<<>>, <<2>>, <<0, 1>>, <<1, 0>>},
                    n \in BOOLEAN} : b \in Bases}
    \cup UNION {{[b EXCEPT !.auxv = v] :
                    v \in {Without(FullAuxv[i]) : i \in 1 .. Len(FullAuxv)}} : b \in Bases}
    \cup {[b EXCEPT !.phent = 31] : b \in Bases}
    \cup {[b EXCEPT !.norandom = FALSE, !.setid = TRUE] : b \in Bases}
    \cup UNION {{[b EXCEPT !.rel = r, !.wrapped = WRAPPED + r.load_bias] :
                    r \in GoodRels \cup BadRels} : b \in Bases}
=============================================================================
