------------------------------- MODULE Xmain --------------------------------
(***************************************************************************)
(* The loader from its first instruction to the first one of the program   *)
(* it starts: interp_start and xmain of core/loader/interp_main.c,         *)
(* relocate_interp of core/loader/elf.c and core/loader/startup_stack.c,   *)
(* with load_elf (ElfLoad) for the program and for ld-linux.so.2.          *)
(*                                                                         *)
(* The kernel calls the loader as the interpreter of a program that it has *)
(* mapped itself, or runs it as a program ("by hand"), with the name of    *)
(* the program to load as its first argument.  Everything happens on the   *)
(* stack that the program will get: an address of the stack is a number of *)
(* words, S the one of argc; strings lie elsewhere, from STRINGS on.       *)
(***************************************************************************)
EXTENDS ElfLoad

CONSTANTS
  Starts,      \* what execve finds, see Words below
  STRINGS,     \* the address of argv[0]'s characters
  LoaderStart, \* the address of _start
  OldSysinfo   \* the kernel's AT_SYSINFO

AT_NULL == 0
AT_PHDR == 3
AT_PHENT == 4
AT_PHNUM == 5
AT_BASE == 7
AT_ENTRY == 9
AT_EXECFN == 31
AT_SYSINFO == 32
AT_SYSINFO_EHDR == 33

PHDR_SZ == 32    \* sizeof(struct elf_phdr)

VARIABLES
  start,      \* the member of Starts
  norandom,   \* ADDR_NO_RANDOMIZE is set
  pc,         \* the function of the loader that runs next
  got,        \* words of the loader that are relocated; the first is the
              \* address of wrapped_syscall_entry
  stack,
  esp, eip,
  regs,       \* the general registers, as pusha stores them
  info,       \* startup_stack_info, and
  auxv_info,  \* where it says the auxv values are, 0 if nowhere
  entry_addr

machine == <<stack, esp, eip, regs>>
infos == <<info, auxv_info>>
xvars == <<start, norandom, pc, got, machine, infos, entry_addr>>
vars == <<elf, xvars>>

-----------------------------------------------------------------------------
(* The kernel: execve *)

(* The strings, by their lengths: arguments, environment, file name. *)
Strings(s) == s.args \o s.envs \o <<s.execfn>>

(* They follow each other, each with its NUL. *)
StrAddr(s, i) ==
    LET addr[j \in 0 .. Len(Strings(s))] ==
            IF j = 0 THEN STRINGS ELSE addr[j - 1] + Strings(s)[j] + 1
    IN  addr[i - 1]

Pointers(s, from, n) == [i \in 1 .. n |-> StrAddr(s, from + i)]

Args(s) == Pointers(s, 0, Len(s.args))
Envs(s) == Pointers(s, Len(s.args), Len(s.envs))
ExecFn(s) == StrAddr(s, Len(Strings(s)))

NULs(s) == {StrAddr(s, i) + Strings(s)[i] : i \in 1 .. Len(Strings(s))}

(* The auxiliary vector; s.auxv are the types it has. *)
AuxVal(s, type) ==
    CASE type = AT_ENTRY -> IF s.byhand THEN LoaderStart ELSE s.entry
      [] type = AT_EXECFN -> ExecFn(s)
      [] type = AT_SYSINFO -> OldSysinfo
      [] type = AT_PHENT -> s.phent
      [] OTHER -> 500 + type

Auxv(s) == [i \in 1 .. Len(s.auxv) |-> <<s.auxv[i], AuxVal(s, s.auxv[i])>>]

(* argc, argv, envp and the auxiliary vector, as a program expects them. *)
Words(args, envs, auxv) ==
    <<Len(args)>> \o args \o <<0>> \o envs \o <<0>>
        \o [i \in 1 .. 2 * Len(auxv) |-> auxv[(i + 1) \div 2][2 - (i % 2)]] \o <<AT_NULL, 0>>

(* interp_start pushes this many words. *)
S == 12

KernelStack(s) ==
    LET words == Words(Args(s), Envs(s), Auxv(s))
    IN  [a \in 0 .. S + Len(words) - 1 |-> IF a < S THEN 0 ELSE words[a - S + 1]]

Registers == [i \in 1 .. 8 |-> 400 + i]

NoInfo == [p_argc |-> 0, p_args |-> 0, p_envs |-> 0, cmdline_argbegin |-> 0,
           cmdline_argend |-> 0, envbegin |-> 0, envend |-> 0, bottom_exec_fn |-> 0]

(* The entries init_auxv_info notes. *)
AuxNoted == {AT_ENTRY, AT_BASE, AT_PHDR, AT_PHNUM, AT_EXECFN, AT_SYSINFO, AT_SYSINFO_EHDR}

Init ==
    /\ start \in Starts
    /\ norandom = start.norandom
    /\ pc = "interp_start"
    /\ got = start.rel.got
    /\ stack = KernelStack(start)
    /\ esp = S
    /\ eip = LoaderStart
    /\ regs = Registers
    /\ info = NoInfo
    /\ auxv_info = [t \in AuxNoted |-> 0]
    /\ entry_addr = 0
    /\ val = [a \in Addrs |-> IF PageOf(a) \in start.taken THEN Other ELSE None]
    /\ write = [a \in Addrs |-> PageOf(a) \in start.taken]
    /\ file = start.ldso
    /\ stage = "idle"
    /\ next = 1
    /\ bias = 0
    /\ need = FALSE
    /\ before = val
    /\ unplaced = FALSE

-----------------------------------------------------------------------------
At(l) == pc = l /\ stage # "dead"

(* A signal, a failed assertion, FATAL or sys_exit. *)
Die ==
    /\ stage' = "dead"
    /\ UNCHANGED <<file, next, bias, need, memory, history, xvars>>

(* The return slot, the address of argc, pusha, pushf and the argument of  *)
(* xmain.                                                                  *)
interp_start ==
    /\ At("interp_start")
    /\ stack' = [a \in DOMAIN stack |->
                    CASE a = S - 1 -> 0
                      [] a = S - 2 -> S
                      [] a \in S - 10 .. S - 3 -> regs[S - 2 - a]
                      [] a = S - 12 -> S - 11
                      [] OTHER -> stack[a]]
    /\ esp' = S - 12
    /\ regs' = [i \in 1 .. 8 |-> 0]
    /\ pc' = "relocate_interp"
    /\ UNCHANGED <<elf, start, norandom, got, eip, infos, entry_addr>>

(* startup_stack is the argument of xmain; its stack_top follows pushf and *)
(* pusha.                                                                  *)
p_stack_top == stack[esp] + 9
stack_top == stack[p_stack_top]

nr_rels(r) == r.relsz \div r.relent

Refused(r) ==
    LET bad == \/ r.relsz = 0 \/ r.relent = 0
               \/ \E i \in 1 .. nr_rels(r) :
                     \/ r.reltab[i].type \notin {"R_386_RELATIVE", "R_386_GLOB_DAT"}
                     \/ r.reltab[i].type = "R_386_GLOB_DAT" /\ r.symtab = <<>>
    IN  r.rela \/ (r.reltab # <<>> /\ bad)

(* Every entry of the table is applied to what the ones before have left.  *)
relocate_interp ==
    LET r == start.rel
        Real(words, e) ==
            IF e.type = "R_386_RELATIVE" THEN words[e.offset] + r.load_bias
            ELSE r.symtab[e.sym] + r.load_bias
        after[i \in 0 .. nr_rels(r)] ==
            IF i = 0 THEN got
            ELSE LET e == r.reltab[i]
                 IN  [after[i - 1] EXCEPT ![e.offset] = Real(after[i - 1], e)]
    IN  /\ At("relocate_interp")
        /\ IF Refused(r) THEN Die
           ELSE /\ got' = IF r.reltab = <<>> THEN got ELSE after[nr_rels(r)]
                /\ pc' = "scan_startup_stack"
                /\ UNCHANGED <<elf, start, norandom, machine, infos, entry_addr>>

-----------------------------------------------------------------------------
(* What the linkers and execve make *)

(* The word of wrapped_syscall_entry is right as it is, or relocated once. *)
Relocatable(r, wrapped) ==
    /\ r.got \in Seq(Int) /\ r.got # <<>> /\ r.symtab \in Seq(Int) /\ r.load_bias \in Int
    /\ r.reltab \in Seq([offset : DOMAIN r.got, type : STRING, sym : Nat])
    /\ ~Refused(r) /\ r.reltab = <<>> => wrapped = r.got[1]
    /\ ~Refused(r) /\ r.reltab # <<>> =>
          /\ nr_rels(r) \in 1 .. Len(r.reltab)
          /\ \A i \in 1 .. nr_rels(r) :
                r.reltab[i].type = "R_386_GLOB_DAT" => r.reltab[i].sym \in DOMAIN r.symtab
          /\ \E k \in 1 .. nr_rels(r) :
                LET e == r.reltab[k]
                IN  /\ \A i \in 1 .. nr_rels(r) : r.reltab[i].offset = 1 <=> i = k
                    /\ wrapped = r.load_bias + (IF e.type = "R_386_RELATIVE" THEN r.got[1]
                                                ELSE r.symtab[e.sym])

(* No type is twice in an auxiliary vector, and no file name is empty. *)
Executed(s) ==
    /\ s.args \in Seq(Nat) /\ s.envs \in Seq(Nat) /\ s.execfn \in Nat \ {0}
    /\ s.auxv \in Seq(Nat \ {AT_NULL})
    /\ \A i, j \in 1 .. Len(s.auxv) : s.auxv[i] = s.auxv[j] => i = j
    /\ s.norandom \in BOOLEAN /\ s.byhand \in BOOLEAN /\ s.setid \in BOOLEAN
    /\ s.entry \in Int /\ s.phent \in Int /\ s.wrapped \in Int
    /\ ~s.byhand => s.entry # LoaderStart

ASSUME XmainAssumption ==
    /\ STRINGS \in Nat \ {0} /\ LoaderStart \in Int /\ OldSysinfo \in Int
    /\ \A s \in Starts : /\ Executed(s) /\ Relocatable(s.rel, s.wrapped)
                         /\ Linked(s.program) /\ Linked(s.ldso) /\ s.ldso.dyn

-----------------------------------------------------------------------------
(* startup_stack.c *)

StackEnd == Cardinality(DOMAIN stack) - 1

(* The first NULL pointer from p on. *)
Null(p) == CHOOSE q \in p .. StackEnd : stack[q] = 0 /\ \A r \in p .. q - 1 : stack[r] # 0

(* Where the entries are of an auxiliary vector that starts at p. *)
AuxEntries(p) ==
    LET Entry(q) == q >= p /\ (q - p) % 2 = 0
        null == Min({q \in DOMAIN stack : Entry(q) /\ stack[q] = AT_NULL})
    IN  {q \in p .. null - 1 : Entry(q)}

strlen(p) == Min({q \in NULs(start) : q >= p}) - p

(* Mutant: the environment ends at its last NUL. *)
AfterString_Nul(p) == p + strlen(p)

AfterString(p) == p + strlen(p) + 1

(* Mutant: a note of where the type is. *)
Noted_Type(q) == q

(* set_auxvinfo, for the entry at q. *)
Noted(q) == q + 1

(* strlen of NULL is a fault: without an argument, and without an          *)
(* environment, where the entry before the first is the NULL of argv.      *)
scan_startup_stack ==
    LET p_argc == stack_top
        argc == stack[p_argc]
        p_args == p_argc + 1
        p_envs == Null(p_args) + 1
        p_auxvs == Null(p_envs) + 1
        lastarg == stack[p_args + argc - 1]
        lastenv == stack[Null(p_envs) - 1]
        Slots(t) == {Noted(q) : q \in {q \in AuxEntries(p_auxvs) : stack[q] = t}}
        phents == {stack[q + 1] : q \in {q \in AuxEntries(p_auxvs) : stack[q] = AT_PHENT}}
        envend == AfterString(lastenv)
    IN  /\ At("scan_startup_stack")
        /\ IF phents \subseteq {PHDR_SZ} /\ lastarg # 0 /\ lastenv # 0
           THEN /\ info' = [p_argc |-> p_argc, p_args |-> p_args, p_envs |-> p_envs,
                            cmdline_argbegin |-> stack[p_args],
                            cmdline_argend |-> AfterString(lastarg),
                            envbegin |-> stack[p_envs],
                            envend |-> envend,
                            bottom_exec_fn |->
                                Min(envend .. envend + Cardinality(NULs(start)) \ NULs(start))]
                /\ auxv_info' = [t \in AuxNoted |-> Max(Slots(t) \cup {0})]
                /\ pc' = "set_vsyscall_entry"
                /\ UNCHANGED <<elf, start, norandom, got, machine, entry_addr>>
           ELSE Die

-----------------------------------------------------------------------------
(* interp_main.c *)

Unset(types) == \E t \in types : auxv_info[t] = 0

(* xmain reads *p_sysinfo and *pp_sysinfo_ehdr, get_vsyscall_entry exits   *)
(* without AT_SYSINFO, and set_vsyscall_entry replaces its value.          *)
set_vsyscall_entry ==
    LET entries == {q \in AuxEntries(Null(info.p_envs) + 1) : stack[q] = AT_SYSINFO}
    IN  /\ At("set_vsyscall_entry")
        /\ IF Unset({AT_SYSINFO, AT_SYSINFO_EHDR}) \/ entries = {} THEN Die
           ELSE /\ stack' = [a \in DOMAIN stack |->
                                IF a - 1 \in entries THEN got[1] ELSE stack[a]]
                /\ pc' = "reexec"
                /\ UNCHANGED <<elf, start, norandom, got, esp, eip, regs, infos, entry_addr>>

(* execve starts the loader afresh, with the personality it has set, which *)
(* a set-id program loses again (PER_CLEAR_ON_SETID).                      *)
Restart ==
    /\ norandom' = ~start.setid
    /\ pc' = "interp_start"
    /\ got' = start.rel.got
    /\ stack' = KernelStack(start)
    /\ esp' = S
    /\ eip' = LoaderStart
    /\ regs' = Registers
    /\ info' = NoInfo
    /\ auxv_info' = [t \in AuxNoted |-> 0]
    /\ UNCHANGED <<elf, start, entry_addr>>

reexec ==
    /\ At("reexec")
    /\ \/ /\ norandom
          /\ pc' = "load_exec"
          /\ UNCHANGED <<elf, start, norandom, got, machine, infos, entry_addr>>
       \/ ~norandom /\ Restart
       \/ ~norandom /\ Die

(* load_exec up to the call of load_elf. *)
load_exec ==
    /\ At("load_exec")
    /\ \/ Unset({AT_PHDR, AT_PHNUM, AT_ENTRY}) /\ Die
       \/ /\ ~Unset({AT_PHDR, AT_PHNUM, AT_ENTRY})
          /\ LoaderStart # stack[auxv_info[AT_ENTRY]]
          /\ entry_addr' = stack[auxv_info[AT_ENTRY]]
          /\ pc' = "load_real_interp"
          /\ UNCHANGED <<elf, start, norandom, got, machine, infos>>
       \/ /\ ~Unset({AT_PHDR, AT_PHNUM, AT_ENTRY})
          /\ LoaderStart = stack[auxv_info[AT_ENTRY]]
          /\ IF stack[info.p_args + 1] = 0 THEN Die
             ELSE /\ load_elf(start.program)
                  /\ pc' = "exec_loaded"
                  /\ UNCHANGED <<start, norandom, got, machine, infos, entry_addr>>

(* Mutant: the moved argc keeps its value. *)
NewArgc_Same(argc) == argc

NewArgc(argc) == argc - 1

(* The rest of load_exec: the auxiliary vector is made to describe what    *)
(* was loaded, and argc moves up over the name of the loader.              *)
ExecLoaded ==
    LET argc == stack[info.p_argc]
        fn == stack[info.p_args + 1]
        top == info.p_args
    IN  /\ At("exec_loaded") /\ stage = "done"
        /\ IF LoadedEntry = 0 \/ Unset({AT_EXECFN}) \/ argc < 2 THEN Die
           ELSE /\ stack' = [a \in DOMAIN stack |->
                                CASE a = auxv_info[AT_PHDR] -> LoadedPhdrs
                                  [] a = auxv_info[AT_PHNUM] -> Len(file.phdrs)
                                  [] a = auxv_info[AT_EXECFN] -> fn
                                  [] a = auxv_info[AT_ENTRY] -> LoadedEntry
                                  [] a = top -> NewArgc(argc)
                                  [] a = p_stack_top -> top
                                  [] OTHER -> stack[a]]
                /\ info' = [info EXCEPT !.p_argc = top, !.p_args = top + 1]
                /\ entry_addr' = LoadedEntry
                /\ stage' = "idle"
                /\ pc' = IF need THEN "load_real_interp" ELSE "SET_INTERP_RETADDR"
                /\ UNCHANGED <<file, next, bias, need, memory, history,
                               start, norandom, got, esp, eip, regs, auxv_info>>

load_real_interp ==
    /\ At("load_real_interp")
    /\ load_elf(start.ldso)
    /\ pc' = "interp_loaded"
    /\ UNCHANGED <<start, norandom, got, machine, infos, entry_addr>>

InterpLoaded ==
    /\ At("interp_loaded") /\ stage = "done"
    /\ IF LoadedEntry = 0 THEN Die
       ELSE /\ entry_addr' = LoadedEntry
            /\ stage' = "idle"
            /\ pc' = "SET_INTERP_RETADDR"
            /\ UNCHANGED <<file, next, bias, need, memory, history,
                           start, norandom, got, machine, infos>>

RetAddr == stack_top - 1

(* The end of xmain.  sampling (Boot) decides which way it returns. *)
SET_INTERP_RETADDR ==
    /\ At("SET_INTERP_RETADDR")
    /\ stack' = [stack EXCEPT ![RetAddr] = entry_addr]
    /\ pc' \in {"unselect_start", "snitchaser_start"}
    /\ UNCHANGED <<elf, start, norandom, got, esp, eip, regs, infos, entry_addr>>

(* popa, with the words from p on: the one of esp is not used. *)
Popped(p) == [i \in 1 .. 8 |-> IF i = 5 THEN regs[5] ELSE stack[p + 8 - i]]

(* The argument, popf, popa, stack_top into esp, and ret. *)
unselect_start ==
    LET top == stack[esp + 10]
    IN  /\ At("unselect_start")
        /\ regs' = Popped(esp + 2)
        /\ eip' = stack[top - 1]
        /\ esp' = top
        /\ pc' = "entered"
        /\ UNCHANGED <<elf, start, norandom, got, stack, infos, entry_addr>>

(* The same, but snitchaser_main is called between, with the registers     *)
(* saved once more below the return slot.                                  *)
snitchaser_start ==
    LET top == stack[esp + 10]
        saved == Popped(esp + 2)
        pushed == [a \in DOMAIN stack |->
                      CASE a \in top - 9 .. top - 2 -> saved[top - 1 - a]
                        [] a = top - 11 -> top - 10
                        [] OTHER -> stack[a]]
    IN  /\ At("snitchaser_start")
        /\ stack' = pushed
        /\ regs' = [i \in 1 .. 8 |-> IF i = 5 THEN regs[5] ELSE pushed[top - 1 - i]]
        /\ eip' = pushed[top - 1]
        /\ esp' = top
        /\ pc' = "entered"
        /\ UNCHANGED <<elf, start, norandom, got, infos, entry_addr>>

LoadElf == InLoadElf /\ UNCHANGED xvars

Next ==
    \/ interp_start \/ relocate_interp \/ scan_startup_stack \/ set_vsyscall_entry
    \/ reexec \/ load_exec \/ ExecLoaded \/ load_real_interp \/ InterpLoaded
    \/ LoadElf \/ SET_INTERP_RETADDR \/ unselect_start \/ snitchaser_start

Spec == Init /\ [][Next]_vars

-----------------------------------------------------------------------------
(* Properties *)

Bytes(f) == Span(f.base, f.base + f.size)

(* The types of the state above.  What auxv_info points to, through all    *)
(* that is pushed and moved below it, is the value of an auxiliary entry   *)
(* of its own type.                                                        *)
TypeOK ==
    /\ norandom \in BOOLEAN
    /\ stage \in {"idle", "open", "first", "region", "done", "dead"}
    /\ next \in 1 .. Len(file.phdrs) + 1
    /\ bias \in Int
    /\ need \in BOOLEAN /\ unplaced \in BOOLEAN
    /\ val \in [Addrs -> Other .. Zero \cup Bytes(start.program) \cup Bytes(start.ldso)]
    /\ write \in [Addrs -> BOOLEAN]
    /\ stack \in [0 .. StackEnd -> Int]
    /\ esp \in DOMAIN stack
    /\ DOMAIN auxv_info = AuxNoted
    /\ \A t \in AuxNoted : auxv_info[t] # 0 =>
          auxv_info[t] \in S + 1 .. StackEnd /\ stack[auxv_info[t] - 1] = t

Entered == pc = "entered"

Argv == IF start.byhand THEN Tail(Args(start)) ELSE Args(start)

(* The value a program should find for an auxiliary entry. *)
Expected(t, v) ==
    CASE t = AT_SYSINFO -> start.wrapped
      [] start.byhand /\ t = AT_EXECFN -> Args(start)[2]
      [] start.byhand /\ t \in {AT_PHDR, AT_PHNUM, AT_ENTRY} -> stack[auxv_info[t]]
      [] OTHER -> v

(* "remove the topmost argv": a program is entered with esp at argc, its   *)
(* own arguments, the whole environment and auxiliary vector behind it,    *)
(* and the registers of execve, however often the loader pushed, moved or  *)
(* overwrote words of that stack; the only auxiliary values that differ    *)
(* from the kernel's are AT_SYSINFO, which is the relocated address of     *)
(* wrapped_syscall_entry, and those load_exec sets.                        *)
StackForProgram ==
    Entered =>
        LET auxv == [i \in DOMAIN Auxv(start) |->
                        <<Auxv(start)[i][1], Expected(Auxv(start)[i][1], Auxv(start)[i][2])>>]
            words == Words(Argv, Envs(start), auxv)
        IN  /\ \A i \in 1 .. Len(words) : stack[esp + i - 1] = words[i]
            /\ esp + Len(words) - 1 = StackEnd
            /\ \A i \in 1 .. 8 : i # 5 => regs[i] = Registers[i]

(* An address holds the byte of f at offset o. *)
Holds(a, f, o) == a \in Addrs /\ val[a] = f.base + o

(* The offset in f of its first instruction, in whichever segment it is. *)
EntryOffset(f) ==
    LET p == f.phdrs[CHOOSE i \in LoadsOf(f) :
                        LET q == f.phdrs[i] IN f.entry \in Span(q.vaddr, q.vaddr + q.filesz)]
    IN  p.offset + f.entry - p.vaddr

HasInterp(f) == \E i \in 1 .. Len(f.phdrs) : f.phdrs[i].type = "INTERP"

(* What is entered is the entry of ld-linux.so.2, or of a program without  *)
(* an interpreter; and if load_exec loaded the program, AT_PHDR, AT_PHNUM  *)
(* and AT_ENTRY still describe it in memory after ld-linux.so.2 was        *)
(* loaded, too.                                                            *)
AuxvDescribesImage ==
    Entered /\ ~unplaced =>
        LET f == start.program
        IN  /\ IF start.byhand /\ ~HasInterp(f) THEN Holds(eip, f, EntryOffset(f))
               ELSE Holds(eip, start.ldso, EntryOffset(start.ldso))
            /\ start.byhand =>
                  /\ stack[auxv_info[AT_PHNUM]] = Len(f.phdrs)
                  /\ \A k \in Span(0, f.phsz) : Holds(stack[auxv_info[AT_PHDR]] + k, f, f.phoff + k)
                  /\ Holds(stack[auxv_info[AT_ENTRY]], f, EntryOffset(f))

(* From scan_startup_stack on, the bounds that the checkpoint saves its    *)
(* command line, environment and file name by are those of the strings     *)
(* execve has put there, the loader's name included, whatever load_exec    *)
(* moves.                                                                  *)
InfoRight ==
    info # NoInfo =>
        /\ info.cmdline_argbegin = STRINGS
        /\ info.cmdline_argend = Envs(start)[1]
        /\ info.envbegin = Envs(start)[1]
        /\ info.envend = ExecFn(start) /\ info.bottom_exec_fn = ExecFn(start)
=============================================================================
