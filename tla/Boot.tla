-------------------------------- MODULE Boot --------------------------------
(***************************************************************************)
(* The start of a process under the loader: xmain of interp_main.c, the    *)
(* settings of env_conf.c, snitchaser_main, the patch of the program's     *)
(* entry (user_entry.c, arch_user_entry.c), the dynamic linker's run, and  *)
(* the arrival at the entry, where the patch is undone and the checkpoint  *)
(* is taken.                                                               *)
(*                                                                         *)
(* The mapping that holds the entry is a row of TextSz bytes; a byte is    *)
(* the file's ("orig"), of the jump ("jmp"), or either of them after the   *)
(* dynamic linker has relocated it ("reloc", "bad").  The environment is a *)
(* sequence of settings; a value is a sequence of characters, a digit      *)
(* being itself and a minus sign the number Minus.                         *)
(***************************************************************************)
EXTENDS Integers, Sequences

CONSTANTS
  TextSz,
  PATCH_SZ,
  INT_MAX,      \* the width of an int
  Envs,         \* the environments
  Selections,   \* what random32() % 1000 can give
  Relocs,       \* the sets of bytes a dynamic linker may relocate
  MaxCalls      \* bound: how many system calls are made

Minus == 10

Settings == [key : {"SNITCHASER_USE", "SNITCHASER_SAMPLING", "OTHER"}, val : Seq(0 .. Minus)]

ASSUME BootAssumption ==
    /\ TextSz \in Nat /\ PATCH_SZ \in Nat \ {0} /\ MaxCalls \in Nat
    /\ INT_MAX \in Nat
    /\ \A v \in Envs : v \in Seq(Settings)
    /\ Selections \subseteq 0 .. 999
    /\ {} \in Relocs /\ Relocs \subseteq SUBSET (0 .. TextSz - 1)

VARIABLES
  start,      \* how the process was started; never changes
  stage,
  norandom,   \* ADDR_NO_RANDOMIZE in the personality
  sysinfo,    \* AT_SYSINFO: the system call entry the libraries will use
  args,       \* the argument vector on the stack
  selected,   \* what xmain returned
  fd,         \* logger_fd
  text, prot, \* the mapping of the entry
  saved,      \* saved_patch_bytes, old_prot of arch_user_entry.c
  log,        \* how many calls the log file holds
  sz,         \* logger_sz
  ckpt        \* the checkpoint written, or <<>>

vars == <<start, stage, norandom, sysinfo, args, selected, fd, text, prot,
          saved, log, sz, ckpt>>

Bytes == 0 .. TextSz - 1

(* byinterp: the kernel loaded the loader as the program's interpreter;    *)
(* otherwise it was run with the program as its argument.  path: argv[0]   *)
(* names a file.  dynamic: the program has an interpreter of its own.      *)
(* prot: of the mapping with the entry.  reloc, ldprot: the bytes of it    *)
(* that the dynamic linker relocates and the protection it leaves.  setid: *)
(* argv[0] is a set-id file.  stdin: descriptor 0 can be written to.       *)
Starts ==
    [byinterp : BOOLEAN, argv : {<<"a">>, <<"a", "b", "c">>}, path : BOOLEAN,
     dynamic : BOOLEAN, entry : Bytes, prot : {"rx", "rwx"}, reloc : Relocs,
     ldprot : {"rx", "rwx"}, setid : BOOLEAN, stdin : BOOLEAN, env : Envs]

Orig == [b \in Bytes |-> "orig"]

(* The kernel loads an interpreter for dynamic programs only, and no set-id *)
(* program starts with ADDR_NO_RANDOMIZE.                                   *)
Init ==
    /\ start \in {s \in Starts : /\ s.byinterp => s.dynamic
                                 /\ ~s.dynamic => s.reloc = {} /\ s.ldprot = s.prot}
    /\ stage = "start"
    /\ norandom \in BOOLEAN /\ (start.setid => ~norandom)
    /\ sysinfo = "vdso"
    /\ args = start.argv
    /\ selected = FALSE
    /\ fd = 0
    /\ text = Orig /\ prot = start.prot
    /\ saved = <<>>
    /\ log = 0 /\ sz = 0
    /\ ckpt = <<>>

Goto(l) == stage' = l

-----------------------------------------------------------------------------
(* xmain *)

(* Mutant: the personality is not changed before execve. *)
Persona_Same(p) == p

(* The personality reexec sets before it calls execve. *)
Persona(p) == TRUE

(* set_vsyscall_entry, then reexec, when the personality is right. *)
NoReexec ==
    /\ stage = "start" /\ norandom
    /\ sysinfo' = "wrapped"
    /\ Goto("load")
    /\ UNCHANGED <<start, norandom, args, selected, fd, text, prot, saved, log, sz, ckpt>>

(* What execve leaves of ADDR_NO_RANDOMIZE: PER_CLEAR_ON_SETID. *)
KeptByExec(p) == p /\ ~start.setid

(* The process starts again from a fresh stack. *)
Reexec ==
    /\ stage = "start" /\ ~norandom
    /\ start.path
    /\ norandom' = KeptByExec(Persona(norandom))
    /\ UNCHANGED <<start, stage, sysinfo, args, selected, fd, text, prot, saved, log, sz, ckpt>>

(* "execve failed": FATAL. *)
ReexecFails ==
    /\ stage = "start" /\ ~norandom
    /\ ~start.path
    /\ norandom' = Persona(norandom)
    /\ sysinfo' = "wrapped"
    /\ Goto("dead")
    /\ UNCHANGED <<start, args, selected, fd, text, prot, saved, log, sz, ckpt>>

(* load_exec of a process that came through its interpreter. *)
LoadedByKernel ==
    /\ stage = "load" /\ start.byinterp
    /\ Goto("conf")
    /\ UNCHANGED <<start, norandom, sysinfo, args, selected, fd, text, prot, saved, log, sz, ckpt>>

(* The topmost argument is removed from the stack. *)
ShiftArgs(a) == Tail(a)

(* load_exec of a loader that was run by hand. *)
LoadExec ==
    /\ stage = "load" /\ ~start.byinterp
    /\ Len(args) >= 2
    /\ args' = ShiftArgs(args)
    /\ Goto("conf")
    /\ UNCHANGED <<start, norandom, sysinfo, selected, fd, text, prot, saved, log, sz, ckpt>>

(* usage(): FATAL. *)
Usage ==
    /\ stage = "load" /\ ~start.byinterp
    /\ Len(args) < 2
    /\ Goto("dead")
    /\ UNCHANGED <<start, norandom, sysinfo, args, selected, fd, text, prot, saved, log, sz, ckpt>>

(* What is left of a result in an int. *)
IntOf(v) == ((v + INT_MAX + 1) % (2 * INT_MAX + 2)) - (INT_MAX + 1)

(* _atoi reads the digits up to the first character that is none. *)
Atoi(x) ==
    LET n == CHOOSE n \in 0 .. Len(x) : /\ \A i \in 1 .. n : x[i] # Minus
                                        /\ n < Len(x) => x[n + 1] = Minus
        s[i \in 0 .. n] == IF i = 0 THEN 0 ELSE IntOf(IntOf(10 * s[i - 1]) + x[i])
    IN  s[n]

(* Mutant: a setting that is already made is not made again. *)
check_var_First(conf, e) ==
    CASE e.key = "SNITCHASER_USE" -> [conf EXCEPT !.use_rebranch = e.val # <<0>>]
      [] e.key = "SNITCHASER_SAMPLING" ->
            [conf EXCEPT !.sampling = IF @ = -1 THEN Atoi(e.val) ELSE @]
      [] OTHER -> conf

(* Only "0" itself turns SNITCHASER_USE off. *)
check_var(conf, e) ==
    CASE e.key = "SNITCHASER_USE" -> [conf EXCEPT !.use_rebranch = e.val # <<0>>]
      [] e.key = "SNITCHASER_SAMPLING" -> [conf EXCEPT !.sampling = Atoi(e.val)]
      [] OTHER -> conf

(* env_conf, when read_env_conf has gone through the environment. *)
read_env_conf ==
    LET conf[i \in 0 .. Len(start.env)] ==
            IF i = 0 THEN [use_rebranch |-> TRUE, sampling |-> -1]
            ELSE check_var(conf[i - 1], start.env[i])
    IN  conf[Len(start.env)]

(* sampling(), with the random number sel. *)
Sampled(sel) == read_env_conf.sampling < 0 \/ sel < read_env_conf.sampling

Selects(sel) == Sampled(sel) /\ read_env_conf.use_rebranch = TRUE

(* The end of xmain; the program, or ld-linux.so.2, is entered at once     *)
(* unless snitchaser_main is to run.                                       *)
Sampling ==
    /\ stage = "conf"
    /\ \E sel \in Selections :
          /\ selected' = Selects(sel)
          /\ Goto(CASE Selects(sel) -> "main"
                    [] ~Selects(sel) /\ start.dynamic -> "ldso"
                    [] OTHER -> "entry")
    /\ UNCHANGED <<start, norandom, sysinfo, args, fd, text, prot, saved, log, sz, ckpt>>

-----------------------------------------------------------------------------
(* snitchaser_main and the patch *)

(* The test of patch_user_entry before it patches. *)
PatchFits(e) == e + PATCH_SZ < TextSz

Patched(e) == e .. e + PATCH_SZ - 1

(* do_patch at entry e. *)
DoPatch(t, e) == [b \in DOMAIN t |-> IF b \in Patched(e) THEN "jmp" ELSE t[b]]

(* Mutant: the bytes are saved after they are patched. *)
SavePatch_Late(t, e, p) == [bytes |-> [b \in Patched(e) |-> DoPatch(t, e)[b]], prot |-> p]

(* arch_patch_user_entry keeps the bytes it is going to overwrite and the  *)
(* protection the mapping had.                                             *)
SavePatch(t, e, p) == [bytes |-> [b \in Patched(e) |-> t[b]], prot |-> p]

(* What xlogger_init returns: the descriptor of the log, or 1. *)
OpenLog == {1, 3}

(* snitchaser_main: the TLS area is set up (TlsArea), xlogger_init opens   *)
(* the log and the entry is patched.                                       *)
SnitchaserMain ==
    /\ stage = "main" /\ PatchFits(start.entry)
    /\ fd' \in OpenLog
    /\ saved' = SavePatch(text, start.entry, prot)
    /\ text' = DoPatch(text, start.entry)
    /\ Goto(IF start.dynamic THEN "ldso" ELSE "entry")
    /\ UNCHANGED <<start, norandom, sysinfo, args, selected, prot, log, sz, ckpt>>

(* "You have a very strange executable": FATAL. *)
StrangeExecutable ==
    /\ stage = "main" /\ ~PatchFits(start.entry)
    /\ fd' \in OpenLog
    /\ Goto("dead")
    /\ UNCHANGED <<start, norandom, sysinfo, args, selected, text, prot, saved, log, sz, ckpt>>

-----------------------------------------------------------------------------
(* The dynamic linker, the entry and the program *)

Logged == fd = 3

(* Mutant: the write is not added to logger_sz. *)
AddSz_Not(n) == n

(* logger_sz += size, for the record that is written. *)
AddSz(n) == n + 1

CanWrite == fd # 0 \/ start.stdin

(* A call of the dynamic linker or the program goes through the entry they *)
(* found in AT_SYSINFO, wrapped_syscall_entry, which logs it (SyscallLog). *)
Syscall ==
    /\ stage \in {"ldso", "user"} /\ sysinfo = "wrapped"
    /\ sz < MaxCalls
    /\ CanWrite
    /\ sz' = AddSz(sz)
    /\ log' = IF Logged THEN log + 1 ELSE log
    /\ UNCHANGED <<start, stage, norandom, sysinfo, args, selected, fd, text, prot, saved, ckpt>>

(* The write to logger_fd fails: CASSERT(err == (__sz)). *)
SyscallDies ==
    /\ stage \in {"ldso", "user"} /\ sysinfo = "wrapped"
    /\ ~CanWrite
    /\ Goto("dead")
    /\ UNCHANGED <<start, norandom, sysinfo, args, selected, fd, text, prot, saved, log, sz, ckpt>>

(* A relocation adds to the byte that is there. *)
Relocated(t, R) ==
    [b \in DOMAIN t |-> IF b \notin R THEN t[b] ELSE IF t[b] = "jmp" THEN "bad" ELSE "reloc"]

(* The dynamic linker knows nothing of the patch.  It relocates the        *)
(* program, the mapping with the entry too if the program has text         *)
(* relocations, and goes to the entry.                                     *)
LdsoDone ==
    /\ stage = "ldso"
    /\ text' = Relocated(text, start.reloc)
    /\ prot' = start.ldprot
    /\ Goto("entry")
    /\ UNCHANGED <<start, norandom, sysinfo, args, selected, fd, saved, log, sz, ckpt>>

Mangled == \E b \in Patched(start.entry) \cap Bytes : text[b] = "bad"

AtPatch == text[start.entry] = "jmp" /\ ~Mangled

(* A jump that was relocated leads anywhere. *)
JumpLost ==
    /\ stage = "entry" /\ Mangled
    /\ Goto("lost")
    /\ UNCHANGED <<start, norandom, sysinfo, args, selected, fd, text, prot, saved, log, sz, ckpt>>

(* The program's first instruction, where nothing was patched. *)
EnterUnpatched ==
    /\ stage = "entry" /\ ~AtPatch /\ ~Mangled
    /\ Goto("user")
    /\ UNCHANGED <<start, norandom, sysinfo, args, selected, fd, text, prot, saved, log, sz, ckpt>>

(* Mutant: the mapping is put back as it was when it was patched. *)
Unpatch_All(t) == Orig

(* unpatch_user_entry. *)
Unpatch(t) == [b \in DOMAIN t |-> IF b \in DOMAIN saved.bytes THEN saved.bytes[b] ELSE t[b]]

(* Mutant: the checkpoint is taken before the patch is undone. *)
Image_Patched(t) == [text |-> text, pc |-> start.entry, sz |-> sz, log |-> log]

(* What fork_checkpoint saves of the state here (Checkpoint): the text and *)
(* logger_sz as they are in memory, and pc; log is history.                *)
Image(t) == [text |-> t, pc |-> start.entry, sz |-> sz, log |-> log]

(* arch_user_entry: the patch is undone, enter_user_entry takes the        *)
(* checkpoint, gives the thread its logger, and resumes at the entry.      *)
EnterUser ==
    /\ stage = "entry" /\ AtPatch
    /\ text' = Unpatch(text)
    /\ prot' = saved.prot
    /\ ckpt' = Image(text')
    /\ Goto("user")
    /\ UNCHANGED <<start, norandom, sysinfo, args, selected, fd, saved, log, sz>>

(* fork_checkpoint fails an assertion. *)
EnterUserDies ==
    /\ stage = "entry" /\ AtPatch
    /\ text' = Unpatch(text)
    /\ prot' = saved.prot
    /\ Goto("dead")
    /\ UNCHANGED <<start, norandom, sysinfo, args, selected, fd, saved, log, sz, ckpt>>

Advance ==
    \/ NoReexec \/ Reexec \/ ReexecFails \/ LoadedByKernel \/ LoadExec \/ Usage
    \/ Sampling \/ SnitchaserMain \/ StrangeExecutable \/ LdsoDone
    \/ JumpLost \/ EnterUnpatched \/ EnterUser \/ EnterUserDies

Next == Advance \/ Syscall \/ SyscallDies

Spec == Init /\ [][Next]_vars

(* The process keeps running, and the dynamic linker comes to its end. *)
FairSpec == Spec /\ WF_vars(Advance)

-----------------------------------------------------------------------------
(* Properties *)

Stages == {"start", "load", "conf", "main", "ldso", "entry", "user", "dead", "lost"}

(* The types of the state above. *)
TypeOK ==
    /\ start \in Starts
    /\ stage \in Stages
    /\ norandom \in BOOLEAN /\ selected \in BOOLEAN
    /\ sysinfo \in {"vdso", "wrapped"}
    /\ fd \in {0, 1, 3}
    /\ text \in [Bytes -> {"orig", "jmp", "reloc", "bad"}]
    /\ prot \in {"rx", "rwx"}
    /\ log \in Nat /\ sz \in Nat

(* The mapping as the program has it when nothing traces it. *)
Linked == Relocated(Orig, start.reloc)

(* Traced or not, a program that runs has the bytes its file and the       *)
(* dynamic linker gave it: unpatch_user_entry does not take back what was  *)
(* relocated between patching and unpatching.  It has the protection the   *)
(* linker left if that is also the one it was loaded with, and the         *)
(* argument vector without the loader's name in front.  A process gets     *)
(* lost only where the linker relocates the bytes of the patch.            *)
ProgramUnharmed ==
    /\ stage = "user" =>
        /\ text = Linked
        /\ start.ldprot = start.prot => prot = start.prot
        /\ args = IF start.byinterp THEN start.argv ELSE Tail(start.argv)
    /\ stage = "lost" => selected /\ start.reloc \cap Patched(start.entry) # {}

(* A selected process does not execute its first instruction before its    *)
(* checkpoint is taken, at the entry and of the program's own bytes as the *)
(* dynamic linker left them, and no process that is not selected leaves    *)
(* one.                                                                    *)
CheckpointAtEntry ==
    /\ stage = "user" /\ selected =>
          /\ ckpt # <<>>
          /\ ckpt.pc = start.entry
          /\ ckpt.text = Linked
    /\ ~selected => ckpt = <<>>

(* The logger_sz in a checkpoint tells how much of the log, the dynamic    *)
(* linker's calls, is older than the checkpoint.                           *)
CheckpointKnowsLog == ckpt # <<>> /\ Logged => ckpt.sz = ckpt.log

(* The patch is never more than the jump: every byte outside it, and the   *)
(* bytes put aside, are the program's.                                     *)
PatchInside ==
    /\ saved # <<>> => /\ DOMAIN saved.bytes \subseteq Bytes
                       /\ \A b \in DOMAIN saved.bytes : saved.bytes[b] = "orig"
    /\ \A b \in Bytes : text[b] \in {"jmp", "bad"} =>
          saved # <<>> /\ b \in DOMAIN saved.bytes

(* The last setting of a variable in the environment. *)
Last(key, i) ==
    /\ i \in DOMAIN start.env /\ start.env[i].key = key
    /\ \A j \in i + 1 .. Len(start.env) : start.env[j].key # key

(* x are the decimal digits of n: the remainders of dividing by ten, from  *)
(* the last to the first, with nothing left in the end.                    *)
Decimal(x, n) ==
    LET q[k \in 0 .. Len(x)] == IF k = 0 THEN n ELSE q[k - 1] \div 10
    IN  /\ q[Len(x)] = 0
        /\ \A k \in 1 .. Len(x) : x[Len(x) + 1 - k] = q[k - 1] % 10

(* Which processes are traced is what the last settings say: none with     *)
(* SNITCHASER_USE=0, otherwise n of a thousand with a SNITCHASER_SAMPLING  *)
(* of n that fits in an int, and all without one.                          *)
SamplingObeyed ==
    stage = "conf" => \A sel \in Selections :
        LET used == \A i \in DOMAIN start.env :
                        Last("SNITCHASER_USE", i) => start.env[i].val # <<0>>
        IN  /\ Selects(sel) => used
            /\ used /\ (\A i \in DOMAIN start.env : start.env[i].key # "SNITCHASER_SAMPLING")
                  => Selects(sel)
            /\ \A i \in DOMAIN start.env : Last("SNITCHASER_SAMPLING", i) =>
                  \A n \in 0 .. INT_MAX :
                      Decimal(start.env[i].val, n) => (Selects(sel) <=> used /\ sel < n)

(* Where execve keeps the personality that reexec sets, the process does   *)
(* not execute itself for ever: it comes to its program, to a FATAL, or to *)
(* a jump that the linker has relocated.                                   *)
BootEnds == ~start.setid => <>(stage \in {"user", "dead", "lost"})

(* CASSERT(err == (__sz)) in the logging macro: no process dies of its log *)
(* not being writable, least of all one that is not selected.              *)
LogWritable == stage \in {"ldso", "user"} /\ sysinfo = "wrapped" => CanWrite
=============================================================================
