----------------------------- MODULE BootProofs -----------------------------
(* The safety properties of Boot, for every size of the mapping and of the *)
(* patch, every environment and every sequence of calls, and those of      *)
(* ObjMm, the allocator of mm.c: its objects are disjoint and inside their *)
(* buckets.                                                                *)
EXTENDS Boot, ObjMm, WellFoundedInduction, TLAPS

(* Where the process is, seen from the patch. *)
Before == {"start", "load", "conf", "main"}
Between == {"ldso", "entry"}

TypeInv ==
    /\ start \in Starts /\ stage \in Stages
    /\ norandom \in BOOLEAN /\ selected \in BOOLEAN
    /\ sysinfo \in {"vdso", "wrapped"} /\ fd \in {0, 1, 3}
    /\ prot \in {start.prot, start.ldprot}
    /\ ~start.dynamic => start.reloc = {}
    /\ log \in Nat /\ sz \in Nat

ProgramArgs == IF start.byinterp THEN start.argv ELSE Tail(start.argv)

ArgsInv ==
    /\ stage \in {"start", "load"} => args = start.argv
    /\ stage \in {"conf", "main", "ldso", "entry", "user"} => args = ProgramArgs

SavedOk ==
    /\ Patched(start.entry) \subseteq Bytes
    /\ saved = SavePatch(Orig, start.entry, start.prot)

JumpText == DoPatch(Orig, start.entry)

(* The mapping before and after the dynamic linker, without and with the   *)
(* patch, and when the patch is undone.                                    *)
Clean == text = Orig /\ saved = <<>>
LinkedClean == text = Linked /\ saved = <<>>
Jump == text = JumpText /\ SavedOk
LinkedJump == text = Relocated(JumpText, start.reloc) /\ SavedOk
Undone == text = Linked /\ SavedOk

PatchInv ==
    /\ stage \in Before => Clean /\ prot = start.prot
    /\ stage = "ldso" => IF selected THEN Jump ELSE Clean
    /\ stage = "entry" => IF selected THEN LinkedJump ELSE LinkedClean
    /\ stage = "user" => IF selected THEN Undone ELSE LinkedClean
    /\ stage = "dead" => Clean \/ LinkedClean \/ Jump \/ Undone
    /\ stage = "lost" => /\ selected /\ LinkedJump
                         /\ start.reloc \cap Patched(start.entry) # {}

LogInv ==
    /\ stage \in Before => sz = 0 /\ log = 0
    /\ Logged => selected
    /\ selected /\ Logged => sz = log

CkptInv ==
    /\ stage \in {"start", "load", "conf"} => ~selected
    /\ stage = "main" => selected
    /\ ~selected \/ stage \in Before \cup Between => ckpt = <<>>
    /\ stage = "user" /\ selected =>
          ckpt = [text |-> Linked, pc |-> start.entry, sz |-> ckpt.sz, log |-> ckpt.log]
    /\ stage = "dead" /\ ckpt # <<>> =>
          ckpt = [text |-> Linked, pc |-> start.entry, sz |-> ckpt.sz, log |-> ckpt.log]
    /\ ckpt # <<>> /\ Logged => ckpt.sz = ckpt.log

IInv == TypeInv /\ ArgsInv /\ PatchInv /\ LogInv /\ CkptInv

-----------------------------------------------------------------------------
(* What the patch puts aside is not the empty tuple. *)
LEMMA SavedNotEmpty ==
    ASSUME NEW t, NEW e, NEW p
    PROVE  SavePatch(t, e, p) # <<>>
<1>1. DOMAIN SavePatch(t, e, p) = {"bytes", "prot"}
  BY DEF SavePatch
<1>2. DOMAIN <<>> = {}
  OBVIOUS
<1> QED BY <1>1, <1>2

(* The bytes patch_user_entry overwrites are in the mapping. *)
LEMMA PatchInMapping ==
    ASSUME NEW e \in Bytes, PatchFits(e)
    PROVE  Patched(e) \subseteq Bytes
BY BootAssumption DEF Bytes, PatchFits, Patched

(* The bytes of the two texts. *)
LEMMA Texts ==
    ASSUME start \in Starts
    PROVE  /\ Linked = [b \in Bytes |-> IF b \in start.reloc THEN "reloc" ELSE "orig"]
           /\ JumpText = [b \in Bytes |-> IF b \in Patched(start.entry) THEN "jmp" ELSE "orig"]
           /\ Relocated(JumpText, start.reloc) =
                [b \in Bytes |->
                   IF b \in start.reloc
                   THEN IF b \in Patched(start.entry) THEN "bad" ELSE "reloc"
                   ELSE IF b \in Patched(start.entry) THEN "jmp" ELSE "orig"]
<1>1. Linked = [b \in Bytes |-> IF b \in start.reloc THEN "reloc" ELSE "orig"]
  BY DEF Linked, Relocated, Orig
<1>2. JumpText = [b \in Bytes |-> IF b \in Patched(start.entry) THEN "jmp" ELSE "orig"]
  BY DEF JumpText, DoPatch, Orig
<1>3. Relocated(JumpText, start.reloc) =
        [b \in Bytes |->
           IF b \in start.reloc
           THEN IF b \in Patched(start.entry) THEN "bad" ELSE "reloc"
           ELSE IF b \in Patched(start.entry) THEN "jmp" ELSE "orig"]
  BY <1>2 DEF Relocated
<1> QED BY <1>1, <1>2, <1>3

(* Without a dynamic linker nothing is relocated. *)
LEMMA NoReloc ==
    ASSUME start \in Starts, start.reloc = {}
    PROVE  Linked = Orig /\ Relocated(JumpText, start.reloc) = JumpText
BY Texts DEF Orig

(* What jumps from the entry: a relocated patch is mangled exactly where   *)
(* the relocations and the patch meet.                                     *)
LEMMA JumpFacts ==
    ASSUME start \in Starts, LinkedJump
    PROVE  /\ Mangled <=> start.reloc \cap Patched(start.entry) # {}
           /\ ~Mangled => text[start.entry] = "jmp"
<1>1. text = [b \in Bytes |->
                IF b \in start.reloc
                THEN IF b \in Patched(start.entry) THEN "bad" ELSE "reloc"
                ELSE IF b \in Patched(start.entry) THEN "jmp" ELSE "orig"]
  BY Texts DEF LinkedJump
<1>2. Patched(start.entry) \subseteq Bytes
  BY DEF LinkedJump, SavedOk
<1>3. Mangled <=> start.reloc \cap Patched(start.entry) # {}
  BY <1>1, <1>2 DEF Mangled
<1>4. start.entry \in Bytes /\ start.entry \in Patched(start.entry)
  BY BootAssumption DEF Starts, Bytes, Patched
<1>5. ~Mangled => start.entry \notin start.reloc
  BY <1>3, <1>4
<1> QED BY <1>1, <1>3, <1>4, <1>5

(* Without a patch nothing is a jump. *)
LEMMA CleanFacts ==
    ASSUME start \in Starts, LinkedClean
    PROVE  ~Mangled /\ text[start.entry] # "jmp"
<1>1. text = [b \in Bytes |-> IF b \in start.reloc THEN "reloc" ELSE "orig"]
  BY Texts DEF LinkedClean
<1>2. start.entry \in Bytes
  BY DEF Starts
<1> QED BY <1>1, <1>2 DEF Mangled

(* Undoing the patch gives the mapping that the linker would have left     *)
(* without it.                                                             *)
LEMMA UnpatchRestores ==
    ASSUME start \in Starts, LinkedJump, ~Mangled
    PROVE  Unpatch(text) = Linked
<1>1. DOMAIN saved.bytes = Patched(start.entry)
  BY DEF LinkedJump, SavedOk, SavePatch
<1>2. text = [b \in Bytes |->
                IF b \in start.reloc
                THEN IF b \in Patched(start.entry) THEN "bad" ELSE "reloc"
                ELSE IF b \in Patched(start.entry) THEN "jmp" ELSE "orig"]
  BY Texts DEF LinkedJump
<1>3. ASSUME NEW b \in Patched(start.entry) PROVE saved.bytes[b] = "orig" /\ b \notin start.reloc
  <2>1. b \in Bytes
    BY DEF LinkedJump, SavedOk
  <2>2. saved.bytes[b] = "orig"
    BY <2>1 DEF LinkedJump, SavedOk, SavePatch, Orig
  <2> QED BY <2>2, JumpFacts
<1>4. Unpatch(text) = [b \in Bytes |-> IF b \in Patched(start.entry)
                                       THEN saved.bytes[b] ELSE text[b]]
  BY <1>1, <1>2 DEF Unpatch
<1>5. \A b \in Bytes : Unpatch(text)[b] = IF b \in start.reloc THEN "reloc" ELSE "orig"
  BY <1>2, <1>3, <1>4
<1> QED BY <1>4, <1>5, Texts

-----------------------------------------------------------------------------
(* The invariant holds when the process starts. *)
LEMMA InitInv == Init => IInv
<1> SUFFICES ASSUME Init PROVE IInv
  OBVIOUS
<1>1. TypeInv
  BY Zenon DEF Init, TypeInv, Stages
<1>2. ArgsInv /\ PatchInv
  BY DEF Init, ArgsInv, PatchInv, Clean, Before
<1>3. LogInv /\ CkptInv
  BY DEF Init, LogInv, CkptInv, Logged
<1> QED BY <1>1, <1>2, <1>3 DEF IInv

(* The mapping stays what it is while nobody touches it. *)
LEMMA SameText ==
    ASSUME UNCHANGED <<start, text, saved>>
    PROVE  /\ Clean' <=> Clean
           /\ LinkedClean' <=> LinkedClean
           /\ Jump' <=> Jump
           /\ LinkedJump' <=> LinkedJump
           /\ Undone' <=> Undone
<1>1. SavedOk' <=> SavedOk
  BY Zenon DEF SavedOk, SavePatch, Patched
<1>2. Linked' = Linked /\ JumpText' = JumpText
  BY Zenon DEF Linked, JumpText, Relocated, DoPatch, Patched
<1> QED BY <1>1, <1>2, Zenon DEF Clean, LinkedClean, Jump, LinkedJump, Undone, Relocated

(* Every step of the loader, the dynamic linker and the program keeps it. *)
LEMMA StepInv == IInv /\ [Next]_vars => IInv'
<1> SUFFICES ASSUME IInv, [Next]_vars PROVE IInv'
  OBVIOUS
<1>0. TypeInv /\ ArgsInv /\ PatchInv /\ LogInv /\ CkptInv
  BY DEF IInv
<1> USE DEF Goto, Before, Between
<1>1. CASE NoReexec \/ Reexec \/ ReexecFails
  <2> USE <1>0, <1>1 DEF NoReexec, Reexec, ReexecFails
  <2>1. TypeInv'
    BY Zenon DEF TypeInv, Stages, Persona, KeptByExec
  <2>2. ArgsInv'
    BY DEF ArgsInv, ProgramArgs
  <2>3. PatchInv'
    BY SameText DEF PatchInv
  <2>4. LogInv' /\ CkptInv'
    BY DEF LogInv, CkptInv, Logged
  <2> QED BY <2>1, <2>2, <2>3, <2>4 DEF IInv
<1>2. CASE LoadedByKernel \/ LoadExec \/ Usage
  <2> USE <1>0, <1>2 DEF LoadedByKernel, LoadExec, Usage
  <2>1. TypeInv'
    BY DEF TypeInv, Stages
  <2>2. ArgsInv'
    BY DEF ArgsInv, ProgramArgs, ShiftArgs
  <2>3. PatchInv'
    BY SameText DEF PatchInv
  <2>4. LogInv' /\ CkptInv'
    BY DEF LogInv, CkptInv, Logged
  <2> QED BY <2>1, <2>2, <2>3, <2>4 DEF IInv
<1>3. CASE Sampling
  <2>1. PICK sel \in Selections :
          /\ selected' = Selects(sel)
          /\ stage' = CASE Selects(sel) -> "main"
                        [] ~Selects(sel) /\ start.dynamic -> "ldso"
                        [] OTHER -> "entry"
    BY <1>3 DEF Sampling
  <2>2. selected' \in BOOLEAN
    BY <2>1 DEF Selects, Sampled
  <2>3. \/ selected' /\ stage' = "main"
        \/ ~selected' /\ stage' = "ldso"
        \/ ~selected' /\ stage' = "entry" /\ ~start.dynamic
    BY <2>1, <2>2
  <2> USE <1>0, <1>3, <2>2, <2>3 DEF Sampling
  <2>4. TypeInv'
    BY DEF TypeInv, Stages
  <2>5. ArgsInv'
    BY DEF ArgsInv, ProgramArgs
  <2>6. PatchInv'
    <3>1. Clean /\ prot = start.prot
      BY DEF PatchInv
    <3>2. ~start.dynamic => LinkedClean
      BY <3>1, NoReloc DEF TypeInv, Clean, LinkedClean
    <3>3. start' = start /\ prot' = prot /\ Clean' /\ (~start.dynamic => LinkedClean')
      BY <3>1, <3>2, SameText
    <3> QED BY <3>1, <3>3 DEF PatchInv
  <2>7. LogInv' /\ CkptInv'
    BY DEF LogInv, CkptInv, Logged
  <2> QED BY <2>4, <2>5, <2>6, <2>7 DEF IInv
<1>4. CASE SnitchaserMain
  <2> USE <1>0, <1>4 DEF SnitchaserMain
  <2>1. TypeInv'
    BY DEF TypeInv, Stages, OpenLog
  <2>2. ArgsInv'
    BY DEF ArgsInv, ProgramArgs
  <2>3. Patched(start.entry) \subseteq Bytes
    BY PatchInMapping DEF TypeInv, Starts
  <2>4. Jump' /\ selected'
    BY <2>3 DEF Jump, JumpText, SavedOk, TypeInv, PatchInv, CkptInv, Clean, SavePatch, DoPatch, Patched
  <2>5. stage' = "ldso" \/ (stage' = "entry" /\ ~start'.dynamic)
    OBVIOUS
  <2>6. PatchInv'
    <3>1. ~start'.dynamic => LinkedJump'
      <4>1. start' \in Starts /\ (~start'.dynamic => start'.reloc = {})
        BY <2>1 DEF TypeInv
      <4>2. ~start'.dynamic => (Relocated(JumpText, start.reloc) = JumpText)'
        BY <4>1, NoReloc DEF TypeInv, Linked, JumpText, Relocated, DoPatch, Patched
      <4> QED BY <2>4, <4>2 DEF LinkedJump, Jump
    <3> QED BY <2>4, <2>5, <3>1 DEF PatchInv
  <2>7. LogInv' /\ CkptInv'
    BY <2>5 DEF LogInv, CkptInv, Logged
  <2> QED BY <2>1, <2>2, <2>6, <2>7 DEF IInv
<1>5. CASE StrangeExecutable
  <2> USE <1>0, <1>5 DEF StrangeExecutable
  <2>1. TypeInv'
    BY DEF TypeInv, Stages, OpenLog
  <2>2. ArgsInv' /\ PatchInv'
    BY SameText DEF ArgsInv, ProgramArgs, PatchInv
  <2>3. LogInv' /\ CkptInv'
    BY DEF LogInv, CkptInv, Logged
  <2> QED BY <2>1, <2>2, <2>3 DEF IInv
<1>6. CASE Syscall
  <2> USE <1>0, <1>6 DEF Syscall
  <2>1. TypeInv'
    BY DEF TypeInv, Stages, AddSz
  <2>2. ArgsInv' /\ PatchInv'
    BY SameText DEF ArgsInv, ProgramArgs, PatchInv
  <2>3. LogInv'
    BY DEF TypeInv, LogInv, Logged, AddSz
  <2>4. CkptInv'
    BY DEF CkptInv, Logged, Linked
  <2> QED BY <2>1, <2>2, <2>3, <2>4 DEF IInv
<1>7. CASE SyscallDies \/ JumpLost
  <2> USE <1>0, <1>7 DEF SyscallDies, JumpLost
  <2>1. TypeInv' /\ ArgsInv'
    BY DEF TypeInv, Stages, ArgsInv, ProgramArgs
  <2>2. PatchInv'
    <3>1. CASE SyscallDies
      BY <3>1, SameText DEF PatchInv
    <3>2. CASE JumpLost
      <4>1. selected /\ LinkedJump
        BY <3>2, CleanFacts DEF PatchInv, TypeInv
      <4>2. start.reloc \cap Patched(start.entry) # {}
        BY <3>2, <4>1, JumpFacts DEF TypeInv
      <4> QED BY <3>2, <4>1, <4>2, SameText DEF PatchInv, Patched
    <3> QED BY <3>1, <3>2
  <2>3. LogInv'
    BY DEF LogInv, Logged
  <2>4. CkptInv'
    BY DEF CkptInv, Logged, Linked
  <2> QED BY <2>1, <2>2, <2>3, <2>4 DEF IInv
<1>8. CASE LdsoDone
  <2> USE <1>0, <1>8 DEF LdsoDone
  <2>1. TypeInv' /\ ArgsInv'
    BY DEF TypeInv, Stages, ArgsInv, ProgramArgs
  <2>2. PatchInv'
    <3>1. selected => LinkedJump'
      <4>1. selected => Jump
        BY DEF PatchInv
      <4>2. selected => SavedOk' /\ text' = Relocated(JumpText, start.reloc)
        BY <4>1, Zenon DEF Jump, SavedOk, SavePatch, Patched
      <4> QED BY <4>2, Zenon DEF LinkedJump, JumpText, Relocated, DoPatch, Patched
    <3>2. ~selected => LinkedClean'
      BY DEF PatchInv, Clean, LinkedClean, Linked
    <3> QED BY <3>1, <3>2 DEF PatchInv
  <2>3. LogInv' /\ CkptInv'
    BY DEF LogInv, CkptInv, Logged
  <2> QED BY <2>1, <2>2, <2>3 DEF IInv
<1>9. CASE EnterUnpatched
  <2> USE <1>0, <1>9 DEF EnterUnpatched
  <2>1. TypeInv' /\ ArgsInv'
    BY DEF TypeInv, Stages, ArgsInv, ProgramArgs
  <2>2. ~selected /\ LinkedClean
    BY JumpFacts DEF PatchInv, AtPatch, TypeInv
  <2>3. PatchInv'
    BY <2>2, SameText DEF PatchInv
  <2>4. LogInv' /\ CkptInv'
    BY <2>2 DEF LogInv, CkptInv, Logged
  <2> QED BY <2>1, <2>3, <2>4 DEF IInv
<1>10. CASE EnterUser \/ EnterUserDies
  <2> USE <1>0, <1>10 DEF EnterUser, EnterUserDies
  <2>1. selected /\ LinkedJump /\ ~Mangled
    BY CleanFacts DEF PatchInv, AtPatch, TypeInv
  <2>2. text' = Linked
    BY <2>1, UnpatchRestores, Zenon DEF TypeInv
  <2>3. saved.prot = start.prot
    BY <2>1 DEF LinkedJump, SavedOk, SavePatch
  <2>4. TypeInv' /\ ArgsInv'
    BY <2>3 DEF TypeInv, Stages, ArgsInv, ProgramArgs
  <2>5. Undone'
    BY <2>1, <2>2, Zenon DEF Undone, LinkedJump, SavedOk, SavePatch, Patched, Linked
  <2>6. PatchInv'
    BY <2>1, <2>5, Zenon DEF PatchInv
  <2>7. LogInv'
    BY DEF LogInv, Logged
  <2>8. CkptInv'
    <3>1. CASE EnterUser
      <4>1. ckpt' = [text |-> Linked, pc |-> start.entry, sz |-> sz, log |-> log]
        BY <2>2, <3>1 DEF Image
      <4>2. Logged' => ckpt'.sz = ckpt'.log
        BY <2>1, <4>1, Zenon DEF LogInv, Logged
      <4>3. Linked' = Linked
        BY DEF Linked
      <4> QED BY <2>1, <3>1, <4>1, <4>2, <4>3 DEF CkptInv
    <3>2. CASE EnterUserDies
      BY <2>1, <3>2 DEF CkptInv
    <3> QED BY <3>1, <3>2
  <2> QED BY <2>4, <2>6, <2>7, <2>8 DEF IInv
<1>11. CASE UNCHANGED vars
  <2>1. TypeInv' /\ ArgsInv' /\ LogInv'
    BY <1>0, <1>11 DEF vars, TypeInv, ArgsInv, ProgramArgs, LogInv, Logged
  <2>2. PatchInv'
    BY <1>0, <1>11, SameText DEF vars, PatchInv, Patched
  <2>3. CkptInv'
    BY <1>0, <1>11 DEF vars, CkptInv, Logged, Linked
  <2> QED BY <2>1, <2>2, <2>3 DEF IInv
<1> QED BY <1>1, <1>2, <1>3, <1>4, <1>5, <1>6, <1>7, <1>8, <1>9, <1>10, <1>11 DEF Next, Advance

(* The invariant the rest follows from. *)
THEOREM Invariance == Spec => []IInv
BY InitInv, StepInv, PTL DEF Spec

(* The process's state, the mapping with the entry included, keeps its     *)
(* type through the patch and its undoing.                                 *)
THEOREM TypeSafe == Spec => []TypeOK
<1>1. IInv => TypeOK
  <2> SUFFICES ASSUME IInv PROVE TypeOK
    OBVIOUS
  <2>1. text \in {Orig, Linked, JumpText, Relocated(JumpText, start.reloc)}
    BY DEF IInv, TypeInv, PatchInv, Stages, Before, Clean, LinkedClean, Jump, LinkedJump, Undone
  <2>2. text \in [Bytes -> {"orig", "jmp", "reloc", "bad"}]
    BY <2>1, Texts DEF IInv, TypeInv, Orig
  <2>3. prot \in {"rx", "rwx"}
    BY DEF IInv, TypeInv, Starts
  <2> QED BY <2>2, <2>3 DEF IInv, TypeInv, TypeOK
<1> QED BY <1>1, Invariance, PTL

(* For every mapping and patch, and whatever bytes the dynamic linker      *)
(* relocates between patching and unpatching: a program that runs has the  *)
(* bytes and the arguments it has without the loader, and the protection   *)
(* if the linker leaves that as it was.  Only a relocation of the patch    *)
(* itself leads a process astray.                                          *)
THEOREM ProgramSafe == Spec => []ProgramUnharmed
<1>1. IInv => ProgramUnharmed
  BY DEF IInv, TypeInv, ArgsInv, ProgramArgs, PatchInv, LinkedClean, Undone, ProgramUnharmed
<1> QED BY <1>1, Invariance, PTL

(* A selected program has been checkpointed, at its entry and unpatched,   *)
(* when it starts to run; an unselected one never is.                      *)
THEOREM CheckpointSafe == Spec => []CheckpointAtEntry
<1>1. IInv => CheckpointAtEntry
  <2> SUFFICES ASSUME IInv PROVE CheckpointAtEntry
    OBVIOUS
  <2>1. CASE stage = "user" /\ selected
    <3>1. ckpt = [text |-> Linked, pc |-> start.entry, sz |-> ckpt.sz, log |-> ckpt.log]
      BY <2>1 DEF IInv, CkptInv
    <3>2. DOMAIN ckpt = {"text", "pc", "sz", "log"}
      BY <3>1
    <3>3. ckpt # <<>>
      <4>1. DOMAIN <<>> = {}
        OBVIOUS
      <4> QED BY <3>2, <4>1
    <3> QED BY <2>1, <3>1, <3>3 DEF CheckpointAtEntry
  <2> QED BY <2>1 DEF IInv, CkptInv, CheckpointAtEntry
<1> QED BY <1>1, Invariance, PTL

(* The size in a checkpoint is that of the log when it was taken. *)
THEOREM LogOffsetSafe == Spec => []CheckpointKnowsLog
<1>1. IInv => CheckpointKnowsLog
  BY DEF IInv, CkptInv, CheckpointKnowsLog
<1> QED BY <1>1, Invariance, PTL

(* The patch stays inside the mapping and what it overwrote is kept. *)
THEOREM PatchSafe == Spec => []PatchInside
<1>1. IInv => PatchInside
  <2> SUFFICES ASSUME IInv PROVE PatchInside
    OBVIOUS
  <2>1. start \in Starts
    BY DEF IInv, TypeInv
  <2>2. Clean \/ LinkedClean => PatchInside
    BY <2>1, Texts DEF Clean, LinkedClean, Orig, PatchInside
  <2>3. SavedOk => /\ saved # <<>>
                   /\ DOMAIN saved.bytes = Patched(start.entry)
                   /\ DOMAIN saved.bytes \subseteq Bytes
                   /\ \A b \in DOMAIN saved.bytes : saved.bytes[b] = "orig"
    BY SavedNotEmpty DEF SavedOk, SavePatch, Orig
  <2>4. Undone => PatchInside
    BY <2>1, <2>3, Texts DEF Undone, PatchInside
  <2>5. Jump \/ LinkedJump => PatchInside
    BY <2>1, <2>3, Texts DEF Jump, LinkedJump, PatchInside
  <2> QED BY <2>2, <2>4, <2>5 DEF IInv, TypeInv, Stages, PatchInv, Before
<1> QED BY <1>1, Invariance, PTL

-----------------------------------------------------------------------------
(* _atoi and read_env_conf are loops, recursive functions in the model; a  *)
(* recursive function is known only when one with its equation exists.     *)

(* A set of numbers has a least element. *)
LEMMA Least ==
    ASSUME NEW T, T \subseteq Nat, T # {}
    PROVE  \E x \in T : \A y \in T : x <= y
<1>1. PICK x \in T : \A y \in T : ~(<<y, x>> \in OpToRel(<, Nat))
  BY NatLessThanWellFounded, WFMin, Zenon
<1>2. \A y \in T : ~(y < x)
  BY <1>1, Zenon DEF OpToRel
<1> QED
  BY <1>2

(* A set of numbers that has 0 and with every number below n the next one  *)
(* has all numbers up to n.                                                *)
LEMMA UpTo ==
    ASSUME NEW n \in Nat, NEW T, 0 \in T,
           \A i \in 0 .. n - 1 : i \in T => i + 1 \in T
    PROVE  \A i \in 0 .. n : i \in T
<1> DEFINE U == {i \in 0 .. n : i \notin T}
<1>1. SUFFICES ASSUME U # {} PROVE FALSE
  OBVIOUS
<1>2. PICK m \in U : \A i \in U : m <= i
  <2>1. U \subseteq Nat
    OBVIOUS
  <2> HIDE DEF U
  <2> QED
    BY <1>1, <2>1, Least
<1>3. m \in 1 .. n /\ m \notin T
  BY <1>2
<1>4. m - 1 \in 0 .. n - 1 /\ m - 1 \notin U
  BY <1>2, <1>3
<1>5. m - 1 \in T
  BY <1>4
<1> QED
  BY <1>3, <1>4, <1>5

(* The function that a loop of n rounds computes exists: a is the value    *)
(* before the first round and G[i][v] the one after round i, if it is  *)
(* v before.                                                               *)
Loop(f, n, V, a, G) ==
    /\ f \in [0 .. n -> V]
    /\ f[0] = a
    /\ \A i \in 1 .. n : f[i] = G[i][f[i - 1]]

LEMMA LoopExists ==
    ASSUME NEW n \in Nat, NEW V, NEW a \in V, NEW G \in [1 .. n -> [V -> V]]
    PROVE  \E f : Loop(f, n, V, a, G)
<1> DEFINE Upto(m, f) == f[0] = a /\ \A i \in 1 .. m : f[i] = G[i][f[i - 1]]
           T == {m \in 0 .. n : \E f \in [0 .. n -> V] : Upto(m, f)}
<1>1. 0 \in T
  <2>1. [i \in 0 .. n |-> a] \in [0 .. n -> V] /\ Upto(0, [i \in 0 .. n |-> a])
    OBVIOUS
  <2>2. 0 \in 0 .. n
    OBVIOUS
  <2> QED
    BY <2>1, <2>2, Zenon
<1>2. ASSUME NEW m \in 0 .. n - 1, m \in T PROVE m + 1 \in T
  <2>1. PICK f \in [0 .. n -> V] : Upto(m, f)
    BY <1>2
  <2> DEFINE g == [f EXCEPT ![m + 1] = G[m + 1][f[m]]]
  <2>2. m + 1 \in 1 .. n /\ m \in 0 .. n /\ f[m] \in V
    BY <2>1
  <2>3. G[m + 1][f[m]] \in V
    BY <2>2
  <2>4. g \in [0 .. n -> V]
    BY <2>2, <2>3
  <2>5. \A i \in 0 .. m : g[i] = f[i]
    BY <2>1, <2>2
  <2>6. g[m + 1] = G[m + 1][g[m]]
    BY <2>2, <2>5
  <2>7. ASSUME NEW i \in 1 .. m PROVE g[i] = G[i][g[i - 1]]
    <3>1. i \in 0 .. m /\ i - 1 \in 0 .. m
      OBVIOUS
    <3>2. f[i] = G[i][f[i - 1]]
      BY <2>1
    <3> HIDE DEF g
    <3> QED
      BY <2>5, <3>1, <3>2
  <2>8. g[0] = a
    BY <2>1, <2>5
  <2> HIDE DEF g
  <2>9. \A i \in 1 .. m + 1 : g[i] = G[i][g[i - 1]]
    <3> SUFFICES ASSUME NEW i \in 1 .. m + 1 PROVE g[i] = G[i][g[i - 1]]
      OBVIOUS
    <3>1. CASE i = m + 1
      <4>1. i - 1 = m
        BY <3>1
      <4> QED
        BY <2>6, <3>1, <4>1
    <3>2. CASE i # m + 1
      BY <2>7, <3>2
    <3> QED
      BY <3>1, <3>2
  <2> QED
    BY <2>2, <2>4, <2>8, <2>9
<1> HIDE DEF T
<1>3. n \in T
  <2>1. \A i \in 0 .. n : i \in T
    BY <1>1, <1>2, UpTo, SMTT(30)
  <2> QED
    BY <2>1
<1> QED
  BY <1>3 DEF T, Loop
-----------------------------------------------------------------------------
(* What repeated division by ten leaves of n. *)
LEMMA Quotients ==
    ASSUME NEW L \in Nat, NEW n \in Nat,
           NEW q, q = CHOOSE r : r = [k \in 0 .. L |-> IF k = 0 THEN n ELSE r[k - 1] \div 10]
    PROVE  /\ q[0] = n
           /\ \A k \in 1 .. L : q[k] = q[k - 1] \div 10
           /\ \A k \in 0 .. L : q[k] \in 0 .. n
<1> DEFINE G == [k \in 1 .. L |-> [v \in Nat |-> v \div 10]]
<1>1. G \in [1 .. L -> [Nat -> Nat]]
  OBVIOUS
<1>2. PICK f : Loop(f, L, Nat, n, G)
  <2> HIDE DEF G
  <2> QED
    BY <1>1, LoopExists, Zenon
<1>3. \A i \in 1 .. L : f[i] = f[i - 1] \div 10
  <2> SUFFICES ASSUME NEW i \in 1 .. L PROVE f[i] = f[i - 1] \div 10
    OBVIOUS
  <2>1. f[i - 1] \in Nat
    BY <1>2 DEF Loop
  <2> QED
    BY <1>2, <2>1 DEF Loop
<1>4. f = [k \in 0 .. L |-> IF k = 0 THEN n ELSE f[k - 1] \div 10]
  BY <1>2, <1>3 DEF Loop
<1>5. q = [k \in 0 .. L |-> IF k = 0 THEN n ELSE q[k - 1] \div 10]
  BY <1>4, Zenon
<1>6. q[0] = n /\ \A k \in 1 .. L : q[k] = q[k - 1] \div 10
  <2> DEFINE g == [k \in 0 .. L |-> IF k = 0 THEN n ELSE q[k - 1] \div 10]
  <2>1. g[0] = n /\ \A k \in 1 .. L : g[k] = q[k - 1] \div 10
    OBVIOUS
  <2> HIDE DEF g
  <2>2. q = g
    BY <1>5, Zenon DEF g
  <2> QED
    BY <2>1, <2>2, Zenon
<1> DEFINE T == {k \in 0 .. L : q[k] \in 0 .. n}
<1>7. \A k \in 0 .. L : k \in T
  <2>1. 0 \in T
    BY <1>6
  <2>2. ASSUME NEW k \in 0 .. L - 1, k \in T PROVE k + 1 \in T
    <3>1. k + 1 \in 1 .. L /\ (k + 1) - 1 = k
      OBVIOUS
    <3>2. q[k + 1] = q[k] \div 10 /\ q[k] \in 0 .. n
      BY <1>6, <2>2, <3>1
    <3> QED
      BY <3>1, <3>2
  <2> HIDE DEF T
  <2> QED
    BY <2>1, <2>2, UpTo
<1> QED
  BY <1>6, <1>7
(* A number that fits in an int is what is left of it. *)
LEMMA IntFits ==
    /\ \A v \in Int : IntOf(v) \in Int
    /\ \A v \in 0 .. INT_MAX : IntOf(v) = v
<1>1. INT_MAX \in Nat
  BY BootAssumption
<1>2. ASSUME NEW v \in 0 .. INT_MAX PROVE IntOf(v) = v
  <2>1. v + INT_MAX + 1 \in 0 .. (2 * INT_MAX + 2) - 1 /\ 2 * INT_MAX + 2 \in Nat \ {0}
    BY <1>1
  <2>2. \A m \in Nat \ {0} : \A u \in 0 .. m - 1 : u % m = u
    OBVIOUS
  <2>3. (v + INT_MAX + 1) % (2 * INT_MAX + 2) = v + INT_MAX + 1
    BY <2>1, <2>2
  <2> QED
    BY <1>1, <2>3 DEF IntOf
<1>3. ASSUME NEW v \in Int PROVE IntOf(v) \in Int
  <2>1. 2 * INT_MAX + 2 \in Nat \ {0} /\ v + INT_MAX + 1 \in Int
    BY <1>1
  <2>2. \A m \in Nat \ {0} : \A u \in Int : u % m \in Int
    OBVIOUS
  <2>3. (v + INT_MAX + 1) % (2 * INT_MAX + 2) \in Int
    BY <2>1, <2>2
  <2> QED
    BY <1>1, <2>3 DEF IntOf
<1> QED
  BY <1>2, <1>3

(* _atoi stops at the first character that is no digit. *)
LEMMA FirstMinus ==
    ASSUME NEW x \in Seq(0 .. Minus)
    PROVE  \E n \in 0 .. Len(x) : /\ \A i \in 1 .. n : x[i] # Minus
                                  /\ n < Len(x) => x[n + 1] = Minus
<1>0. Len(x) \in Nat
  OBVIOUS
<1> DEFINE U == {i \in 1 .. Len(x) : x[i] = Minus}
<1>1. CASE U = {}
  <2>1. \A i \in 1 .. Len(x) : x[i] # Minus
    BY <1>1
  <2>2. Len(x) \in 0 .. Len(x) /\ ~(Len(x) < Len(x))
    BY <1>0
  <2> QED
    BY <2>1, <2>2, Zenon
<1>2. CASE U # {}
  <2>1. U \subseteq Nat
    BY <1>0
  <2>2. PICK m \in U : \A i \in U : m <= i
    <3> HIDE DEF U
    <3> QED
      BY <1>2, <2>1, Least
  <2>3. m \in 1 .. Len(x) /\ x[m] = Minus
    BY <2>2
  <2>4. m - 1 \in 0 .. Len(x) /\ (m - 1) + 1 = m
    BY <1>0, <2>3
  <2>5. \A i \in 1 .. m - 1 : x[i] # Minus
    BY <1>0, <2>2, <2>3
  <2> QED
    BY <2>3, <2>4, <2>5
<1> QED
  BY <1>1, <1>2

(* What the rounds of _atoi compute. *)
Rounds(x, n) ==
    CHOOSE s : s = [i \in 0 .. n |-> IF i = 0 THEN 0 ELSE IntOf(IntOf(10 * s[i - 1]) + x[i])]

LEMMA RoundsFacts ==
    ASSUME NEW x \in Seq(0 .. Minus), NEW n \in 0 .. Len(x)
    PROVE  /\ Rounds(x, n) \in [0 .. n -> Int]
           /\ Rounds(x, n)[0] = 0
           /\ \A i \in 1 .. n :
                 Rounds(x, n)[i] = IntOf(IntOf(10 * Rounds(x, n)[i - 1]) + x[i])
<1> DEFINE s == Rounds(x, n)
           G == [i \in 1 .. n |-> [v \in Int |-> IntOf(IntOf(10 * v) + x[i])]]
<1>0. n \in Nat /\ \A i \in 1 .. n : x[i] \in Int
  BY DEF Minus
<1>1. G \in [1 .. n -> [Int -> Int]]
  <2>1. ASSUME NEW i \in 1 .. n, NEW v \in Int PROVE IntOf(IntOf(10 * v) + x[i]) \in Int
    <3>1. 10 * v \in Int
      OBVIOUS
    <3>2. IntOf(10 * v) \in Int
      BY <3>1, IntFits
    <3>3. IntOf(10 * v) + x[i] \in Int
      BY <1>0, <3>2
    <3> QED
      BY <3>3, IntFits
  <2> QED
    BY <2>1
<1>2. PICK f : Loop(f, n, Int, 0, G)
  <2> HIDE DEF G
  <2>1. 0 \in Int
    OBVIOUS
  <2> QED
    BY <1>0, <1>1, <2>1, LoopExists, Zenon
<1>3. \A i \in 1 .. n : f[i] = IntOf(IntOf(10 * f[i - 1]) + x[i])
  <2> SUFFICES ASSUME NEW i \in 1 .. n PROVE f[i] = IntOf(IntOf(10 * f[i - 1]) + x[i])
    OBVIOUS
  <2>1. f[i - 1] \in Int
    BY <1>0, <1>2 DEF Loop
  <2> QED
    BY <1>2, <2>1 DEF Loop
<1>4. f = [i \in 0 .. n |-> IF i = 0 THEN 0 ELSE IntOf(IntOf(10 * f[i - 1]) + x[i])]
  BY <1>0, <1>2, <1>3 DEF Loop
<1>5. s = [i \in 0 .. n |-> IF i = 0 THEN 0 ELSE IntOf(IntOf(10 * s[i - 1]) + x[i])]
  BY <1>4, Zenon DEF Rounds
<1> HIDE DEF s
<1>6. s[0] = 0 /\ \A i \in 1 .. n : s[i] = IntOf(IntOf(10 * s[i - 1]) + x[i])
  <2> DEFINE g == [i \in 0 .. n |-> IF i = 0 THEN 0 ELSE IntOf(IntOf(10 * s[i - 1]) + x[i])]
  <2>1. g[0] = 0 /\ \A i \in 1 .. n : g[i] = IntOf(IntOf(10 * s[i - 1]) + x[i])
    BY <1>0
  <2> HIDE DEF g
  <2>2. s = g
    BY <1>5, Zenon DEF g
  <2> QED
    BY <2>1, <2>2, Zenon
<1> DEFINE T == {i \in 0 .. n : s[i] \in Int}
<1>7. \A i \in 0 .. n : i \in T
  <2>1. 0 \in T
    BY <1>0, <1>6
  <2>2. ASSUME NEW i \in 0 .. n - 1, i \in T PROVE i + 1 \in T
    <3>1. i + 1 \in 1 .. n /\ i + 1 \in 0 .. n /\ (i + 1) - 1 = i
      BY <1>0
    <3>2. s[i + 1] = IntOf(IntOf(10 * s[i]) + x[i + 1]) /\ s[i] \in Int
      BY <1>6, <2>2, <3>1
    <3>3. 10 * s[i] \in Int
      BY <3>2
    <3>4. IntOf(10 * s[i]) + x[i + 1] \in Int
      <4>1. IntOf(10 * s[i]) \in Int
        BY <3>3, IntFits
      <4> QED
        BY <1>0, <3>1, <4>1
    <3> QED
      BY <3>1, <3>2, <3>4, IntFits
  <2> HIDE DEF T
  <2> QED
    BY <1>0, <2>1, <2>2, UpTo
<1>8. s \in [0 .. n -> Int]
  <2> DEFINE E(i) == IF i = 0 THEN 0 ELSE IntOf(IntOf(10 * s[i - 1]) + x[i])
  <2>1. s = [i \in 0 .. n |-> E(i)]
    BY <1>5, Zenon
  <2>2. DOMAIN s = 0 .. n
    <3> HIDE DEF E
    <3> QED
      BY <2>1
  <2>3. s = [i \in 0 .. n |-> s[i]]
    <3> HIDE DEF E
    <3> QED
      BY <2>1
  <2> QED
    BY <1>7, <2>3
<1> QED
  BY <1>6, <1>8 DEF s
(* _atoi gives an int, and a number that fits in an int for its digits.    *)
LEMMA AtoiFacts ==
    ASSUME NEW x \in Seq(0 .. Minus)
    PROVE  /\ Atoi(x) \in Int
           /\ \A m \in 0 .. INT_MAX : Decimal(x, m) => Atoi(x) = m
<1> DEFINE n == CHOOSE n \in 0 .. Len(x) : /\ \A i \in 1 .. n : x[i] # Minus
                                           /\ n < Len(x) => x[n + 1] = Minus
           s == Rounds(x, n)
<1>1. Atoi(x) = s[n]
  BY Zenon DEF Atoi, Rounds
<1>2. /\ n \in 0 .. Len(x)
      /\ \A i \in 1 .. n : x[i] # Minus
      /\ n < Len(x) => x[n + 1] = Minus
  BY FirstMinus, Zenon
<1>3. Len(x) \in Nat /\ DOMAIN x = 1 .. Len(x) /\ \A i \in 1 .. Len(x) : x[i] \in 0 .. 10
  BY DEF Minus
<1> HIDE DEF n
<1>4. /\ s \in [0 .. n -> Int]
      /\ s[0] = 0
      /\ \A i \in 1 .. n : s[i] = IntOf(IntOf(10 * s[i - 1]) + x[i])
  BY <1>2, RoundsFacts
<1> HIDE DEF s
<1>5. Atoi(x) \in Int
  BY <1>1, <1>2, <1>3, <1>4
<1>7. ASSUME NEW m \in 0 .. INT_MAX, Decimal(x, m)
      PROVE  Atoi(x) = m
  <2> DEFINE L == Len(x)
             q == CHOOSE q : q = [k \in 0 .. L |-> IF k = 0 THEN m ELSE q[k - 1] \div 10]
  <2>1. q[L] = 0 /\ \A k \in 1 .. L : x[L + 1 - k] = q[k - 1] % 10
    BY <1>7, Zenon DEF Decimal
  <2>2. INT_MAX \in Nat /\ m \in Nat /\ L \in Nat
    BY <1>3, BootAssumption
  <2>3. /\ q[0] = m
        /\ \A k \in 1 .. L : q[k] = q[k - 1] \div 10
        /\ \A k \in 0 .. L : q[k] \in 0 .. m
    <3> HIDE DEF L
    <3> QED
      BY <2>2, Quotients, Zenon
  <2> HIDE DEF q
  <2>4. n = L
    <3>1. ASSUME NEW i \in 1 .. L PROVE x[i] # Minus
      <4>1. L + 1 - i \in 1 .. L /\ (L + 1 - i) - 1 \in 0 .. L /\ L + 1 - (L + 1 - i) = i
        BY <2>2
      <4>2. x[i] = q[(L + 1 - i) - 1] % 10 /\ q[(L + 1 - i) - 1] \in 0 .. m
        BY <2>1, <2>3, <4>1, Zenon
      <4>3. \A v \in 0 .. m : v % 10 \in 0 .. 9
        BY <2>2
      <4> QED
        BY <4>2, <4>3 DEF Minus
    <3>2. ~(n < Len(x))
      <4>1. n < Len(x) => n + 1 \in 1 .. Len(x)
        BY <1>2, <1>3
      <4> QED
        BY <1>2, <3>1, <4>1, Zenon
    <3>3. n \in Nat /\ n <= Len(x)
      BY <1>2, <1>3
    <3>4. \A a, b \in Nat : a <= b /\ ~(a < b) => a = b
      OBVIOUS
    <3> QED
      BY <1>3, <3>2, <3>3, <3>4, Zenon
  <2> DEFINE T == {i \in 0 .. L : s[i] = q[L - i]}
  <2> HIDE DEF L
  <2>5. \A i \in 0 .. L : i \in T
    <3>1. 0 \in T
      <4>1. L - 0 = L /\ 0 \in 0 .. L
        BY <2>2
      <4> QED
        BY <1>4, <2>1, <4>1
    <3>2. ASSUME NEW i \in 0 .. L - 1, i \in T PROVE i + 1 \in T
      <4> DEFINE k == L - i
                 v == q[k - 1]
      <4>1. /\ i + 1 \in 1 .. L /\ i + 1 \in 0 .. L /\ (i + 1) - 1 = i
            /\ k \in 1 .. L /\ k - 1 \in 0 .. L /\ L + 1 - k = i + 1 /\ L - (i + 1) = k - 1
        BY <2>2
      <4>2. s[i] = q[k]
        BY <3>2
      <4> HIDE DEF k
      <4>3. q[k] = v \div 10 /\ x[i + 1] = v % 10 /\ v \in 0 .. m
        BY <2>1, <2>3, <4>1, Zenon
      <4>4. s[i + 1] = IntOf(IntOf(10 * s[i]) + x[i + 1])
        BY <1>4, <2>4, <4>1
      <4> HIDE DEF v
      <4>5. /\ 10 * (v \div 10) \in 0 .. INT_MAX /\ v \in 0 .. INT_MAX
            /\ 10 * (v \div 10) + (v % 10) = v
        <5>1. v \in Nat /\ v \div 10 \in Nat
          BY <2>2, <4>3
        <5>2. v % 10 = v - 10 * (v \div 10) /\ v % 10 \in 0 .. 9
          BY <5>1
        <5> QED
          BY <2>2, <4>3, <5>1, <5>2
      <4>6. IntOf(10 * s[i]) = 10 * (v \div 10)
        BY <4>2, <4>3, <4>5, IntFits, Zenon
      <4>7. s[i + 1] = v
        <5>1. IntOf(10 * s[i]) + x[i + 1] = v
          <6>1. x[i + 1] = v % 10
            BY <4>3
          <6> QED
            BY <4>5, <4>6, <6>1, Zenon
        <5> QED
          BY <4>4, <4>5, <5>1, IntFits, Zenon
      <4> QED
        BY <4>1, <4>7, Zenon DEF v
    <3> HIDE DEF T
    <3> QED
      BY <2>2, <3>1, <3>2, UpTo
  <2>6. L \in 0 .. L /\ L - L = 0
    BY <2>2
  <2> QED
    BY <1>1, <2>3, <2>4, <2>5, <2>6
<1> QED
  BY <1>5, <1>7
-----------------------------------------------------------------------------
(* What env_conf holds, and one round of read_env_conf. *)
Confs == [use_rebranch : BOOLEAN, sampling : Int]

NoConf == [use_rebranch |-> TRUE, sampling |-> -1]

LEMMA CheckVar ==
    ASSUME NEW c \in Confs, NEW e \in Settings
    PROVE  /\ check_var(c, e) \in Confs
           /\ e.key = "SNITCHASER_USE" =>
                 check_var(c, e) = [c EXCEPT !.use_rebranch = e.val # <<0>>]
           /\ e.key = "SNITCHASER_SAMPLING" =>
                 check_var(c, e) = [c EXCEPT !.sampling = Atoi(e.val)]
           /\ e.key = "OTHER" => check_var(c, e) = c
<1>1. e.key \in {"SNITCHASER_USE", "SNITCHASER_SAMPLING", "OTHER"} /\ e.val \in Seq(0 .. Minus)
  BY DEF Settings
<1>2. Atoi(e.val) \in Int
  BY <1>1, AtoiFacts
<1>3. CASE e.key = "SNITCHASER_USE"
  <2>1. check_var(c, e) = [c EXCEPT !.use_rebranch = e.val # <<0>>]
    BY <1>3 DEF check_var
  <2> QED
    BY <1>3, <2>1 DEF Confs
<1>4. CASE e.key = "SNITCHASER_SAMPLING"
  <2>1. check_var(c, e) = [c EXCEPT !.sampling = Atoi(e.val)]
    BY <1>4 DEF check_var
  <2> QED
    BY <1>2, <1>4, <2>1 DEF Confs
<1>5. CASE e.key = "OTHER"
  <2>1. check_var(c, e) = c
    BY <1>5 DEF check_var
  <2> QED
    BY <1>5, <2>1
<1> QED
  BY <1>1, <1>3, <1>4, <1>5

(* env_conf after each entry of the environment. *)
ConfOf(e) ==
    CHOOSE conf : conf = [i \in 0 .. Len(e) |->
                             IF i = 0 THEN NoConf ELSE check_var(conf[i - 1], e[i])]

LEMMA ConfFacts ==
    ASSUME NEW e \in Seq(Settings)
    PROVE  /\ ConfOf(e)[0] = NoConf
           /\ \A i \in 1 .. Len(e) : ConfOf(e)[i] = check_var(ConfOf(e)[i - 1], e[i])
           /\ \A i \in 0 .. Len(e) : ConfOf(e)[i] \in Confs
<1> DEFINE s == ConfOf(e)
           n == Len(e)
           G == [i \in 1 .. n |-> [v \in Confs |-> check_var(v, e[i])]]
<1>0. n \in Nat /\ \A i \in 1 .. n : e[i] \in Settings
  OBVIOUS
<1>1. NoConf \in Confs
  BY DEF NoConf, Confs
<1>2. G \in [1 .. n -> [Confs -> Confs]]
  BY <1>0, CheckVar
<1> HIDE DEF n
<1>3. PICK f : Loop(f, n, Confs, NoConf, G)
  <2> HIDE DEF G
  <2> QED
    BY <1>0, <1>1, <1>2, LoopExists, Zenon
<1>4. \A i \in 1 .. n : f[i] = check_var(f[i - 1], e[i])
  <2> SUFFICES ASSUME NEW i \in 1 .. n PROVE f[i] = check_var(f[i - 1], e[i])
    OBVIOUS
  <2>1. f[i - 1] \in Confs
    BY <1>0, <1>3 DEF Loop
  <2> QED
    BY <1>3, <2>1 DEF Loop
<1>5. f = [i \in 0 .. n |-> IF i = 0 THEN NoConf ELSE check_var(f[i - 1], e[i])]
  BY <1>0, <1>3, <1>4 DEF Loop
<1>6. s = [i \in 0 .. n |-> IF i = 0 THEN NoConf ELSE check_var(s[i - 1], e[i])]
  BY <1>5, Zenon DEF ConfOf, n
<1> HIDE DEF s
<1>7. s[0] = NoConf /\ \A i \in 1 .. n : s[i] = check_var(s[i - 1], e[i])
  <2> DEFINE g == [i \in 0 .. n |-> IF i = 0 THEN NoConf ELSE check_var(s[i - 1], e[i])]
  <2>1. g[0] = NoConf /\ \A i \in 1 .. n : g[i] = check_var(s[i - 1], e[i])
    BY <1>0
  <2> HIDE DEF g
  <2>2. s = g
    BY <1>6, Zenon DEF g
  <2> QED
    BY <2>1, <2>2, Zenon
<1> DEFINE T == {i \in 0 .. n : s[i] \in Confs}
<1>8. \A i \in 0 .. n : i \in T
  <2>1. 0 \in T
    BY <1>0, <1>1, <1>7
  <2>2. ASSUME NEW i \in 0 .. n - 1, i \in T PROVE i + 1 \in T
    <3>1. i + 1 \in 1 .. n /\ i + 1 \in 0 .. n /\ (i + 1) - 1 = i
      BY <1>0
    <3>2. s[i + 1] = check_var(s[i], e[i + 1]) /\ s[i] \in Confs
      BY <1>7, <2>2, <3>1
    <3> QED
      BY <1>0, <3>1, <3>2, CheckVar
  <2> HIDE DEF T
  <2> QED
    BY <1>0, <2>1, <2>2, UpTo
<1> QED
  BY <1>7, <1>8 DEF s, n

(* Entry j is the last with this key among the first i of an environment. *)
LastOf(e, key, j, i) ==
    j \in 1 .. i /\ e[j].key = key /\ \A k \in j + 1 .. i : e[k].key # key

(* One more entry is the last with its key and changes nothing for others. *)
LEMMA LastNext ==
    ASSUME NEW e, NEW i \in Nat, NEW key, NEW j
    PROVE  /\ e[i + 1].key = key => (LastOf(e, key, j, i + 1) <=> j = i + 1)
           /\ e[i + 1].key # key => (LastOf(e, key, j, i + 1) <=> LastOf(e, key, j, i))
<1>1. CASE e[i + 1].key = key
  <2>1. ASSUME LastOf(e, key, j, i + 1) PROVE j = i + 1
    BY <1>1, <2>1 DEF LastOf
  <2>2. LastOf(e, key, i + 1, i + 1)
    BY <1>1 DEF LastOf
  <2> QED
    BY <1>1, <2>1, <2>2, Zenon
<1>2. CASE e[i + 1].key # key
  <2>1. ASSUME LastOf(e, key, j, i + 1) PROVE LastOf(e, key, j, i)
    BY <1>2, <2>1 DEF LastOf
  <2>2. ASSUME LastOf(e, key, j, i) PROVE LastOf(e, key, j, i + 1)
    BY <1>2, <2>2 DEF LastOf
  <2> QED
    BY <1>2, <2>1, <2>2, Zenon
<1> QED
  BY <1>1, <1>2, Zenon

(* A conf is what the first i entries say. *)
ConfRight(e, c, i) ==
    /\ c.use_rebranch = TRUE \/ \E j : LastOf(e, "SNITCHASER_USE", j, i) /\ e[j].val = <<0>>
    /\ \A j : LastOf(e, "SNITCHASER_USE", j, i) /\ e[j].val = <<0>> => c.use_rebranch = FALSE
    /\ \A j : LastOf(e, "SNITCHASER_SAMPLING", j, i) => c.sampling = Atoi(e[j].val)
    /\ (\A j \in 1 .. i : e[j].key # "SNITCHASER_SAMPLING") => c.sampling = -1
LEMMA ConfNext ==
    ASSUME NEW e \in Seq(Settings), NEW i \in 0 .. Len(e) - 1, NEW c \in Confs, ConfRight(e, c, i)
    PROVE  ConfRight(e, check_var(c, e[i + 1]), i + 1)
<1> DEFINE d == check_var(c, e[i + 1])
           key == e[i + 1].key
<1>1. i \in Nat /\ i + 1 \in 1 .. Len(e) /\ e[i + 1] \in Settings
  OBVIOUS
<1>2. key \in {"SNITCHASER_USE", "SNITCHASER_SAMPLING", "OTHER"}
  BY <1>1 DEF Settings
<1>3. /\ d \in Confs
      /\ key = "SNITCHASER_USE" => d = [c EXCEPT !.use_rebranch = e[i + 1].val # <<0>>]
      /\ key = "SNITCHASER_SAMPLING" => d = [c EXCEPT !.sampling = Atoi(e[i + 1].val)]
      /\ key = "OTHER" => d = c
  BY <1>1, CheckVar, Zenon
<1> SUFFICES ConfRight(e, d, i + 1)
  OBVIOUS
<1> HIDE DEF d
<1>4. /\ key = "SNITCHASER_USE" => /\ d.sampling = c.sampling
                                    /\ d.use_rebranch = (e[i + 1].val # <<0>>)
      /\ key = "SNITCHASER_SAMPLING" => /\ d.use_rebranch = c.use_rebranch
                                         /\ d.sampling = Atoi(e[i + 1].val)
      /\ key = "OTHER" => d.use_rebranch = c.use_rebranch /\ d.sampling = c.sampling
  <2>1. DOMAIN c = {"use_rebranch", "sampling"}
    BY DEF Confs
  <2> QED
    BY <1>3, <2>1
<1>5. \A k, j : /\ key = k => (LastOf(e, k, j, i + 1) <=> j = i + 1)
                /\ key # k => (LastOf(e, k, j, i + 1) <=> LastOf(e, k, j, i))
  BY <1>1, LastNext, Zenon
<1>6. \A k : (\A j \in 1 .. i + 1 : e[j].key # k) => key # k /\ \A j \in 1 .. i : e[j].key # k
  BY <1>1
<1>7. CASE key = "SNITCHASER_USE"
  <2>1. /\ \A j : LastOf(e, "SNITCHASER_USE", j, i + 1) <=> j = i + 1
        /\ \A j : LastOf(e, "SNITCHASER_SAMPLING", j, i + 1)
                     <=> LastOf(e, "SNITCHASER_SAMPLING", j, i)
    BY <1>5, <1>7
  <2>2. d.sampling = c.sampling /\ d.use_rebranch = (e[i + 1].val # <<0>>)
    BY <1>4, <1>7, Zenon
  <2>3. /\ d.use_rebranch = TRUE \/ e[i + 1].val = <<0>>
        /\ e[i + 1].val = <<0>> => d.use_rebranch = FALSE
    BY <2>2
  <2>4. /\ \A j : LastOf(e, "SNITCHASER_SAMPLING", j, i + 1) => d.sampling = Atoi(e[j].val)
        /\ (\A j \in 1 .. i + 1 : e[j].key # "SNITCHASER_SAMPLING") => d.sampling = -1
    BY <1>6, <2>1, <2>2, Zenon DEF ConfRight
  <2> QED
    BY <2>1, <2>3, <2>4, ZenonT(30) DEF ConfRight
<1>8. CASE key = "SNITCHASER_SAMPLING"
  <2>1. /\ \A j : LastOf(e, "SNITCHASER_SAMPLING", j, i + 1) <=> j = i + 1
        /\ \A j : LastOf(e, "SNITCHASER_USE", j, i + 1) <=> LastOf(e, "SNITCHASER_USE", j, i)
    BY <1>5, <1>8
  <2>2. d.use_rebranch = c.use_rebranch /\ d.sampling = Atoi(e[i + 1].val)
    BY <1>4, <1>8, Zenon
  <2>3. ~\A j \in 1 .. i + 1 : e[j].key # "SNITCHASER_SAMPLING"
    BY <1>6, <1>8, Zenon
  <2> QED
    BY <2>1, <2>2, <2>3, ZenonT(30) DEF ConfRight
<1>9. CASE key = "OTHER"
  <2>1. /\ \A j : LastOf(e, "SNITCHASER_SAMPLING", j, i + 1)
                     <=> LastOf(e, "SNITCHASER_SAMPLING", j, i)
        /\ \A j : LastOf(e, "SNITCHASER_USE", j, i + 1) <=> LastOf(e, "SNITCHASER_USE", j, i)
    BY <1>5, <1>9
  <2>2. d.use_rebranch = c.use_rebranch /\ d.sampling = c.sampling
    BY <1>4, <1>9, Zenon
  <2>3. (\A j \in 1 .. i + 1 : e[j].key # "SNITCHASER_SAMPLING") => d.sampling = -1
    BY <1>6, <2>2, Zenon DEF ConfRight
  <2> QED
    BY <2>1, <2>2, <2>3, ZenonT(30) DEF ConfRight
<1> QED
  BY <1>2, <1>7, <1>8, <1>9, Zenon

(* read_env_conf leaves what the last settings say. *)
LEMMA ConfIsRight ==
    ASSUME NEW e \in Seq(Settings)
    PROVE  ConfRight(e, ConfOf(e)[Len(e)], Len(e)) /\ ConfOf(e)[Len(e)] \in Confs
<1> DEFINE n == Len(e)
           s == ConfOf(e)
           T == {i \in 0 .. n : ConfRight(e, s[i], i)}
<1>0. n \in Nat
  OBVIOUS
<1>1. /\ s[0] = NoConf
      /\ \A i \in 1 .. n : s[i] = check_var(s[i - 1], e[i])
      /\ \A i \in 0 .. n : s[i] \in Confs
  BY ConfFacts, Zenon
<1> HIDE DEF s
<1>2. 0 \in T
  <2>1. ConfRight(e, NoConf, 0)
    BY DEF ConfRight, NoConf, LastOf
  <2> QED
    BY <1>0, <1>1, <2>1
<1>3. ASSUME NEW i \in 0 .. n - 1, i \in T PROVE i + 1 \in T
  <2>1. /\ i + 1 \in 1 .. n /\ i + 1 \in 0 .. n /\ (i + 1) - 1 = i /\ i \in 0 .. n
        /\ i \in 0 .. Len(e) - 1
    BY <1>0
  <2>2. s[i + 1] = check_var(s[i], e[i + 1]) /\ s[i] \in Confs
    BY <1>1, <2>1
  <2>3. ConfRight(e, s[i + 1], i + 1)
    BY <1>3, <2>1, <2>2, ConfNext, Zenon
  <2> QED
    BY <2>1, <2>3
<1>4. n \in T
  <2> HIDE DEF T
  <2>1. \A i \in 0 .. n : i \in T
    BY <1>0, <1>2, <1>3, UpTo
  <2> QED
    BY <1>0, <2>1
<1> QED
  BY <1>0, <1>1, <1>4 DEF s

(* Whom sampling() selects is what the last settings in the environment    *)
(* say, for every environment and every rate that fits in an int.          *)
THEOREM SamplingSafe == Spec => []SamplingObeyed
<1>1. start \in Starts => SamplingObeyed
  <2> SUFFICES ASSUME start \in Starts, NEW sel \in Selections
               PROVE  LET used == \A i \in DOMAIN start.env :
                              Last("SNITCHASER_USE", i) => start.env[i].val # <<0>>
                      IN  /\ Selects(sel) => used
                          /\ used /\ (\A i \in DOMAIN start.env :
                                         start.env[i].key # "SNITCHASER_SAMPLING")
                                => Selects(sel)
                          /\ \A i \in DOMAIN start.env : Last("SNITCHASER_SAMPLING", i) =>
                                \A n \in 0 .. INT_MAX :
                                    Decimal(start.env[i].val, n) =>
                                        (Selects(sel) <=> used /\ sel < n)
    BY Zenon DEF SamplingObeyed
  <2> DEFINE e == start.env
             c == read_env_conf
             used == \A i \in DOMAIN e : Last("SNITCHASER_USE", i) => e[i].val # <<0>>
  <2>1. e \in Seq(Settings) /\ sel \in 0 .. 999
    BY BootAssumption DEF Starts
  <2>2. c = ConfOf(e)[Len(e)]
    BY Zenon DEF read_env_conf, ConfOf, NoConf
  <2>3. ConfRight(e, c, Len(e)) /\ c \in Confs
    BY <2>1, <2>2, ConfIsRight, Zenon
  <2>4. \A key, i : LastOf(e, key, i, Len(e)) <=> i \in DOMAIN e /\ Last(key, i)
    BY <2>1 DEF LastOf, Last
  <2>5. DOMAIN e = 1 .. Len(e) /\ \A i \in DOMAIN e : e[i].val \in Seq(0 .. Minus)
    <3>1. DOMAIN e = 1 .. Len(e) /\ \A i \in DOMAIN e : e[i] \in Settings
      BY <2>1
    <3>2. \A v \in Settings : v.val \in Seq(0 .. Minus)
      BY DEF Settings
    <3> QED
      BY <3>1, <3>2, Zenon
  <2>6. c.sampling \in Int /\ c.use_rebranch \in BOOLEAN
    BY <2>3 DEF Confs
  <2> HIDE DEF c, e
  <2>7. Selects(sel) <=> (c.sampling < 0 \/ sel < c.sampling) /\ c.use_rebranch = TRUE
    BY DEF Selects, Sampled, c
  <2>8. (c.use_rebranch = TRUE) <=> used
    BY <2>3, <2>4, <2>6, Zenon DEF ConfRight
  <2> HIDE DEF used
  <2>9. (\A i \in DOMAIN e : e[i].key # "SNITCHASER_SAMPLING") => c.sampling = -1
    BY <2>3, <2>5, Zenon DEF ConfRight
  <2>10. ASSUME NEW i \in DOMAIN e, Last("SNITCHASER_SAMPLING", i),
                NEW n \in 0 .. INT_MAX, Decimal(e[i].val, n)
         PROVE  Selects(sel) <=> used /\ sel < n
    <3> DEFINE x == e[i].val
    <3>1. c.sampling = Atoi(x) /\ x \in Seq(0 .. Minus)
      BY <2>3, <2>4, <2>5, <2>10, Zenon DEF ConfRight
    <3>2. c.sampling = n
      BY <2>10, <3>1, AtoiFacts, Zenon
    <3>3. ~(n < 0)
      BY BootAssumption
    <3> QED
      BY <2>7, <2>8, <3>2, <3>3, Zenon
  <2>11. -1 < 0
    OBVIOUS
  <2>12. used /\ (\A i \in DOMAIN e : e[i].key # "SNITCHASER_SAMPLING") => Selects(sel)
    BY <2>7, <2>8, <2>9, <2>11, Zenon
  <2>13. Selects(sel) => used
    BY <2>7, <2>8, Zenon
  <2> QED
    BY <2>10, <2>12, <2>13, Zenon DEF e, used
<1>2. IInv => SamplingObeyed
  BY <1>1 DEF IInv, TypeInv
<1> QED
  BY <1>2, Invariance, PTL
-----------------------------------------------------------------------------
(* mm.c *)

(* What is left of a listed bucket is what lies between cur_ptr and the    *)
(* end, and every object of it lies between the head and cur_ptr.          *)
Accounting ==
    status = "ready" =>
        /\ \A b \in Listed : /\ cur_ptr[b] + aval_size[b] = OBJ_BUCKET_SIZE
                             /\ HEAD <= cur_ptr[b]
        /\ \A o \in objs : o.off + o.len <= cur_ptr[o.buk]

ZeroStub == status = "zero" => nbuk = 0 /\ objs = {}

ObjInv ==
    /\ ObjTypeOK
    /\ ObjsDisjoint
    /\ ObjsInBucket
    /\ CurBukSet
    /\ Accounting
    /\ ZeroStub

(* What alloc_from_buk(b, size) keeps, for a bucket b that has room.  ptrs *)
(* and avals are the buckets as it finds them.                             *)
LEMMA TakeKeeps ==
    ASSUME ObjInv, status = "ready", status' = "ready",
           NEW n \in 0 .. MaxBuckets, nbuk' = n, nbuk <= n,
           NEW b \in 1 .. n, NEW size \in Nat, size > 0,
           NEW ptrs \in [Buckets -> 0 .. OBJ_BUCKET_SIZE],
           NEW avals \in [Buckets -> 0 .. OBJ_BUCKET_SIZE - HEAD],
           \A c \in 1 .. n : ptrs[c] + avals[c] = OBJ_BUCKET_SIZE,
           \A c \in 1 .. n : HEAD <= ptrs[c],
           \A o \in objs : o.off + o.len <= ptrs[o.buk],
           avals[b] >= size,
           cur_buk' \in 0 .. n, cur_buk' # NULL,
           Take(b, size, ptrs, avals)
    PROVE  ObjInv'
<1> DEFINE new == [buk |-> b, off |-> ptrs[b], len |-> size]
<1>1. /\ b \in Buckets /\ ptrs[b] \in Nat
      /\ ptrs[b] + size \in 0 .. OBJ_BUCKET_SIZE
      /\ avals[b] - size \in 0 .. OBJ_BUCKET_SIZE - HEAD
  BY ObjMmAssumption DEF Buckets
<1>2. /\ cur_ptr' = [ptrs EXCEPT ![b] = ptrs[b] + size]
      /\ aval_size' = [avals EXCEPT ![b] = avals[b] - size]
      /\ objs' = objs \cup {new}
  BY DEF Take
<1>3. new \in Objects
  BY <1>1 DEF Objects
<1>4. ObjTypeOK'
  <2>1. cur_ptr' \in [Buckets -> 0 .. OBJ_BUCKET_SIZE]
    BY <1>1, <1>2
  <2>2. aval_size' \in [Buckets -> 0 .. OBJ_BUCKET_SIZE - HEAD]
    BY <1>1, <1>2
  <2>3. objs' \subseteq Objects
    BY <1>2, <1>3 DEF ObjInv, ObjTypeOK
  <2>4. QED
    BY <2>1, <2>2, <2>3 DEF ObjTypeOK
<1>5. \A o \in objs : ~Overlap(o, new) /\ ~Overlap(new, o)
  <2>1. SUFFICES ASSUME NEW o \in objs, o.buk = b
                 PROVE  o.off + o.len <= ptrs[b]
    <3>1. \A o \in objs : o.off \in Nat /\ o.len \in Nat
      BY DEF ObjInv, ObjTypeOK, Objects
    <3>2. QED
      BY <2>1, <3>1, <1>1 DEF Overlap
  <2>2. QED
    BY <2>1
<1>6. \A o, q \in objs' : o # q => ~Overlap(o, q)
  BY <1>2, <1>5 DEF ObjInv, ObjsDisjoint
<1>7. ObjsInBucket'
  <2>1. \A o \in objs : o.buk \in 1 .. n
    BY ObjMmAssumption DEF ObjInv, ObjTypeOK, ObjsInBucket, Listed
  <2>2. HEAD <= new.off /\ new.off + new.len <= OBJ_BUCKET_SIZE
    BY <1>1
  <2>3. QED
    BY <1>2, <2>1, <2>2 DEF ObjInv, ObjsInBucket, Listed
<1>8. Accounting'
  <2>1. ASSUME NEW c \in 1 .. n
        PROVE  cur_ptr'[c] + aval_size'[c] = OBJ_BUCKET_SIZE /\ HEAD <= cur_ptr'[c]
    <3>1. c \in Buckets /\ ptrs[c] \in Nat /\ avals[c] \in Nat
      BY ObjMmAssumption DEF Buckets
    <3>2. CASE c = b
      BY <1>1, <1>2, <3>1, <3>2, ObjMmAssumption
    <3>3. CASE c # b
      BY <1>2, <3>1, <3>3
    <3>4. QED
      BY <3>2, <3>3
  <2>2. ASSUME NEW o \in objs'
        PROVE  o.off + o.len <= cur_ptr'[o.buk]
    <3>1. o \in Objects
      BY <1>4 DEF ObjTypeOK
    <3>2. CASE o \in objs
      <4>1. o.off + o.len <= ptrs[o.buk] /\ ptrs[o.buk] \in Nat
        BY <3>1, <3>2 DEF Objects
      <4>2. ptrs[o.buk] <= cur_ptr'[o.buk]
        BY <1>1, <1>2, <3>1, <4>1 DEF Objects
      <4>3. cur_ptr'[o.buk] \in Nat /\ o.off + o.len \in Nat
        BY <1>4, <3>1 DEF ObjTypeOK, Objects
      <4>4. QED
        BY <4>1, <4>2, <4>3
    <3>3. CASE o = new
      BY <1>1, <1>2, <3>3
    <3>4. QED
      BY <1>2, <3>2, <3>3
  <2>3. QED
    BY <2>1, <2>2 DEF Accounting, Listed
<1>9. CurBukSet' /\ ZeroStub'
  BY DEF CurBukSet, ZeroStub
<1>10. ObjsDisjoint'
  BY <1>6, <1>8 DEF ObjsDisjoint, Overlap, Accounting
<1>11. QED
  BY <1>4, <1>7, <1>8, <1>9, <1>10 DEF ObjInv

(* The zeroed stub a thread starts with satisfies the invariant. *)
LEMMA ObjInitInv == ObjInit => ObjInv
<1> SUFFICES ASSUME ObjInit PROVE ObjInv
  OBVIOUS
<1> QED
  BY ObjMmAssumption DEF ObjInit, ObjInv, ObjTypeOK, ObjsDisjoint, ObjsInBucket,
     CurBukSet, Accounting, ZeroStub, Listed, NULL

(* Every operation of mm.c keeps the invariant. *)
LEMMA ObjNextInv == ObjInv /\ [ObjNext]_ObjVars => ObjInv'
<1> SUFFICES ASSUME ObjInv, [ObjNext]_ObjVars PROVE ObjInv'
  OBVIOUS
<1>1. CASE init_mm_obj
  BY <1>1 DEF init_mm_obj, ObjInv, ObjTypeOK, ObjsDisjoint, ObjsInBucket,
     CurBukSet, Accounting, ZeroStub, Listed, NULL
<1>2. CASE clean_mm_obj
  BY <1>2, ObjMmAssumption DEF clean_mm_obj, ObjInv, ObjTypeOK, ObjsDisjoint,
     ObjsInBucket, CurBukSet, Accounting, ZeroStub, Listed, NULL
<1>3. ASSUME NEW size \in Sizes, RejectSize(size) PROVE ObjInv'
  BY <1>3 DEF RejectSize, ObjInv, ObjTypeOK, ObjsDisjoint, ObjsInBucket,
     CurBukSet, Accounting, ZeroStub, Listed
<1>4. ASSUME NEW size \in Sizes, NoRoomForBuk(size) PROVE ObjInv'
  BY <1>4 DEF NoRoomForBuk, ObjInv, ObjTypeOK, ObjsDisjoint, ObjsInBucket,
     CurBukSet, Accounting, ZeroStub, Listed
<1>5. ASSUME NEW size \in Sizes, AssertInCur(size) PROVE ObjInv'
  <2>1. size \in Nat /\ cur_buk \in Listed /\ cur_buk \in Buckets
    BY <1>5, ObjMmAssumption
       DEF AssertInCur, Fits, NULL, ObjInv, ObjTypeOK, Listed, Buckets
  <2>2. cur_ptr[cur_buk] + size \in 0 .. OBJ_BUCKET_SIZE
    <3>1. /\ cur_ptr[cur_buk] + aval_size[cur_buk] = OBJ_BUCKET_SIZE
          /\ size <= aval_size[cur_buk]
      BY <1>5, <2>1 DEF AssertInCur, Fits, ObjInv, Accounting
    <3>2. cur_ptr[cur_buk] \in Nat /\ aval_size[cur_buk] \in Nat
      BY <2>1, ObjMmAssumption DEF ObjInv, ObjTypeOK
    <3>3. QED
      BY <2>1, <3>1, <3>2, ObjMmAssumption
  <2>3. cur_ptr' \in [Buckets -> 0 .. OBJ_BUCKET_SIZE]
    BY <1>5, <2>2, Zenon DEF AssertInCur, ObjInv, ObjTypeOK
  <2>4. QED
    BY <1>5, <2>3 DEF AssertInCur, ObjInv, ObjTypeOK, ObjsDisjoint,
       ObjsInBucket, CurBukSet, Accounting, ZeroStub, Listed
<1>6. ASSUME NEW size \in Sizes, AllocFromCur(size) PROVE ObjInv'
  <2>1. size \in Nat /\ size > 0 /\ nbuk \in 0 .. MaxBuckets
    BY <1>6, ObjMmAssumption DEF AllocFromCur, Valid, ObjInv, ObjTypeOK
  <2>2. cur_buk \in 1 .. nbuk /\ aval_size[cur_buk] >= size
    BY <1>6 DEF AllocFromCur, Fits, NULL, ObjInv, ObjTypeOK
  <2>3. /\ status = "ready" /\ status' = "ready" /\ nbuk' = nbuk
        /\ cur_buk' = cur_buk /\ Take(cur_buk, size, cur_ptr, aval_size)
    BY <1>6 DEF AllocFromCur
  <2>4. QED
    BY <2>1, <2>2, <2>3, TakeKeeps
       DEF ObjInv, ObjTypeOK, Accounting, Listed, NULL
<1>7. ASSUME NEW size \in Sizes, AllocFromMax(size) PROVE ObjInv'
  <2>1. size \in Nat /\ size > 0 /\ nbuk \in 0 .. MaxBuckets
    BY <1>7, ObjMmAssumption DEF AllocFromMax, Valid, ObjInv, ObjTypeOK
  <2>2. PICK b \in Buckets :
               /\ MaxBukServes(b, size)
               /\ Take(b, size, cur_ptr, aval_size)
               /\ cur_buk' = IF aval_size'[b] > aval_size'[cur_buk]
                             THEN b ELSE cur_buk
    BY <1>7 DEF AllocFromMax
  <2>3. b \in 1 .. nbuk /\ aval_size[b] >= size
    <3>1. b \in 1 .. nbuk /\ aval_size[b] > size
      BY <2>2 DEF MaxBukServes, IsMaxBuk, Listed
    <3>2. aval_size[b] \in Nat
      BY <2>2, ObjMmAssumption DEF ObjInv, ObjTypeOK
    <3>3. QED
      BY <2>1, <3>1, <3>2
  <2>4. cur_buk' \in 0 .. nbuk /\ cur_buk' # NULL
    BY <2>2, <2>3 DEF ObjInv, ObjTypeOK, CurBukSet, NULL
  <2>5. status = "ready" /\ status' = "ready" /\ nbuk' = nbuk
    BY <1>7 DEF AllocFromMax
  <2>6. QED
    BY <2>1, <2>2, <2>3, <2>4, <2>5, TakeKeeps
       DEF ObjInv, ObjTypeOK, Accounting, Listed
<1>8. ASSUME NEW size \in Sizes, AllocFromNew(size) PROVE ObjInv'
  <2> DEFINE n == nbuk + 1
             ptrs == [cur_ptr EXCEPT ![n] = FirstFree]
             avals == [aval_size EXCEPT ![n] = OBJ_BUCKET_SIZE - HEAD]
  <2>1. /\ size \in Nat /\ size > 0 /\ size < OBJ_BUCKET_SIZE - HEAD
        /\ nbuk \in Nat /\ n \in 0 .. MaxBuckets /\ n \in Buckets
        /\ n \in 1 .. n
    BY <1>8, ObjMmAssumption
       DEF AllocFromNew, Valid, MAX_AVAL_OBJ_SIZE, ObjInv, ObjTypeOK, Buckets
  <2>2. /\ status = "ready" /\ status' = "ready" /\ nbuk' = n
        /\ Take(n, size, ptrs, avals)
    BY <1>8 DEF AllocFromNew
  <2>3. /\ ptrs \in [Buckets -> 0 .. OBJ_BUCKET_SIZE]
        /\ avals \in [Buckets -> 0 .. OBJ_BUCKET_SIZE - HEAD]
    <3>1. /\ HEAD \in 0 .. OBJ_BUCKET_SIZE
          /\ OBJ_BUCKET_SIZE - HEAD \in 0 .. OBJ_BUCKET_SIZE - HEAD
      BY ObjMmAssumption
    <3>2. ptrs \in [Buckets -> 0 .. OBJ_BUCKET_SIZE]
      BY <3>1, Zenon DEF ObjInv, ObjTypeOK, FirstFree
    <3>3. avals \in [Buckets -> 0 .. OBJ_BUCKET_SIZE - HEAD]
      BY <3>1, Zenon DEF ObjInv, ObjTypeOK
    <3>4. QED
      BY <3>2, <3>3
  <2>4. ptrs[n] = HEAD /\ avals[n] = OBJ_BUCKET_SIZE - HEAD
    BY <2>1 DEF ObjInv, ObjTypeOK, FirstFree
  <2>5. \A c \in 1 .. n : ptrs[c] + avals[c] = OBJ_BUCKET_SIZE /\ HEAD <= ptrs[c]
    <3>1. ASSUME NEW c \in 1 .. n, c # n
          PROVE  /\ c \in Listed
                 /\ ptrs[c] = cur_ptr[c] /\ avals[c] = aval_size[c]
      BY <2>1, <3>1 DEF ObjInv, ObjTypeOK, Listed, Buckets
    <3>2. QED
      BY <2>2, <2>4, <3>1, ObjMmAssumption DEF ObjInv, Accounting
  <2>6. \A o \in objs : o.off + o.len <= ptrs[o.buk]
    <3>1. ASSUME NEW o \in objs PROVE ptrs[o.buk] = cur_ptr[o.buk]
      BY <2>1 DEF ObjInv, ObjTypeOK, ObjsInBucket, Listed, Objects
    <3>2. QED
      BY <2>2, <3>1 DEF ObjInv, Accounting
  <2>7. cur_buk' \in 0 .. n /\ cur_buk' # NULL
    BY <1>8, <2>1, <2>2 DEF AllocFromNew, AdjustCur, IsMaxBuk, Listed, NULL
  <2>8. nbuk <= n /\ avals[n] >= size
    BY <2>1, <2>4, ObjMmAssumption
  <2> HIDE DEF n, ptrs, avals
  <2>9. QED
    BY <2>1, <2>2, <2>3, <2>5, <2>6, <2>7, <2>8, TakeKeeps
<1>9. CASE UNCHANGED ObjVars
  BY <1>9 DEF ObjVars, ObjInv, ObjTypeOK, ObjsDisjoint, ObjsInBucket, CurBukSet,
     Accounting, ZeroStub, Listed
<1>10. QED
  BY <1>1, <1>2, <1>3, <1>4, <1>5, <1>6, <1>7, <1>8, <1>9
     DEF ObjNext, alloc_obj

(* alloc_obj, init_mm_obj and clean_mm_obj keep the inductive invariant.   *)
THEOREM ObjInvariance == ObjSpec => []ObjInv
BY ObjInitInv, ObjNextInv, PTL DEF ObjSpec

(* The stub and the bucket heads keep their types. *)
THEOREM ObjTypeSafe == ObjSpec => []ObjTypeOK
<1>1. ObjInv => ObjTypeOK
  BY DEF ObjInv
<1>2. QED
  BY <1>1, ObjInvariance, PTL

(* No two objects handed out by alloc_obj overlap. *)
THEOREM ObjectsSafe == ObjSpec => []ObjsDisjoint
<1>1. ObjInv => ObjsDisjoint
  BY DEF ObjInv
<1>2. QED
  BY <1>1, ObjInvariance, PTL

(* No object handed out by alloc_obj overlaps the head of a bucket or      *)
(* passes its end.                                                         *)
THEOREM BucketsSafe == ObjSpec => []ObjsInBucket
<1>1. ObjInv => ObjsInBucket
  BY DEF ObjInv
<1>2. QED
  BY <1>1, ObjInvariance, PTL

(* alloc_obj never reads aval_size through a NULL cur_buk. *)
THEOREM CurBukSafe == ObjSpec => []CurBukSet
<1>1. ObjInv => CurBukSet
  BY DEF ObjInv
<1>2. QED
  BY <1>1, ObjInvariance, PTL
=============================================================================
