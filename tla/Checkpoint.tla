----------------------------- MODULE Checkpoint -----------------------------
(***************************************************************************)
(* fork_checkpoint of core/loader/checkpoint.c.  The traced process clones *)
(* a child, which clones a grandchild and exits; the parent waits for the  *)
(* child only and goes on, while the grandchild writes the memory it has   *)
(* inherited to the checkpoint file, driven by /proc/self/maps (proc.c).   *)
(*                                                                         *)
(* Memory is a row of pages, each with a kind and a value; a line of the   *)
(* maps file is a longest run of pages of one kind, the kernel merging     *)
(* neighbouring mappings that are alike.  Sizes are in pages and words.    *)
(***************************************************************************)
EXTENDS Integers, Sequences, FiniteSets

CONSTANTS
  NPages,
  InitKinds,      \* the kind of each page when fork_checkpoint is called
  PastEofs,       \* the sets of pages that can lie past the end of a mapped file
  PROCMAP_GUARD,
  ScratchSz,      \* MAX_PROC_MAPS_FILE_SIZE
  LinesPerRead    \* how many lines one read of /proc/self/maps can return

Pages == 1 .. NPages

(* "bucket": a bucket of mm.c; "noread": mapped without PROT_READ;         *)
(* "shared": MAP_SHARED memory, the same for all three processes; "own":   *)
(* the TLS area, with the stack the grandchild runs on.                    *)
Kinds == {"none", "anon", "bucket", "file", "noread", "dev", "shared", "own"}

CheckpointConstants ==
    /\ NPages \in Nat /\ PROCMAP_GUARD \in Nat \ {0} /\ ScratchSz \in Nat \ {0}
    /\ LinesPerRead \in Nat \ {0}
    /\ InitKinds \in [Pages -> Kinds]
    /\ \A S \in PastEofs : S \subseteq {p \in Pages : InitKinds[p] = "file"}

ASSUME CheckpointAssumption == CheckpointConstants

VARIABLES
  beyond,     \* the pages past the end of their file; never changes
  parent,     \* where each of the three processes is
  child,
  grandchild,
  pmem,       \* the parent's memory
  cmem,       \* the grandchild's
  snap,       \* history: the memory fork_checkpoint was called with
  scratch,    \* procmap_ptr
  lines,      \* the lines of the maps file not yet dealt with
  file        \* the sections of the checkpoint file

vars == <<beyond, parent, child, grandchild, pmem, cmem, snap, scratch, lines, file>>

InitMem == [p \in Pages |-> [kind |-> InitKinds[p], val |-> 0]]

Init ==
    /\ beyond \in PastEofs
    /\ parent = "enter" /\ child = "none" /\ grandchild = "none"
    /\ pmem = InitMem /\ cmem = InitMem /\ snap = InitMem
    /\ scratch = 0
    /\ lines = {}
    /\ file = <<>>

-----------------------------------------------------------------------------
(* The parent and the child *)

(* clone gives the child a copy of the memory, or fails an assertion. *)
ForkChild ==
    /\ parent = "enter"
    /\ \/ parent' = "wait" /\ child' = "fork" /\ cmem' = pmem
       \/ parent' = "dead" /\ UNCHANGED <<child, cmem>>
    /\ UNCHANGED <<beyond, grandchild, pmem, snap, scratch, lines, file>>

(* The child clones the grandchild, or fails, and ends either way. *)
ForkGrandchild ==
    /\ child = "fork"
    /\ child' = "zombie"
    /\ grandchild' \in {"clear", "none"}
    /\ UNCHANGED <<beyond, parent, pmem, cmem, snap, scratch, lines, file>>

(* Mutant: the parent waits until the checkpoint is written. *)
Wait_Written ==
    /\ parent = "wait"
    /\ child = "zombie" /\ grandchild \in {"none", "exited", "dead"}
    /\ child' = "reaped"
    /\ parent' = "user"
    /\ UNCHANGED <<beyond, grandchild, pmem, cmem, snap, scratch, lines, file>>

(* wait4 returns when the child has ended; enter_user_entry then sets the  *)
(* resume address and the program runs.                                    *)
Wait ==
    /\ parent = "wait"
    /\ child = "zombie"
    /\ child' = "reaped"
    /\ parent' = "user"
    /\ UNCHANGED <<beyond, grandchild, pmem, cmem, snap, scratch, lines, file>>

(* A signal handler interrupts wait4: assert(err == tmppid). *)
WaitInterrupted ==
    /\ parent = "wait"
    /\ parent' = "dead"
    /\ UNCHANGED <<beyond, child, grandchild, pmem, cmem, snap, scratch, lines, file>>

(* The program writes its memory while the grandchild may be saving it. *)
UserWrites ==
    /\ parent = "user"
    /\ \E p \in Pages : /\ pmem[p].kind \in {"anon", "shared"}
                        /\ pmem' = [pmem EXCEPT ![p].val = 1]
    /\ UNCHANGED <<beyond, parent, child, grandchild, cmem, snap, scratch, lines, file>>

-----------------------------------------------------------------------------
(* The grandchild *)

Goto(l) == grandchild' = l

Unmapped == [kind |-> "none", val |-> 0]

(* clear_all_thread_mem: free_aux_mem unmaps the buckets of every thread.  *)
(* What it and init_self_bigbuffer write goes to the TLS area.             *)
ClearThreadMem ==
    /\ grandchild = "clear"
    /\ cmem' = [p \in Pages |-> CASE cmem[p].kind = "bucket" -> Unmapped
                                  [] cmem[p].kind = "own" -> [cmem[p] EXCEPT !.val = 1]
                                  [] OTHER -> cmem[p]]
    /\ Goto("info")
    /\ UNCHANGED <<beyond, parent, child, pmem, snap, scratch, lines, file>>

NoSub == [have_imark |-> FALSE, imark |-> "", units |-> <<>>]

(* Element i of the list passed to write_section_sg; no caller has more    *)
(* than three.                                                             *)
Sub(list, i) == IF i <= Len(list) THEN list[i] ELSE NoSub

SubLen(s) == Len(s.units) + (IF s.have_imark THEN 2 ELSE 0)

SubBody(s) == (IF s.have_imark THEN <<s.imark, Len(s.units)>> ELSE <<>>) \o s.units

(* The length write_section_sg puts in a section's header, in words. *)
SectionLen(list) == SubLen(Sub(list, 1)) + SubLen(Sub(list, 2)) + SubLen(Sub(list, 3))

(* What it writes after the header. *)
SectionBody(list) ==
    SubBody(Sub(list, 1)) \o SubBody(Sub(list, 2)) \o SubBody(Sub(list, 3))

Section(mark, list) ==
    [mark |-> mark, len |-> SectionLen(list), body |-> SectionBody(list)]

Plain(mark) == Section(mark, <<[have_imark |-> FALSE, imark |-> "", units |-> <<"info">>]>>)

(* The file's head, which has a fixed size, stands here as a section too.  *)
BaseInfo == <<Plain("EXEC"), Plain("ARGS"), Plain("ENVS")>>

ArchInfo == <<Plain("CPU"), Plain("TLS")>>

(* The file is opened and the head, ckpt_baseinfo and ckpt_archinfo are    *)
(* written.  Opening it or any of the writes can fail, which ends the      *)
(* grandchild; a section written in part is left out of file.              *)
WriteInfo ==
    LET info == <<Plain("HEAD")>> \o BaseInfo \o ArchInfo
    IN  /\ grandchild = "info"
        /\ \/ file' = info /\ Goto("map")
           \/ \E n \in 0 .. Len(info) - 1 : file' = SubSeq(info, 1, n) /\ Goto("dead")
        /\ UNCHANGED <<beyond, parent, child, pmem, cmem, snap, scratch, lines>>

(* The lines of the maps file: the longest runs of pages of one kind. *)
Maps(m) ==
    {r \in [start : Pages, end : Pages, kind : Kinds \ {"none"}] :
        /\ r.start <= r.end
        /\ \A p \in r.start .. r.end : m[p].kind = r.kind
        /\ r.start = 1 \/ m[r.start - 1].kind # r.kind
        /\ r.end = NPages \/ m[r.end + 1].kind # r.kind}

(* Mutant: no guard pages around the buffer. *)
Guard_None == 0

(* The pages left free on each side of the buffer for the maps file. *)
Guard == PROCMAP_GUARD

(* read_self_procmap: one read, which returns whole lines in order of      *)
(* address, and as many as the kernel's buffer for the file holds.         *)
ReadMaps(m) ==
    LET all == Maps(m)
    IN  {r \in all : Cardinality({s \in all : s.start < r.start}) < LinesPerRead}

(* ckpt_meminfo: the buffer is mapped with a guard on each side, the       *)
(* guards are unmapped and the maps file is read into it.                  *)
MapScratch ==
    LET total == ScratchSz + 2 * Guard
    IN  /\ grandchild = "map"
        /\ \E s \in 1 .. NPages - total + 1 :
              /\ \A p \in s .. s + total - 1 : cmem[p].kind = "none"
              /\ scratch' = s + Guard
              /\ cmem' = [p \in Pages |->
                             IF p \in scratch' .. scratch' + ScratchSz - 1
                             THEN [kind |-> "anon", val |-> 0] ELSE cmem[p]]
        /\ lines' = ReadMaps(cmem')
        /\ Goto("seg")
        /\ UNCHANGED <<beyond, parent, child, pmem, snap, file>>

(* There is no room for the buffer, or the maps file cannot be opened. *)
MapFails ==
    /\ grandchild = "map"
    /\ Goto("dead")
    /\ UNCHANGED <<beyond, parent, child, pmem, cmem, snap, scratch, lines, file>>

(* Mutant: clone with CLONE_VM. *)
PageVal_Live(p) == pmem[p].val

(* Reading a page through a MAP_SHARED mapping shows what the program has  *)
(* written by now.                                                         *)
PageVal(p) == IF cmem[p].kind = "shared" THEN pmem[p].val ELSE cmem[p].val

(* get_aval_size, for a file mapping: what the file's size leaves of the   *)
(* mapping is computed, and the size asked for is returned.                *)
get_aval_size(r) == r.end - r.start + 1

(* The pages of mapping r that ckpt_memseg saves: none of a device, all of *)
(* an internal mapping.                                                    *)
SavedSz(r) ==
    CASE r.kind = "dev" -> 0
      [] r.kind = "file" -> get_aval_size(r)
      [] OTHER -> r.end - r.start + 1

(* The section ckpt_memseg writes for r. *)
MemSeg(r) ==
    LET sz == SavedSz(r)
        finfo == <<[start |-> r.start, end |-> r.end, ckpt_sz |-> sz]>>
        data == [i \in 1 .. sz |-> PageVal(r.start + i - 1)]
    IN  Section("MEMSEG", <<[have_imark |-> TRUE, imark |-> "FN", units |-> <<r.kind>>],
                            [have_imark |-> TRUE, imark |-> "FINFO", units |-> finfo],
                            [have_imark |-> TRUE, imark |-> "FDATA", units |-> data]>>)

(* The line read_maps_line comes to next. *)
IsNext(r) == r \in lines /\ \A s \in lines : r.start <= s.start

(* The buffer's own line is passed over. *)
SkipScratch ==
    /\ grandchild = "seg"
    /\ \E r \in lines : /\ IsNext(r) /\ r.start = scratch
                        /\ lines' = lines \ {r}
    /\ UNCHANGED <<beyond, parent, child, grandchild, pmem, cmem, snap, scratch, file>>

(* ckpt_memseg of the next line.  A mapping without PROT_READ is made      *)
(* readable meanwhile; a page past the end of its file cannot be read.     *)
SaveSegment ==
    /\ grandchild = "seg"
    /\ \E r \in lines : /\ IsNext(r) /\ r.start # scratch
                        /\ (r.start .. r.start + SavedSz(r) - 1) \cap beyond = {}
                        /\ file' = Append(file, MemSeg(r))
                        /\ lines' = lines \ {r}
    /\ UNCHANGED <<beyond, parent, child, grandchild, pmem, cmem, snap, scratch>>

(* writeto fails: the disk is full, or the data cannot be read. *)
SaveFails ==
    /\ grandchild = "seg"
    /\ \A r \in lines : IsNext(r) => r.start # scratch
    /\ Goto("dead")
    /\ UNCHANGED <<beyond, parent, child, pmem, cmem, snap, scratch, lines, file>>

(* After the last line the buffer is unmapped, the end mark is written,    *)
(* the file is closed and the grandchild exits.                            *)
Finish ==
    /\ grandchild = "seg"
    /\ lines = {}
    /\ cmem' = [p \in Pages |-> IF p \in scratch .. scratch + ScratchSz - 1
                                THEN Unmapped ELSE cmem[p]]
    /\ file' = Append(file, Section("END", <<>>))
    /\ Goto("exited")
    /\ UNCHANGED <<beyond, parent, child, pmem, snap, scratch, lines>>

GrandchildStep ==
    \/ ClearThreadMem \/ WriteInfo \/ MapScratch \/ MapFails \/ SkipScratch
    \/ SaveSegment \/ SaveFails \/ Finish

Next ==
    \/ ForkChild \/ ForkGrandchild \/ Wait \/ WaitInterrupted \/ UserWrites
    \/ GrandchildStep

Spec == Init /\ [][Next]_vars

(* The kernel keeps running the parent and the child; the grandchild may   *)
(* be starved, or blocked on a slow disk, for ever.                        *)
Fairness == WF_vars(ForkChild) /\ WF_vars(ForkGrandchild) /\ WF_vars(Wait)

FairSpec == Spec /\ Fairness

-----------------------------------------------------------------------------
(* Properties *)

Finished == file # <<>> /\ file[Len(file)].mark = "END"

MemSegs == {i \in 1 .. Len(file) : file[i].mark = "MEMSEG"}

Finfo(i) == file[i].body[6]

(* What has to be in the file: all memory but the buckets of mm.c, which   *)
(* "should have been destoried", and the contents of devices.              *)
ToSave == {p \in Pages : snap[p].kind \notin {"none", "bucket", "dev"}}

SavedBy(i) == Finfo(i).start .. Finfo(i).start + (Len(file[i].body) - 8) - 1

(* A file that has its end mark holds every page the process had when it   *)
(* called fork_checkpoint, each exactly once, and nothing of the buffer    *)
(* the grandchild read the maps into; and it can be read: skipping a       *)
(* section by its length leads to the next one, and the size in the file   *)
(* info of a mapping is that of the data behind it.                        *)
FinishedIsComplete ==
    Finished =>
        /\ UNION {SavedBy(i) : i \in MemSegs} = ToSave
        /\ \A i, j \in MemSegs : i # j => SavedBy(i) \cap SavedBy(j) = {}
        /\ \A i \in 1 .. Len(file) : file[i].len = Len(file[i].body)
        /\ \A i \in MemSegs : Finfo(i).ckpt_sz = file[i].body[8]

(* The pages saved have the values they had when fork_checkpoint was       *)
(* called, however far the parent has run on.  Memory shared with the      *)
(* parent is beyond the reach of the copy clone makes, and the grandchild  *)
(* works in its TLS area, which has its stack.                             *)
SnapshotConsistent ==
    \A i \in MemSegs : \A p \in SavedBy(i) :
        snap[p].kind \notin {"shared", "own"} =>
            file[i].body[8 + p - Finfo(i).start + 1] = snap[p].val

(* fork_checkpoint returns (or fails an assertion) even if the grandchild  *)
(* never gets to run: writing the checkpoint does not stop the program.    *)
ParentResumes == <>(parent \in {"user", "dead"})

(* read_self_procmap either gets the whole maps file or fails its check    *)
(* "/proc/self/maps too large, increase MAX_PROC_MAPS_FILE_SIZE".          *)
MapsReadWhole ==
    [][grandchild = "map" /\ grandchild' = "seg" => lines' = Maps(cmem')]_vars
=============================================================================
