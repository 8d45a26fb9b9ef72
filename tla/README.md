# A TLA+ model of libloader / snitchaser

libloader is an ELF interpreter for 32-bit x86 Linux that records a program's
run: it takes the place of `ld-linux.so.2`, replaces the system call entry in
the auxiliary vector with one that logs, patches the program's entry point and
takes a checkpoint of the process when control arrives there. This directory
holds TLA+ modules for its parts, TLC models of small instances, and proofs
that TLAPS checks. Paths below are relative to `src/src/core/` unless they
start otherwise.

## 1. The system

| Part | Code | State | Operations |
|---|---|---|---|
| Start of a process | `loader/interp_main.c`, `env_conf.c`, `snitchaser_main.c`, `startup_stack.c`, `user_entry.c`, `user_entry.S`, `arch_user_entry.c` | personality, startup stack, AT_SYSINFO, settings, saved patch bytes, `logger_fd` | `xmain`, `reexec`, `load_exec`, `sampling`, `snitchaser_main`, `patch_user_entry`, `arch_user_entry`, `enter_user_entry` |
| ELF loader | `loader/elf.c` | the address space | `load_elf`, `map_first`, `map_region`, `relocate_interp` |
| TLS areas | `loader/tls.c`, `tls.h` | slot bitmap, LDT, list of areas, `%fs` | `alloc_tls_area`, `dealloc_tls_area`, `active_tls` |
| Mutex | `loader/mutex.c`, `futex.c`, `signal.c`, `src/src/include/mutex.h`, `signal.h` | lock word, futex queue, signal masks | `xmutex_lock`, `xmutex_unlock`, `block_signals`, `restore_signals` |
| Object allocator | `loader/mm.c`, `mm.h` | list of buckets, bump pointers | `init_mm_obj`, `alloc_obj`, `clean_mm_obj` |
| System call log | `loader/wrapper.c`, `syscall/*.c`, `syscall/log_and_ckpt.h` | the log file, `logger_sz` | `wrapped_syscall`, 24 post handlers |
| Checkpoint | `loader/checkpoint.c`, `proc.c` | three processes, their memory, the checkpoint file | `fork_checkpoint`, `do_checkpoint`, `ckpt_meminfo`, `ckpt_memseg`, `read_self_procmap` |
| Processor state | `loader/arch_checkpoint.c`, `processor.c` | registers, FPU, TLS descriptors | `arch_checkpoint_*` |
| Buffered output | `loader/bigbuffer.c`, `compression.c` | buffer, file of compressed blocks | `append_bigbuffer`, `flush_bigbuffer` |
| Per-thread logger | `loader/logger.c`, `logger.h`, `logger_tpd.h` | a buffer, its pointers and a mutex for each thread | `init_logger`, `append_logger`, `flush_logger`, `flush_all_logger` |
| Exceptions | `replay/exception.c`, `exception.h` | list of catchers, an exception per frame | `TRY`, `FINALLY`, `CATCH`, `THROW`, `RETHROW`, `NOTHROW` |

How they interact: `xmain` loads the program (ELF loader) and, if the process
is selected, `snitchaser_main` allocates a TLS area (under the mutex), opens
the log and patches the entry. The dynamic linker then runs with the logging
system call entry. At the patch, `arch_user_entry` undoes it and
`enter_user_entry` forks the checkpoint, which destroys the objects of the
allocator in its own copy and writes the file. From then on every system call
of the program, in every thread and signal handler, goes through the wrapper.

What is hard here: the futex mutex and its signal masking; several threads and
signal handlers writing one log without a lock; a thread that fills its buffer
without a lock while others flush it under one; two clones whose memory
diverges while a third process runs on; buffers and buckets that fill exactly;
page arithmetic in the ELF loader; a stack that is rewritten while it is in
use; a patch in the program's text that must be
gone again whatever way control takes; non-local jumps through nested TRY
blocks. `PROJECT.json` lists the hazards with their lines.

The build leaves out some of the code: `core/CMakeLists.txt` has `replay`
commented out, and `futex.c`, `malloc.c`, `arch_syscall.c` and `arch_logger.c`
are in no source list. `flush_all_logger`, `dealloc_tls_area`, `alloc_obj` and
`dead_checkpoint` have no callers.

## 2. The modules

**AbstractLock** is what a lock promises: `holders`, `Acquire`, `Release`.

**XMutex** is `xmutex_lock` and `xmutex_unlock`, one action for each atomic
instruction or system call: `BlockSignals`, `Cas01`, `Cas12`, `FutexWait`,
`Cas02`, `DecAndTest`, `Set0`, `FutexWake`, `RestoreSignals`. A context is a
thread's program or one of its signal handlers, which run on top of each other
(`level`); `Deliver` starts a handler where the mask allows it, with the mask
its `sa_mask` adds, and the handler may lock the same mutex; `SigReturn` puts
the interrupted mask back. `RECORD_PROCMASK` (`src/src/include/signal.h:30`)
leaves SIGILL, SIGBUS, SIGFPE, SIGSEGV and 31 to 33 deliverable, so that their
handlers run inside the lock code too. A handler ends the wait for a futex, and
`Interrupted` restarts one. The module is shown to implement AbstractLock under
a mapping of the owners to `holders`.

**TlsArea** uses AbstractLock for `tls_lock` and has one action for each step
between lock and unlock, so that steps of other threads can come in between
wherever the lock does not exclude them: map the pages, find the slot, set its
bit, write the LDT, link; and the reverse. The bitmap is a function from words
to sets of bits.

**ObjMm** has one action for each way through `alloc_obj`: from the current
bucket, from the one with the most room, from a new one, refused, failing an
assertion. An object is a bucket, an offset and a length; `init_mm_obj` and
`clean_mm_obj` complete it.

**BigBuffer** has the loop of `append_bigbuffer` with its flushes. A byte is
its position in the stream, so that loss, duplication and reordering show; a
block in the file is a head and, after a second write that can fail, its data.

**SyscallLog** is the wrapper. `post_brk` ... `post_uname` give, for an outcome
of the call, the items a handler writes, each with its width; `post_handler` is
the table. An item is written in three steps, the load and the store of
`logger_sz += sz` and the `sys_write`. `Deliver` starts a handler in the midst
of any of them: nothing is masked here.

**Checkpoint** has the parent, the child and the grandchild. Memory is a row of
pages with a kind and a value; `Maps` is the set of lines the kernel shows in
`/proc/self/maps`, taken in order of address; a section of the file has a mark,
a length and a body of at most three parts. Every write and every clone can
fail. The program writes its memory as soon as `fork_checkpoint` has returned.

**Boot** follows a process from `xmain` to its program: the stages are the
functions of the start in their order, the `FATAL` exits included. The text of
the program is a row of bytes that are the program's or the jump's. Between
patch and unpatch the dynamic linker runs, which knows nothing of the patch: it
may relocate any bytes of that mapping (`Relocated`), those of the jump
included (`JumpLost`), and leave another protection. The execve of `reexec`
drops the personality again if the file is set-id (`KeptByExec`). The log is
reduced to a count and the checkpoint to what Checkpoint saves of this state.
The settings are read from the environment with `check_var`, one entry at a
time, and `_atoi`, digit by digit.

**Logger** is `logger.c` for several threads. `append_logger` works without a
lock: its reads and writes of `asm_curr_ptr` and its copy are actions of their
own (`CopySize`, `Dest`, `Copy`, `Load`, `Store`), and so are the steps of
`flush_logger`, which another thread can take on the same logger through
`flush_all_logger`: `LockLogger`, `CurrOffset`, `set_bigbuffer_ptr`,
`OpenFails` and what is dropped after it, the two writes of a block, `Close`.
A byte is its position in the thread's stream. An area is linked (`Link`)
before its logger is initialised, as in the code. The history variables
`early` and `met` note the two cases in which the code gives no guarantee: a
logger that is flushed by others before `init_logger` has reset its mutex, and
a flush by others in the midst of an append.

**ElfLoad** has the functions of `elf.c` over memory byte by byte: each byte
holds a file offset, a zero, nothing, a page behind the end of the file, or what
was there before. The mapping calls are `MapFile`, `Fill` and `CanStore`. The
kernel may find no place: the code does not look at the error, and
`map_first` goes on with it (`unplaced` remembers it).

**Xmain** extends ElfLoad with everything from the loader's first instruction
to the program's: `interp_start` pushes the registers, `relocate_interp` walks
the relocation table, `scan_startup_stack` walks arguments, environment and
auxiliary vector word by word, `set_vsyscall_entry`, `reexec` with a new stack
from the kernel, `load_exec` and `load_real_interp` around ElfLoad's actions,
`SET_INTERP_RETADDR`, and the two ways back out of the entry code. The stack is
a function from words to values; strings are their addresses and lengths. Boot
takes over where Xmain ends and keeps of the stack only whether the loader's
own argument is gone.

**Exceptions** has a stack of frames and the list `curr_catcher_p` of frames
that can be jumped to. `Mc` is the state machine of `exceptions_state_mc`.

The operators with a suffix (`Cas02_As01`, `Guard_None`) after the comment
"Mutant" are wrong variants of the operator that follows: with one of them in
its place, the property it is listed with in `PROJECT.json` is violated.

## 3. The runs

| Run | Instance | What it shows |
|---|---|---|
| `mutex` | three threads, one with two levels of handlers and one with signals blocked; one signal that `RECORD_PROCMASK` blocks and one that it does not | `MutualExclusion`; `NoLostWakeup`: who sleeps is seen by somebody who will wake; `NoSelfDeadlock`: no handler of a blocked signal on top of the lock code, not even above a handler of the other kind; `MaskRestored`: a program or handler outside the lock code has the mask it started with; `ImplementsLock`; `WaitersServed`: once no request and no signal arrives all waiters are served |
| `obj_mm` | three buckets of eight bytes, all sizes | `ObjsDisjoint`: no object overlaps another or the room of the next; `ObjsInBucket` |
| `bigbuffer` | a buffer of three bytes, requests up to seven, a stream of ten | `StreamKept`: file and buffer are the stream; `HeadsTile`: the heads lead from block to block |
| `tls_area` | four threads, pages for three, a bitmap of 2 x 2 bits | `RecordsAgree` between bitmap, list and LDT; `SelfResolves`: `%fs` leads a thread to its own area |
| `syscall_log` | one thread with any two of the 24 calls or an unsupported one; two threads and a handler with one call each | `LogComplete`: each context's items are in the log in order; `SelfDelimiting`: a reader can tell from what it has read how much comes next; `SizeNotOverstated`: `logger_sz` counts no byte that is neither in the log nor about to be, and is exact as long as one context makes the calls |
| `checkpoint` | thirteen pages of all kinds, a file that may be too short | `FinishedIsComplete`: a file with an end mark has every section with its right length; `SnapshotConsistent`, `ParentResumes` |
| `checkpoint_maps` | a read that returns four lines | violation, see section 6 |
| `boot` | a mapping of four bytes, a jump of two, all ways to start, environments that set the sampling rate in several ways, relocations in and outside the jump | `ProgramUnharmed`: a program that runs has the bytes its file and its linker gave it, `CheckpointAtEntry`, `CheckpointKnowsLog`, `PatchInside`, `SamplingObeyed`: who is traced is what the last settings in the environment say, for every rate that fits in an int; `BootEnds`: unless it is set-id, a process comes to its program or to a `FATAL` |
| `boot_read_only_stdin` | processes that sampling leaves out | violation, see section 6 |
| `exceptions` | frames nested three deep | `CatchersLive`: the list holds only frames that exist; `NoFault`: the machine is never used in a wrong order, whatever is thrown from where and even if a body is left with `break`; `CatchIffThrown`; `FatalNotEaten` |
| `logger` | two threads, a buffer of three bytes of which one is reserved | `CursorInside`: copies and `asm_curr_ptr` stay below `asm_end_ptr`; `BlocksWhole`: head and data of a block are adjacent; `StreamKept`: log and buffer are the thread's stream, less what a flush had to drop; `AppendEnds` |
| `xmain` | 2132 starts: files of two or three segments on pages of four bytes, with PT_PHDR and PT_INTERP before them if they need `ld-linux.so.2`, at every place with room, the entry in the first or the second segment; stacks with none to three arguments and none to two variables; auxiliary vectors with each entry missing; good and bad relocation tables | `ImageRight`: the segments, zeroes included; `NeighboursIntact`: nothing else is touched; `StackForProgram`: the program finds `argc`, arguments and environment as if the loader's argument had never been there, the registers as at the start, and is entered at its entry; `AuxvDescribesImage`; `InfoRight`: the bounds of command line, environment and file name |

`tls_area` and `xmain` also check `TypeOK`: in TlsArea it includes that a slot
is always an entry of the LDT, in Xmain that `auxv_info` points at values of
the right auxiliary entries whatever is moved below them. The `TypeOK` of
XMutex, ObjMm (`ObjTypeOK`), BigBuffer (`BbTypeOK`), Logger, Boot and
Exceptions is proved (section 4); SyscallLog and Checkpoint state none, and
their invariants have the types they need.

### Bounds, and why they are enough

* `mutex`: three threads are an owner, a sleeper and a newcomer, which is what
  the steps between 1 and 2 need. `MaxLevel` = 2 for one of them puts a handler
  of the blocked signal on top of one of the other inside the lock code, if the
  masks allowed it. Deadlock is not checked: a handler of a deliverable signal
  that locks on top of its own thread's owner waits for ever.
* `obj_mm`: with sizes from 0 to the bucket's, two buckets let the search for
  the roomiest one matter and a third lets the pages run out.
* `bigbuffer`: requests of more than twice the buffer go round the loop three
  times; ten bytes let a partly filled buffer meet every size.
* `tls_area`: the third slot is in the second word, and the fourth thread finds
  no pages. `LDT_ENTRIES` is at least the number of areas, which holds for the
  real 8192 entries if `TLS_AREA_SIZE` is some 384 KB or more.
* `syscall_log`: two calls of one context show that one record ends where the
  next begins; three contexts show any two of them interleaved under a third.
  A call's result is at most `MaxResult` = 2, which gives records with no, one
  and several bytes of data.
* `checkpoint`: the hole has room for the buffer and its guards in two places.
  `ScratchSz` and the guard are one page each.
* `boot`: the entry is at each of four bytes, so that the jump fits twice; the
  relocated byte is one of the jump's or not.
  `MaxCalls` is two: none, some, and some before and after the checkpoint.
* `exceptions`: three frames allow a throw past a frame into one that is not
  the outmost.
* `logger`: the thread that appends fills the two bytes it may use, goes round
  the loop again, and can meet a flush of the other thread at each step. A
  second stream would add nothing to the first: a thread touches another's
  logger only to flush it. Each thread makes `MaxCalls` = 1 explicit flush.
* `xmain`: pages of four bytes with segment sizes on, before and behind a
  page's end, gaps of up to a page, one to three pages of zeroes. `NPages` = 12
  leaves every such file several places.

Deadlock is not checked where a process can end or a bound is reached.

### Fairness

* XMutex: weak fairness for the steps of lock and unlock and for the return of
  handlers. The kernel keeps scheduling runnable threads. A handler need not be
  delivered. `WaitersServed` has the premises that from some time on no request
  and no signal arrives, since the mutex lets newcomers overtake a waiter, and
  that no handler locks on top of its own thread's owner.
* Checkpoint: weak fairness for the parent and the child and none for the
  grandchild, which may be blocked on a disk: `ParentResumes` says that the
  program does not depend on it.
* Logger: weak fairness for each thread that is inside a function; nobody has
  to call one. `AppendEnds` has the premise that others stop flushing this
  logger at some time, since they could always be first at its mutex.
* Boot: weak fairness for the process as a whole, which includes that the
  dynamic linker ends. `BootEnds` leaves set-id files out (section 6).

## 4. The proofs

TLAPS checks eight modules; each extends its component (ServiceProofs three and
BootProofs two, for which ObjMm, BigBuffer and Exceptions prefix `Init`, `Next`
and `Spec` with `Obj`, `Bb` and `Exc`) and states an inductive invariant,
`IInv` in most, proves `Init => IInv` and `IInv /\ [Next]_vars => IInv'` action
by action, and draws the properties from it.

* **ServiceProofs**. XMutex, for every set of threads, signals and masks and
  every depth of handlers: `LockInv` has `MutualExclusion`, `LockedIffOwned`
  and `NoLostWakeup`, which are inductive only together: exclusion needs that a
  non-zero word has an owner, and the wake-up needs to know who will look at
  the word. `ThreadInv` and `MaskInv` say for every level of a thread which
  mask is in force there, which one its context has saved, and that a handler
  was started with the mask in force below it and its own, which above the lock
  code of any level includes all of `RECORD_PROCMASK`. `TypeSafe`, `MutexSafe`,
  `WakeupSafe`, `HandlerSafe` and `MaskSafe` follow, and `Refinement` maps each
  step to `Acquire`, `Release` or a stutter. BigBuffer, for every buffer size
  and stream: `LastBlock` relates the last head to the data written so far,
  between the two writes of a block and after them. `BbTypeSafe`, `StreamSafe`,
  `BlocksSafe`, and `FlushAsserted`: the assertion before the flush in
  `append_bigbuffer`. Exceptions, for every depth of nesting: `ExcIInv` says of
  each frame which state of the machine goes with its phase, that all but the
  top one are in a body, a FINALLY or a CATCH, and that the list of catchers is
  the frames that are still trying, innermost first. `ExcTypeSafe`,
  `CatchersSafe`, `FaultFree`, `CatchSafe`, `FatalSafe`.
* **BootProofs**. Boot, for every size of mapping and patch, every entry,
  setting, set of relocations and number of calls. `PatchInv` says for each
  stage whether the text is clean, patched with the right bytes put aside,
  relocated over the patch, or restored; `CkptInv`, `LogInv` and
  `ArgsInv` do the same for the checkpoint, the log and the arguments.
  `TypeSafe`, `ProgramSafe`, `CheckpointSafe`, `LogOffsetSafe`, `PatchSafe`.
  `SamplingSafe` is about two loops, `read_env_conf` over the environment and
  `_atoi` over the digits, which the model has as recursive functions. The
  library's induction theorems cannot be used, so the proofs take the least
  index at which a claim fails, and a lemma (`LoopExists`) shows that a function
  with such a definition exists. `_atoi` undoes the division by which `Decimal`
  writes a number.
  ObjMm, for every bucket size, head size and set of sizes:
  `Accounting` says that a bucket's pointer and its available size add up to its
  end and that its objects lie below the pointer; without it
  `ObjsDisjoint` is not preserved. `ObjTypeSafe`, `ObjectsSafe`, `BucketsSafe`,
  and `CurBukSafe`: `alloc_obj` never follows a NULL `cur_buk`.
* **CheckpointProofs**, for every layout of the memory and every size of buffer
  and guard. `Procs` says where the three processes can be; `MemInv` what each
  has in its memory, which for the grandchild depends on its place alone;
  `FileInv` that the buffer is an island between free pages and that the
  sections of memory in the file belong to different lines, all dealt with and
  none the buffer's. It rests on three facts about the maps file: every mapped
  page is in a line, lines with different starts are disjoint, and a line is
  known by its start. `SnapshotSafe`. `FinishedIsComplete` is false of the code
  when the maps file is longer than one read (section 6), so `CompleteSafe` has
  `MapsReadWhole` for a hypothesis; `CoverInv` then says that every line is
  passed over, saved or to come. `ReadWhole` shows that hypothesis from
  `MapsShort`, that at the time of the read the maps file has no more lines
  than one read returns, and `CompleteIfShort` joins the two.
* **LoggerProofs**, for every set of threads, buffer size and reserve that
  leaves room for the largest value, and any number of flushes. `CursorInv`
  says that the room a thread has found is still there when it copies, because
  others only ever move `asm_curr_ptr` back to the start. `FlushInv` ties the
  logger a thread flushes to its place in the code; `LockInv` says that of two
  threads between lock and unlock of one logger one is not there, for loggers
  that were initialised before others flushed them; `FileInv` follows a block
  from its head to its data. `TypeSafe`, `CursorSafe`, `BlocksSafe`.
* **StreamProofs** goes on from LoggerProofs, under the same assumptions.
  `StreamInv` says of a logger that nobody flushes in the midst of an append
  (`met`) how file, buffer and a block under way join to the stream: the
  buffer holds its last bytes, the file ascends and ends where the buffer or
  the block begins, and a thread whose open has failed drops only what `failed`
  tells of. `StreamSafe`.
* **SyscallLogProofs**, for any threads, handlers, calls and results.
  `LogComplete` is inductive with the types and the step of `__write_logger` a
  context is at; it counts a context's items in the shared log by their rank, so
  that an item of another context moves nothing. `SizeInv` bounds `logger_sz` by
  the bytes in the file and on their way, also between the load and the store of
  `logger_sz += sz`. `SelfDelimiting` is shown handler by handler for every
  result. `ItemsComplete`, `LogSelfDelimiting`, `SizeRight`.
* **TlsAreaProofs**, for every number of threads and areas, any word size and
  bitmap of at least as many bits. `LockInv` says that only the owner of
  `tls_lock` is in the midst of a change; `MineInv`, `ListInv`, `BitInv`,
  `LdtInv` and `FsInv` say what bitmap, LDT, list and `%fs` hold at each step
  between lock and unlock, where they disagree by the owner's slot alone.
  First fit needs a counting argument: while areas are fewer than entries, the
  first clear bit is below `LDT_ENTRIES`. `TypeSafe`, `RecordsSafe`, `SelfSafe`.
* **ElfProofs**, for every size of page and of the address space, and every
  file with any number of segments. `LoadInv` says, when the loop of `load_elf`
  is at its next header, that the first segment and the ones passed so far are
  in memory as they should be (`Right`), that the pages of the ones to come are
  free, and that no byte outside the pages of the image differs from `before`
  (for a file that can go anywhere, none that was mapped). A step maps
  one segment, and leaves the others because their pages are apart: this is
  the part of a linker's contract the code relies on, and the assumption
  `Linked`. `LoadInvariance`, `ImageSafe`, `NeighboursSafe`.

The assumptions are the named `ASSUME`s of the components (numbers are natural,
sizes positive, sets in range), and for Xmain what linkers and execve make:
`Linked` (a segment lies in the file, is not empty, and shares no page with
another; other headers may come anywhere), `Relocatable` (the relocation table
stays inside its tables and relocates the word of `wrapped_syscall_entry` at
most once) and `Executed` (no type is twice in the auxiliary vector, and a file
name is not empty). TLC evaluates them for all starts of the `xmain` run.

Only model-checked:

* liveness (`WaitersServed`, `ParentResumes`, `BootEnds`, `AppendEnds`), which
  the prover does not do;
* Xmain apart from the images, whose actions fold over the words of the stack.

## 5. What is left out

* Contents: registers, the bytes of records and sections, messages and names.
* The compression itself, the kernel library, the heap (third-party code).
* `arch_checkpoint.c` and `processor.c`: straight-line copying of registers, FPU
  state and descriptors into structures.
* `snitchaser_tpd.c` and the offset calculator: numbers fixed at build time.
* `arch_logger.c`, `arch_syscall.c` and `arch_syscall.S`, which write into the
  per-thread logger from assembler and are in no source list.
* The parsing of a maps line character by character; `dead_checkpoint`,
  `xmalloc` and its family and other code without callers.
* Header fields of an ELF file one by one: a file passes the checks of
  `open_elf_file` or does not.
* Printing and formatting.

Measured in lines the models cover a small part of the tree, since most of it is
kernel headers under `src/src/`, dlmalloc, LZO and the kernel's library. Of the
loader itself the files above are what is left out.

## 6. Where code and statement disagree

Checked by a run of its own:

* `checkpoint_maps`: `read_self_procmap` reads the maps file with one read and
  takes what it gets for the whole (`loader/proc.c:214`). A process with more
  lines than the kernel returns at once gets a checkpoint with an end mark and
  without part of its memory.
* `boot_read_only_stdin`: the logging entry is installed before the process is
  known to be selected (`loader/interp_main.c:340`); one that is not selected
  logs to descriptor 0 and fails the assertion of `log_and_ckpt.h:37` when that
  is not writable.

Seen while modelling; the models have the behaviour, and no property speaks of
it:

* An object that fills its bucket exactly passes the test of
  `loader/mm.c:110` and fails the assertion of line 115 (`AssertInCur`).
* An append that ends exactly at the buffer's end leaves it full, and the next
  one fails the assertion of `loader/bigbuffer.c:57`.
* `get_aval_size` computes the part of a mapping its file covers and returns the
  whole (`loader/checkpoint.c:54`): a mapping past its file's end costs the
  checkpoint (`SaveFails`).
* `_atoi` knows no minus sign (`loader/env_conf.c:17`): a sampling setting of
  "-1" is read as 0; the branch of `sampling` for negative settings is there for
  the default. It has no limit on the digits either.
* A handler of a signal that `RECORD_PROCMASK` leaves deliverable (a SIGSEGV
  inside the lock code, say) that takes the lock its own thread holds waits for
  ever (`LocksOnItself`).
* `reexec` of a set-id file goes on for ever: execve clears ADDR_NO_RANDOMIZE
  (PER_CLEAR_ON_SETID), and the loader sets it and executes the file again
  (`loader/interp_main.c:205`).
* A program whose dynamic linker relocates the first bytes at its entry does not
  survive being traced: the patch lies there at that time (`JumpLost`). The
  protection put back by `unpatch_user_entry` is the one from before the linker
  ran (`loader/arch_user_entry.c:57`).
* `logger_sz`, "size of logger file" (`syscall/log_and_ckpt.h:30`), loses
  additions when two threads log at once; it is never too large
  (`SizeNotOverstated`).
* `flush_all_logger` in the midst of another thread's append can write bytes
  twice or drop them (`met`), and a logger that it flushes before `init_logger`
  has its mutex reset under it (`early`). `flush_all_logger` has no callers.
* `#if BIGBUFFER_SZ <= 32` (`loader/logger.c:47`) admits 33 to 35, where a
  value of four bytes does not fit below `asm_end_ptr`; the proofs assume that
  it does.
* `map_first` does not look at the result of its mmap (`loader/elf.c:220`).
* Without an environment or an argument `scan_startup_stack` takes the length of
  a NULL string (`loader/startup_stack.c:105`, 108), and without AT_SYSINFO_EHDR
  `xmain` reads through NULL for a message (`loader/interp_main.c:336`).
* AT_BASE still names the loader when the real interpreter is in place, and the
  file name at the bottom of the stack is the loader's if it was run by hand.
* `xrealloc` (`loader/snitchaser_main.c:188`) does not do what the comment above
  it quotes from the manual; it has no callers.
* `map_region` writes the padding of read-only segments too
  (`loader/elf.c:287`) and faults; `map_first` tests `PF_W`. A segment that has
  no bytes in the file and starts on a page fails an assertion.
* A signal during `wait4` fails the assertion of `loader/checkpoint.c:389`.

## 7. What could come next

1. A composition of SyscallLog and Checkpoint: calls after the checkpoint, read
   back from the offset it has saved.
2. The assembler half of the per-thread logger, should the build take it in.
