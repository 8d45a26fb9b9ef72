------------------------------- MODULE XMutex -------------------------------
(***************************************************************************)
(* The futex mutex of core/loader/mutex.c, at the granularity of its       *)
(* atomic instructions and system calls, together with the blocking of     *)
(* signals that xmutex_lock and xmutex_unlock do (signal.c) and the part   *)
(* of the kernel's futex they use (futex.c).                               *)
(*                                                                         *)
(* A thread executes its program at level 0.  A signal that its mask lets  *)
(* through starts a handler, which runs one level up and may itself take   *)
(* the lock or be interrupted.  RECORD_PROCMASK, the mask inside the lock  *)
(* code, lets some signals through (SIGSEGV, signal 33 and others), so     *)
(* that handlers run inside the lock code too.  A context is a level of a  *)
(* thread.                                                                 *)
(***************************************************************************)
EXTENDS Integers

CONSTANTS
  Threads,
  Signals,           \* the signals that have a handler
  RECORD_PROCMASK,   \* the signals blocked inside the lock code
  UserMask,          \* the signals each thread's program has blocked
  HandlerMasks,      \* what a handler's sa_mask and flags block besides
  MaxLevel           \* bound: how many handlers run on top of each other

ASSUME XMutexAssumption ==
    /\ RECORD_PROCMASK \subseteq Signals
    /\ UserMask \in [Threads -> SUBSET Signals]
    /\ HandlerMasks \subseteq SUBSET Signals
    /\ MaxLevel \in [Threads -> Nat]

Contexts == UNION {{t} \X (0 .. MaxLevel[t]) : t \in Threads}

VARIABLES
  val,     \* struct xmutex.val: 0 free, 1 locked, 2 locked with waiters
  pc,      \* where each context is in xmutex_lock / xmutex_unlock
  level,   \* the level each thread is executing at
  mask,    \* the signal mask of each thread
  saved,   \* the sigset_t each context got from block_signals
  frame    \* of each handler, its signal, the mask it has interrupted and
           \* the one it was started with

vars == <<val, pc, level, mask, saved, frame>>

Masks == SUBSET Signals

NoSignal == "none"

Frames == [sig : Signals \cup {NoSignal}, under : Masks, own : Masks]

PCs == {"out",                           \* not in, and not holding, the lock
        "cas01", "cas12", "wait", "sleep", "cas02",       \* xmutex_lock
        "owner",                                          \* critical section
        "set0", "wake", "restore"}                        \* xmutex_unlock

(* The thread of p is running at p's level. *)
Running(p) == level[p[1]] = p[2]

At(p, l) == Running(p) /\ pc[p] = l

Goto(p, l) == pc' = [pc EXCEPT ![p] = l]

(* The frame of a context that is no handler. *)
Program(t) == [sig |-> NoSignal, under |-> {}, own |-> UserMask[t]]

Init ==
    /\ val = 0
    /\ pc = [p \in Contexts |-> "out"]
    /\ level = [t \in Threads |-> 0]
    /\ mask = UserMask
    /\ saved = [p \in Contexts |-> {}]
    /\ frame = [p \in Contexts |-> Program(p[1])]

-----------------------------------------------------------------------------
(* xmutex_lock *)

(* Mutant: the mask is saved but signals stay deliverable. *)
BlockSignals_NoMask(p) ==
    /\ At(p, "out")
    /\ saved' = [saved EXCEPT ![p] = mask[p[1]]]
    /\ Goto(p, "cas01")
    /\ UNCHANGED <<val, level, mask, frame>>

(* Mutant: the mask is read back after it was replaced. *)
BlockSignals_SaveNew(p) ==
    /\ At(p, "out")
    /\ saved' = [saved EXCEPT ![p] = RECORD_PROCMASK]
    /\ mask' = [mask EXCEPT ![p[1]] = RECORD_PROCMASK]
    /\ Goto(p, "cas01")
    /\ UNCHANGED <<val, level, frame>>

(* sigset = block_signals() *)
BlockSignals(p) ==
    /\ At(p, "out")
    /\ saved' = [saved EXCEPT ![p] = mask[p[1]]]
    /\ mask' = [mask EXCEPT ![p[1]] = RECORD_PROCMASK]
    /\ Goto(p, "cas01")
    /\ UNCHANGED <<val, level, frame>>

(* A cmpxchg(0, new) that failed found the lock held: with waiters already  *)
(* announced the caller sleeps at once, else it announces itself first.     *)
AfterFailedCas == IF val = 2 THEN "wait" ELSE "cas12"

CasFromFree(p, from, new) ==
    /\ At(p, from)
    /\ \/ val = 0 /\ val' = new /\ Goto(p, "owner")
       \/ val # 0 /\ Goto(p, AfterFailedCas) /\ UNCHANGED val
    /\ UNCHANGED <<level, mask, saved, frame>>

(* c = atomic_cmpxchg(&lock->val, 0, 1), the uncontended attempt *)
Cas01(p) == CasFromFree(p, "cas01", 1)

(* atomic_cmpxchg(&lock->val, 1, 2): the wait is skipped if the lock is free *)
Cas12(p) ==
    /\ At(p, "cas12")
    /\ \/ val = 0 /\ Goto(p, "cas02") /\ UNCHANGED val
       \/ val # 0 /\ val' = 2 /\ Goto(p, "wait")
    /\ UNCHANGED <<level, mask, saved, frame>>

(* Mutant: the expected value is not compared before sleeping. *)
FutexWait_NoCompare(p) ==
    /\ At(p, "wait")
    /\ Goto(p, "sleep")
    /\ UNCHANGED <<val, level, mask, saved, frame>>

(* futex_wait(&lock->val, 2): the kernel re-reads the word before sleeping *)
FutexWait(p) ==
    /\ At(p, "wait")
    /\ Goto(p, IF val = 2 THEN "sleep" ELSE "cas02")
    /\ UNCHANGED <<val, level, mask, saved, frame>>

(* A sleeping process is stopped and continued: the wait starts again.      *)
Interrupted(p) ==
    /\ At(p, "sleep")
    /\ Goto(p, "wait")
    /\ UNCHANGED <<val, level, mask, saved, frame>>

(* Mutant: a woken waiter takes the lock as if it were the only one. *)
Cas02_As01(p) == CasFromFree(p, "cas02", 1)

(* Mutant: a waiter takes a lock that has no announced waiter. *)
Cas02_Steal(p) ==
    /\ At(p, "cas02")
    /\ \/ val # 2 /\ val' = 2 /\ Goto(p, "owner")
       \/ val = 2 /\ Goto(p, "wait") /\ UNCHANGED val
    /\ UNCHANGED <<level, mask, saved, frame>>

(* c = atomic_cmpxchg(&lock->val, 0, 2), the attempt of a waiter *)
Cas02(p) == CasFromFree(p, "cas02", 2)

-----------------------------------------------------------------------------
(* xmutex_unlock *)

(* atomic_dec_and_test(&lock->val) *)
DecAndTest(p) ==
    /\ At(p, "owner")
    /\ val' = val - 1
    /\ Goto(p, IF val' = 0 THEN "restore" ELSE "set0")
    /\ UNCHANGED <<level, mask, saved, frame>>

(* atomic_set(&lock->val, 0) *)
Set0(p) ==
    /\ At(p, "set0")
    /\ val' = 0
    /\ Goto(p, "wake")
    /\ UNCHANGED <<level, mask, saved, frame>>

Sleepers == {p \in Contexts : pc[p] = "sleep"}

(* futex_wake(&lock->val, 1) that finds q on the queue *)
FutexWake(p, q) ==
    /\ At(p, "wake")
    /\ q \in Sleepers
    /\ pc' = [pc EXCEPT ![p] = "restore", ![q] = "cas02"]
    /\ UNCHANGED <<val, level, mask, saved, frame>>

(* futex_wake(&lock->val, 1) that finds nobody *)
FutexWakeNone(p) ==
    /\ At(p, "wake")
    /\ Sleepers = {}
    /\ Goto(p, "restore")
    /\ UNCHANGED <<val, level, mask, saved, frame>>

(* restore_signals(sigset), whose argument is then done with *)
RestoreSignals(p) ==
    /\ At(p, "restore")
    /\ mask' = [mask EXCEPT ![p[1]] = saved[p]]
    /\ saved' = [saved EXCEPT ![p] = {}]
    /\ Goto(p, "out")
    /\ UNCHANGED <<val, level, frame>>

-----------------------------------------------------------------------------
(* Where a context that is interrupted at l goes on: a handler ends the     *)
(* wait for a futex, which starts again if the handler has SA_RESTART.      *)
Resumes(l) == IF l = "sleep" THEN {"wait", "cas02"} ELSE {l}

(* The kernel starts the handler of s; what was blocked stays blocked.      *)
Deliver(t, s, m) ==
    /\ level[t] < MaxLevel[t]
    /\ s \notin mask[t]
    /\ \E l \in Resumes(pc[<<t, level[t]>>]) : Goto(<<t, level[t]>>, l)
    /\ level' = [level EXCEPT ![t] = @ + 1]
    /\ mask' = [mask EXCEPT ![t] = @ \cup m]
    /\ frame' = [frame EXCEPT ![<<t, level[t] + 1>>] =
                    [sig |-> s, under |-> mask[t], own |-> mask[t] \cup m]]
    /\ UNCHANGED <<val, saved>>

(* When a handler returns the kernel restores the mask it interrupted.      *)
SigReturn(t) ==
    /\ level[t] > 0
    /\ pc[<<t, level[t]>>] = "out"
    /\ level' = [level EXCEPT ![t] = @ - 1]
    /\ mask' = [mask EXCEPT ![t] = frame[<<t, level[t]>>].under]
    /\ frame' = [frame EXCEPT ![<<t, level[t]>>] = Program(t)]
    /\ UNCHANGED <<val, pc, saved>>

LockStep(p) ==
    \/ Cas01(p) \/ Cas12(p) \/ FutexWait(p) \/ Cas02(p)

UnlockStep(p) ==
    \/ DecAndTest(p) \/ Set0(p)
    \/ FutexWakeNone(p) \/ \E q \in Contexts : FutexWake(p, q)
    \/ RestoreSignals(p)

Next ==
    \/ \E p \in Contexts :
         BlockSignals(p) \/ LockStep(p) \/ Interrupted(p) \/ UnlockStep(p)
    \/ \E t \in Threads :
         (\E s \in Signals, m \in HandlerMasks : Deliver(t, s, m)) \/ SigReturn(t)

Spec == Init /\ [][Next]_vars

(* A thread inside the lock code keeps running, critical sections and       *)
(* handlers end.  Nobody is obliged to ask for the lock.                    *)
Fairness ==
    /\ \A p \in Contexts : WF_vars(LockStep(p)) /\ WF_vars(UnlockStep(p))
    /\ \A t \in Threads : WF_vars(SigReturn(t))

FairSpec == Spec /\ Fairness

-----------------------------------------------------------------------------
(* Properties *)

(* The types of the state above.                                            *)
TypeOK ==
    /\ val \in 0 .. 2
    /\ pc \in [Contexts -> PCs]
    /\ level \in [Threads -> Nat] /\ \A t \in Threads : level[t] <= MaxLevel[t]
    /\ mask \in [Threads -> Masks]
    /\ saved \in [Contexts -> Masks]
    /\ frame \in [Contexts -> Frames]

(* A context owns the lock until the store that frees it: the decrement     *)
(* from 1, or atomic_set(0) when the decrement left waiters behind.         *)
Owns(p) == pc[p] \in {"owner", "set0"}

(* At most one context is between a successful xmutex_lock and the store    *)
(* that frees the lock, whatever waiters and barging threads do to val.     *)
MutualExclusion ==
    \A p, q \in Contexts : Owns(p) /\ Owns(q) => p = q

(* The word is non-zero exactly while somebody owns the lock: what the      *)
(* assertion xmutex_is_locked(&tls_lock) in find_set_free_slot relies on.   *)
LockedIffOwned == val # 0 <=> \E p \in Contexts : Owns(p)

(* A context that will still look at val before it sleeps again, or that    *)
(* has yet to wake a sleeper.                                               *)
WillLook(q) == pc[q] \in {"cas12", "wait", "cas02", "set0", "wake"}

(* No lost wake-up: while a context sleeps in futex_wait, either val is 2,  *)
(* so that the next unlock takes the waking path, or some other context is  *)
(* still on its way to announce a waiter or to wake one.                    *)
NoLostWakeup ==
    Sleepers # {} => val = 2 \/ \E q \in Contexts : WillLook(q)

(* The handler of a signal in RECORD_PROCMASK runs only while every context *)
(* beneath it is outside the lock code, also if a handler of another signal *)
(* is in between: such a handler can lock without waiting for its own       *)
(* thread.  The handlers of the signals that the mask leaves deliverable    *)
(* have no such promise.                                                    *)
NoSelfDeadlock ==
    \A t \in Threads : \A l \in 1 .. level[t] :
      frame[<<t, l>>].sig \in RECORD_PROCMASK =>
          \A k \in 0 .. l - 1 : pc[<<t, k>>] = "out"

(* Lock and unlock give the program its signal mask back: outside the lock  *)
(* code every program and every handler runs with the mask it started with. *)
MaskRestored ==
    \A t \in Threads :
      pc[<<t, level[t]>>] = "out" => mask[t] = frame[<<t, level[t]>>].own

(* A step in which thread t asks for the lock, and one in which a signal    *)
(* arrives at it.                                                           *)
Requests(t) == pc[<<t, level[t]>>] = "out" /\ pc'[<<t, level[t]>>] = "cas01"

Interrupts(t) == level'[t] > level[t]

(* A handler waits for a lock that its own thread holds beneath it.         *)
LocksOnItself(t) ==
    /\ pc[<<t, level[t]>>] # "out"
    /\ \E l \in 0 .. level[t] - 1 : Owns(<<t, l>>)

(* Once no new request for the lock and no signal arrives, every context    *)
(* asleep on the futex gets the lock and leaves it, unless a handler of a   *)
(* signal that RECORD_PROCMASK leaves deliverable locks on top of its own   *)
(* thread's owner.  Without the first premise barging threads can overtake  *)
(* a waiter for ever: the mutex does not promise fairness.                  *)
WaitersServed ==
    <>[][\A t \in Threads : ~Requests(t) /\ ~Interrupts(t)]_vars
    /\ [](\A t \in Threads : ~LocksOnItself(t))
    => <>[](\A p \in Contexts : pc[p] = "out")

(* xmutex_lock and xmutex_unlock implement the abstract lock.               *)
Lock == INSTANCE AbstractLock WITH holders <- {p \in Contexts : Owns(p)}

ImplementsLock == Lock!Spec
=============================================================================
