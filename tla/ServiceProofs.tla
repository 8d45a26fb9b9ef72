--------------------------- MODULE ServiceProofs ---------------------------
(***************************************************************************)
(* The services of core/loader that the recorder is built on, for every    *)
(* value of their constants.  XMutex (mutex.c) is a mutex for any set of   *)
(* threads and any signals, with handlers nested to any depth, and         *)
(* implements AbstractLock; BigBuffer (bigbuffer.c, compression.c) carries *)
(* a stream of any length, cut into requests of any size, into the block   *)
(* file unchanged; the catchers of Exceptions (exception.c) are those of   *)
(* live frames at any depth.                                               *)
(***************************************************************************)
EXTENDS XMutex, BigBuffer, Exceptions, TLAPS

(* The length and the elements of a concatenation. *)
LEMMA SeqConcat ==
    ASSUME NEW S, NEW s \in Seq(S), NEW t \in Seq(S)
    PROVE  /\ s \o t \in Seq(S)
           /\ Len(s \o t) = Len(s) + Len(t)
           /\ \A i \in 1 .. Len(s) + Len(t) :
                (s \o t)[i] = IF i <= Len(s) THEN s[i] ELSE t[i - Len(s)]
OBVIOUS

(* A sequence with one element changed. *)
LEMMA SeqExcept ==
    ASSUME NEW S, NEW s \in Seq(S), NEW i \in 1 .. Len(s), NEW e \in S
    PROVE  /\ [s EXCEPT ![i] = e] \in Seq(S)
           /\ Len([s EXCEPT ![i] = e]) = Len(s)
           /\ \A j \in 1 .. Len(s) : [s EXCEPT ![i] = e][j] = IF j = i THEN e ELSE s[j]
OBVIOUS

-----------------------------------------------------------------------------
(* mutex.c *)

(* The mask in force at level l of thread t, when that level runs. *)
InForce(t, l) == IF l = level[t] THEN mask[t] ELSE frame[<<t, l + 1>>].under

(* A context outside the lock code has the mask it started with, one inside *)
(* has RECORD_PROCMASK and remembers the other. *)
OwnMask(t, l) ==
    IF pc[<<t, l>>] = "out" THEN InForce(t, l) = frame[<<t, l>>].own
    ELSE InForce(t, l) = RECORD_PROCMASK /\ saved[<<t, l>>] = frame[<<t, l>>].own

(* A handler's signal was not blocked, and what was blocked still is.  If   *)
(* a signal of RECORD_PROCMASK was not blocked then nobody beneath is in    *)
(* the lock code.                                                           *)
Delivered(t, l) ==
    /\ frame[<<t, l>>].sig \notin frame[<<t, l>>].under
    /\ frame[<<t, l>>].under \subseteq frame[<<t, l>>].own
    /\ \/ RECORD_PROCMASK \subseteq frame[<<t, l>>].under
       \/ \A k \in 0 .. l - 1 : pc[<<t, k>>] = "out"

ThreadInv(t) ==
    /\ \A l \in 0 .. level[t] : OwnMask(t, l)
    /\ \A l \in 1 .. level[t] : Delivered(t, l)
    /\ \A l \in level[t] + 1 .. MaxLevel[t] : pc[<<t, l>>] = "out"

MaskInv == \A t \in Threads : ThreadInv(t)

LockInv == MutualExclusion /\ LockedIffOwned /\ NoLostWakeup

IInv == TypeOK /\ LockInv /\ MaskInv

(* Contexts are the levels of the threads. *)
LEMMA Ctx ==
    /\ \A t \in Threads : \A l \in 0 .. MaxLevel[t] : <<t, l>> \in Contexts
    /\ \A p \in Contexts :
         p = <<p[1], p[2]>> /\ p[1] \in Threads /\ p[2] \in 0 .. MaxLevel[p[1]]
BY XMutexAssumption DEF Contexts

LEMMA InitIInv == Init => IInv
<1> SUFFICES ASSUME Init PROVE IInv
  OBVIOUS
<1>1. TypeOK
  <2>1. \A p \in Contexts : Program(p[1]) \in Frames
    BY Ctx, XMutexAssumption DEF Program, Frames, Masks
  <2> QED
    BY <2>1, XMutexAssumption DEF Init, TypeOK, PCs, Masks
<1>2. LockInv
  BY DEF Init, LockInv, MutualExclusion, LockedIffOwned, NoLostWakeup, Owns, Sleepers
<1>3. ASSUME NEW t \in Threads PROVE ThreadInv(t)
  <2>1. level[t] = 0 /\ mask[t] = UserMask[t] /\ MaxLevel[t] \in Nat
    BY XMutexAssumption DEF Init
  <2>2. \A l \in 0 .. MaxLevel[t] : pc[<<t, l>>] = "out" /\ frame[<<t, l>>] = Program(t)
    BY Ctx DEF Init
  <2>3. OwnMask(t, 0)
    BY <2>1, <2>2 DEF OwnMask, InForce, Program
  <2> QED
    BY <2>1, <2>2, <2>3 DEF ThreadInv
<1> QED
  BY <1>1, <1>2, <1>3 DEF IInv, MaskInv

(* The level of a thread is one of its levels. *)
LEMMA Level ==
    ASSUME TypeOK, NEW t \in Threads
    PROVE  /\ level[t] \in Nat /\ MaxLevel[t] \in Nat
           /\ level[t] <= MaxLevel[t] /\ <<t, level[t]>> \in Contexts
<1>1. level[t] \in Nat /\ MaxLevel[t] \in Nat /\ level[t] <= MaxLevel[t]
  BY XMutexAssumption DEF TypeOK
<1>2. level[t] \in 0 .. MaxLevel[t]
  BY <1>1
<1> QED BY <1>1, <1>2, Ctx

(* The masks of a thread are as they should be as long as it neither enters *)
(* nor leaves the lock code and no signal comes.                            *)
LEMMA ThreadSame ==
    ASSUME TypeOK, NEW t \in Threads, ThreadInv(t),
           level'[t] = level[t], mask'[t] = mask[t],
           \A l \in 0 .. MaxLevel[t] :
             /\ pc'[<<t, l>>] = "out" <=> pc[<<t, l>>] = "out"
             /\ saved'[<<t, l>>] = saved[<<t, l>>]
             /\ frame'[<<t, l>>] = frame[<<t, l>>]
    PROVE  ThreadInv(t)'
<1>1. level[t] \in Nat /\ MaxLevel[t] \in Nat /\ level[t] <= MaxLevel[t]
  BY Level
<1>2. ASSUME NEW l \in 0 .. level[t] PROVE OwnMask(t, l)'
  <2>1. OwnMask(t, l) /\ l \in 0 .. MaxLevel[t]
    BY <1>1 DEF ThreadInv
  <2>2. InForce(t, l)' = InForce(t, l)
    <3>1. l # level[t] => l + 1 \in 0 .. MaxLevel[t]
      BY <1>1
    <3> QED BY <3>1 DEF InForce
  <2> QED
    BY <2>1, <2>2 DEF OwnMask
<1>3. ASSUME NEW l \in 1 .. level[t] PROVE Delivered(t, l)'
  <2>1. Delivered(t, l) /\ l \in 0 .. MaxLevel[t]
    BY <1>1 DEF ThreadInv
  <2>2. \A k \in 0 .. l - 1 : k \in 0 .. MaxLevel[t]
    BY <1>1
  <2> QED
    BY <2>1, <2>2 DEF Delivered
<1>4. \A l \in level[t] + 1 .. MaxLevel[t] : pc'[<<t, l>>] = "out"
  BY <1>1 DEF ThreadInv
<1> QED
  BY <1>2, <1>3, <1>4 DEF ThreadInv

LEMMA MaskSame ==
    ASSUME TypeOK, MaskInv, \A q \in Contexts : pc'[q] = "out" <=> pc[q] = "out",
           UNCHANGED <<level, mask, saved, frame>>
    PROVE  MaskInv'
<1> SUFFICES ASSUME NEW t \in Threads PROVE ThreadInv(t)'
  BY DEF MaskInv
<1>1. ThreadInv(t)
  BY DEF MaskInv
<1> QED
  BY <1>1, Ctx, ThreadSame

(* A step of the lock code that moves the word or one context keeps IInv.   *)
LEMMA LockSteps ==
    ASSUME IInv, NEW p \in Contexts,
           \/ Cas01(p) \/ Cas12(p) \/ FutexWait(p) \/ Interrupted(p) \/ Cas02(p)
           \/ DecAndTest(p) \/ Set0(p) \/ FutexWakeNone(p)
    PROVE  IInv'
<1>1. CASE Cas01(p)
  BY <1>1, MaskSame
     DEF Cas01, CasFromFree, AfterFailedCas, At, Goto, IInv, TypeOK, PCs, LockInv,
         MutualExclusion, LockedIffOwned, NoLostWakeup, Owns, Sleepers, WillLook
<1>2. CASE Cas12(p)
  BY <1>2, MaskSame
     DEF Cas12, At, Goto, IInv, TypeOK, PCs, LockInv,
         MutualExclusion, LockedIffOwned, NoLostWakeup, Owns, Sleepers, WillLook
<1>3. CASE FutexWait(p)
  BY <1>3, MaskSame
     DEF FutexWait, At, Goto, IInv, TypeOK, PCs, LockInv,
         MutualExclusion, LockedIffOwned, NoLostWakeup, Owns, Sleepers, WillLook
<1>4. CASE Interrupted(p)
  BY <1>4, MaskSame
     DEF Interrupted, At, Goto, IInv, TypeOK, PCs, LockInv,
         MutualExclusion, LockedIffOwned, NoLostWakeup, Owns, Sleepers, WillLook
<1>5. CASE Cas02(p)
  BY <1>5, MaskSame
     DEF Cas02, CasFromFree, AfterFailedCas, At, Goto, IInv, TypeOK, PCs, LockInv,
         MutualExclusion, LockedIffOwned, NoLostWakeup, Owns, Sleepers, WillLook
<1>6. CASE DecAndTest(p)
  BY <1>6, MaskSame
     DEF DecAndTest, At, Goto, IInv, TypeOK, PCs, LockInv,
         MutualExclusion, LockedIffOwned, NoLostWakeup, Owns, Sleepers, WillLook
<1>7. CASE Set0(p)
  BY <1>7, MaskSame
     DEF Set0, At, Goto, IInv, TypeOK, PCs, LockInv,
         MutualExclusion, LockedIffOwned, NoLostWakeup, Owns, Sleepers, WillLook
<1>8. CASE FutexWakeNone(p)
  BY <1>8, MaskSame
     DEF FutexWakeNone, At, Goto, IInv, TypeOK, PCs, LockInv,
         MutualExclusion, LockedIffOwned, NoLostWakeup, Owns, Sleepers, WillLook
<1> QED BY <1>1, <1>2, <1>3, <1>4, <1>5, <1>6, <1>7, <1>8

(* The wake-up of a sleeper keeps IInv. *)
LEMMA WakeStep ==
    ASSUME IInv, NEW p \in Contexts, NEW q \in Contexts, FutexWake(p, q)
    PROVE  IInv'
BY MaskSame DEF IInv, TypeOK, PCs, At, FutexWake, LockInv, MutualExclusion, LockedIffOwned,
       NoLostWakeup, Owns, Sleepers, WillLook

(* block_signals and restore_signals keep IInv: they change the mask of the *)
(* level that runs together with its place in the lock code.                *)
LEMMA EnterLeave ==
    ASSUME IInv, NEW p \in Contexts, BlockSignals(p) \/ RestoreSignals(p)
    PROVE  IInv'
<1> DEFINE u == p[1]
<1>1. TypeOK /\ LockInv /\ MaskInv
  BY DEF IInv
<1>2. u \in Threads /\ p = <<u, level[u]>>
  BY Ctx DEF BlockSignals, RestoreSignals, At, Running
<1>3. UNCHANGED <<val, level, frame>>
  BY DEF BlockSignals, RestoreSignals
<1>4. \E x, y, l : /\ pc' = [pc EXCEPT ![p] = l]
                   /\ saved' = [saved EXCEPT ![p] = x]
                   /\ mask' = [mask EXCEPT ![u] = y]
                   /\ x \in Masks /\ y \in Masks
                   /\ \/ l = "cas01" /\ pc[p] = "out" /\ x = mask[u] /\ y = RECORD_PROCMASK
                      \/ l = "out" /\ pc[p] = "restore" /\ y = saved[p]
  <2>1. mask[u] \in Masks /\ saved[p] \in Masks /\ {} \in Masks /\ RECORD_PROCMASK \in Masks
    BY <1>1, <1>2, XMutexAssumption DEF TypeOK, Masks
  <2> QED BY <2>1 DEF BlockSignals, RestoreSignals, At, Goto
<1>5. PICK x, y, l : /\ pc' = [pc EXCEPT ![p] = l]
                    /\ saved' = [saved EXCEPT ![p] = x]
                    /\ mask' = [mask EXCEPT ![u] = y]
                    /\ x \in Masks /\ y \in Masks
                    /\ \/ l = "cas01" /\ pc[p] = "out" /\ x = mask[u] /\ y = RECORD_PROCMASK
                       \/ l = "out" /\ pc[p] = "restore" /\ y = saved[p]
  BY <1>4
<1>6. TypeOK'
  BY <1>1, <1>2, <1>3, <1>5 DEF TypeOK, PCs
<1>7. LockInv'
  BY <1>1, <1>3, <1>5 DEF TypeOK, LockInv, MutualExclusion, LockedIffOwned, Owns,
                         NoLostWakeup, Sleepers, WillLook
<1>8. ASSUME NEW t \in Threads, t # u PROVE ThreadInv(t)'
  <2>1. ThreadInv(t) /\ mask'[t] = mask[t]
    BY <1>1, <1>2, <1>5, <1>8 DEF MaskInv, TypeOK
  <2>2. \A k \in 0 .. MaxLevel[t] :
          pc'[<<t, k>>] = pc[<<t, k>>] /\ saved'[<<t, k>>] = saved[<<t, k>>]
    BY <1>1, <1>2, <1>5, <1>8, Ctx DEF TypeOK
  <2> QED BY <1>1, <1>3, <2>1, <2>2, ThreadSame
<1>9. ThreadInv(u)'
  <2>1. level[u] \in Nat /\ MaxLevel[u] \in Nat /\ level[u] <= MaxLevel[u]
    BY <1>1, <1>2, Level
  <2>2. \A k \in 0 .. MaxLevel[u] : k # level[u] =>
          pc'[<<u, k>>] = pc[<<u, k>>] /\ saved'[<<u, k>>] = saved[<<u, k>>]
    BY <1>1, <1>2, <1>5, Ctx DEF TypeOK
  <2>3. ThreadInv(u) /\ level'[u] = level[u] /\ mask'[u] = y /\ pc'[p] = l /\ saved'[p] = x
    BY <1>1, <1>2, <1>3, <1>5 DEF MaskInv, TypeOK
  <2>4. ASSUME NEW k \in 0 .. level[u] PROVE OwnMask(u, k)'
    <3>1. OwnMask(u, k) /\ k \in 0 .. MaxLevel[u]
      BY <2>1, <2>3 DEF ThreadInv
    <3>2. CASE k = level[u]
      <4>1. InForce(u, k) = mask[u] /\ InForce(u, k)' = y
        BY <2>3, <3>2 DEF InForce
      <4> QED BY <1>2, <1>3, <1>5, <2>3, <3>1, <3>2, <4>1 DEF OwnMask
    <3>3. CASE k # level[u]
      <4>1. InForce(u, k)' = InForce(u, k)
        BY <1>3, <2>3, <3>3 DEF InForce
      <4> QED BY <1>3, <2>2, <3>1, <3>3, <4>1 DEF OwnMask
    <3> QED BY <3>2, <3>3
  <2>5. ASSUME NEW k \in 1 .. level[u] PROVE Delivered(u, k)'
    <3>1. Delivered(u, k)
      BY <2>3 DEF ThreadInv
    <3>2. \A j \in 0 .. k - 1 : j \in 0 .. MaxLevel[u] /\ j # level[u]
      BY <2>1
    <3> QED BY <1>3, <2>2, <3>1, <3>2 DEF Delivered
  <2>6. \A k \in level[u] + 1 .. MaxLevel[u] : k \in 0 .. MaxLevel[u] /\ k # level[u]
    BY <2>1
  <2> QED BY <2>2, <2>3, <2>4, <2>5, <2>6 DEF ThreadInv
<1> QED BY <1>6, <1>7, <1>8, <1>9 DEF IInv, MaskInv

(* The start of a handler keeps IInv: where a signal of RECORD_PROCMASK     *)
(* comes through, the mask that lets it through is that of a context        *)
(* outside the lock code, and what that one had interrupted let it through  *)
(* too.                                                                     *)
LEMMA DeliverStep ==
    ASSUME IInv, NEW u \in Threads, NEW s \in Signals, NEW m \in HandlerMasks,
           Deliver(u, s, m)
    PROVE  IInv'
<1> DEFINE p == <<u, level[u]>>
           n == level[u] + 1
           f == [sig |-> s, under |-> mask[u], own |-> mask[u] \cup m]
<1>1. TypeOK /\ LockInv /\ MaskInv
  BY DEF IInv
<1>2. /\ level[u] \in Nat /\ MaxLevel[u] \in Nat /\ n <= MaxLevel[u] /\ p \in Contexts
      /\ n \in 0 .. MaxLevel[u]
  BY <1>1, Level DEF Deliver
<1>3. <<u, n>> \in Contexts
  BY <1>2, Ctx
<1>4. m \subseteq Signals
  BY XMutexAssumption
<1>5. /\ UNCHANGED <<val, saved>> /\ s \notin mask[u]
      /\ level' = [level EXCEPT ![u] = n] /\ mask' = [mask EXCEPT ![u] = mask[u] \cup m]
      /\ frame' = [frame EXCEPT ![<<u, n>>] = f]
      /\ \E l \in Resumes(pc[p]) : pc' = [pc EXCEPT ![p] = l]
  BY DEF Deliver, Goto
<1>6. PICK l : /\ pc' = [pc EXCEPT ![p] = l]
               /\ l = pc[p] \/ (pc[p] = "sleep" /\ l \in {"wait", "cas02"})
  <2>1. \A l \in Resumes(pc[p]) : l = pc[p] \/ (pc[p] = "sleep" /\ l \in {"wait", "cas02"})
    BY DEF Resumes
  <2> HIDE DEF p
  <2> QED BY <1>5, <2>1, Zenon
<1>7. f \in Frames /\ mask[u] \cup m \in Masks
  BY <1>1, <1>4 DEF TypeOK, Masks, Frames
<1> HIDE DEF p, n, f
<1>8. TypeOK'
  <2>1. pc' \in [Contexts -> PCs]
    BY <1>1, <1>2, <1>6 DEF TypeOK, PCs
  <2>2. level' \in [Threads -> Nat] /\ \A t \in Threads : level'[t] <= MaxLevel[t]
    BY <1>1, <1>2, <1>5 DEF TypeOK
  <2>3. mask' \in [Threads -> Masks] /\ frame' \in [Contexts -> Frames]
    BY <1>1, <1>3, <1>5, <1>7 DEF TypeOK
  <2> QED BY <1>1, <1>5, <2>1, <2>2, <2>3 DEF TypeOK
<1>9. LockInv'
  BY <1>1, <1>2, <1>5, <1>6 DEF TypeOK, LockInv, MutualExclusion, LockedIffOwned, Owns,
                         NoLostWakeup, Sleepers, WillLook
<1>10. \A q \in Contexts : pc'[q] = "out" <=> pc[q] = "out"
  BY <1>1, <1>2, <1>6 DEF TypeOK
<1>11. ASSUME NEW t \in Threads, t # u PROVE ThreadInv(t)'
  <2>1. ThreadInv(t) /\ mask'[t] = mask[t] /\ level'[t] = level[t]
    BY <1>1, <1>5, <1>11 DEF MaskInv, TypeOK
  <2>2. \A k \in 0 .. MaxLevel[t] : frame'[<<t, k>>] = frame[<<t, k>>]
    BY <1>1, <1>5, <1>11, Ctx DEF TypeOK
  <2> QED BY <1>1, <1>5, <1>10, <2>1, <2>2, Ctx, ThreadSame
<1>12. ThreadInv(u)'
  <2>1. ThreadInv(u) /\ level'[u] = n /\ mask'[u] = mask[u] \cup m /\ frame'[<<u, n>>] = f
    BY <1>1, <1>3, <1>5 DEF MaskInv, TypeOK
  <2>2. \A k \in 0 .. MaxLevel[u] : /\ k # n => frame'[<<u, k>>] = frame[<<u, k>>]
                                    /\ pc'[<<u, k>>] = "out" <=> pc[<<u, k>>] = "out"
    BY <1>1, <1>5, <1>10, Ctx DEF TypeOK
  <2>3. n = level[u] + 1 /\ f.sig = s /\ f.under = mask[u] /\ f.own = mask[u] \cup m
    BY DEF n, f
  <2>4. pc[<<u, n>>] = "out"
    BY <1>2, <2>1, <2>3 DEF ThreadInv
  <2>5. ASSUME NEW k \in 0 .. n PROVE OwnMask(u, k)'
    <3>1. k \in 0 .. MaxLevel[u]
      BY <1>2, <2>3
    <3>2. CASE k = n
      <4>1. InForce(u, k)' = mask[u] \cup m
        BY <2>1, <3>2 DEF InForce
      <4> QED BY <2>1, <2>2, <2>3, <2>4, <3>1, <3>2, <4>1 DEF OwnMask
    <3>3. CASE k # n
      <4>1. OwnMask(u, k)
        BY <1>2, <2>1, <2>3, <3>3 DEF ThreadInv
      <4>2. InForce(u, k)' = InForce(u, k)
        <5>1. CASE k = level[u]
          BY <2>1, <2>3, <5>1, <3>3 DEF InForce
        <5>2. CASE k # level[u]
          <6>1. k + 1 \in 0 .. MaxLevel[u] /\ k + 1 # n
            BY <1>2, <2>3, <3>3, <5>2
          <6> QED BY <2>1, <2>2, <3>3, <5>2, <6>1 DEF InForce
        <5> QED BY <5>1, <5>2
      <4> QED BY <1>5, <2>2, <3>1, <3>3, <4>1, <4>2 DEF OwnMask
    <3> QED BY <3>2, <3>3
  <2>6. ASSUME NEW k \in 1 .. n PROVE Delivered(u, k)'
    <3>1. k \in 0 .. MaxLevel[u] /\ \A j \in 0 .. k - 1 : j \in 0 .. MaxLevel[u]
      BY <1>2, <2>3
    <3>2. CASE k # n
      <4>1. Delivered(u, k)
        BY <1>2, <2>1, <2>3, <3>2 DEF ThreadInv
      <4> QED BY <2>2, <3>1, <3>2, <4>1 DEF Delivered
    <3>3. CASE k = n /\ RECORD_PROCMASK \subseteq mask[u]
      BY <1>5, <2>1, <2>3, <3>3 DEF Delivered
    <3>4. CASE k = n /\ ~(RECORD_PROCMASK \subseteq mask[u])
      <4>1. OwnMask(u, level[u]) /\ InForce(u, level[u]) = mask[u]
        BY <1>2, <2>1 DEF ThreadInv, InForce
      <4>2. pc[<<u, level[u]>>] = "out" /\ mask[u] = frame[<<u, level[u]>>].own
        BY <3>4, <4>1 DEF OwnMask
      <4>3. \A j \in 0 .. level[u] - 1 : pc[<<u, j>>] = "out"
        <5>1. CASE level[u] = 0
          BY <5>1
        <5>2. CASE level[u] # 0
          <6>1. Delivered(u, level[u])
            BY <1>2, <2>1, <5>2 DEF ThreadInv
          <6> QED BY <3>4, <4>2, <6>1 DEF Delivered
        <5> QED BY <5>1, <5>2
      <4>4. \A j \in 0 .. k - 1 : j = level[u] \/ j \in 0 .. level[u] - 1
        BY <1>2, <2>3, <3>4
      <4>5. \A j \in 0 .. k - 1 : pc'[<<u, j>>] = "out"
        BY <2>2, <3>1, <4>2, <4>3, <4>4
      <4> QED BY <1>5, <2>1, <2>3, <3>4, <4>5 DEF Delivered
    <3> QED BY <3>2, <3>3, <3>4
  <2>7. ASSUME NEW k \in n + 1 .. MaxLevel[u] PROVE pc'[<<u, k>>] = "out"
    <3>1. k \in 0 .. MaxLevel[u] /\ k \in level[u] + 1 .. MaxLevel[u]
      BY <1>2, <2>3
    <3> QED BY <2>1, <2>2, <3>1 DEF ThreadInv
  <2> QED BY <2>1, <2>5, <2>6, <2>7 DEF ThreadInv
<1> QED BY <1>8, <1>9, <1>11, <1>12 DEF IInv, MaskInv

(* The return from a handler keeps IInv: the level beneath goes on with the *)
(* mask it had.                                                             *)
LEMMA SigReturnStep ==
    ASSUME IInv, NEW u \in Threads, SigReturn(u)
    PROVE  IInv'
<1> DEFINE n == level[u]
<1>1. TypeOK /\ LockInv /\ MaskInv
  BY DEF IInv
<1>2. n \in Nat /\ MaxLevel[u] \in Nat /\ n <= MaxLevel[u] /\ <<u, n>> \in Contexts /\ n > 0
  BY <1>1, Level DEF SigReturn
<1>3. /\ UNCHANGED <<val, pc, saved>> /\ level' = [level EXCEPT ![u] = n - 1]
      /\ mask' = [mask EXCEPT ![u] = frame[<<u, n>>].under]
      /\ frame' = [frame EXCEPT ![<<u, n>>] = Program(u)]
      /\ pc[<<u, n>>] = "out"
  BY DEF SigReturn
<1>4. Program(u) \in Frames /\ frame[<<u, n>>].under \in Masks
  BY <1>1, <1>2, XMutexAssumption DEF TypeOK, Program, Frames, Masks
<1>5. TypeOK'
  <2>1. level' \in [Threads -> Nat] /\ \A t \in Threads : level'[t] <= MaxLevel[t]
    BY <1>1, <1>2, <1>3 DEF TypeOK
  <2>2. mask' \in [Threads -> Masks] /\ frame' \in [Contexts -> Frames]
    BY <1>1, <1>3, <1>4 DEF TypeOK
  <2> QED BY <1>1, <1>3, <2>1, <2>2 DEF TypeOK
<1>6. LockInv'
  BY <1>1, <1>3 DEF LockInv, MutualExclusion, LockedIffOwned, Owns, NoLostWakeup,
                    Sleepers, WillLook
<1>7. ASSUME NEW t \in Threads, t # u PROVE ThreadInv(t)'
  <2>1. ThreadInv(t) /\ mask'[t] = mask[t] /\ level'[t] = level[t]
    BY <1>1, <1>3, <1>7 DEF MaskInv, TypeOK
  <2>2. \A k \in 0 .. MaxLevel[t] : frame'[<<t, k>>] = frame[<<t, k>>]
    BY <1>1, <1>3, <1>7, Ctx DEF TypeOK
  <2> QED BY <1>1, <1>3, <2>1, <2>2, ThreadSame
<1>8. ThreadInv(u)'
  <2>1. ThreadInv(u) /\ level'[u] = n - 1 /\ mask'[u] = frame[<<u, n>>].under
    BY <1>1, <1>3 DEF MaskInv, TypeOK
  <2>2. \A k \in 0 .. MaxLevel[u] : k # n => frame'[<<u, k>>] = frame[<<u, k>>]
    BY <1>1, <1>3, Ctx DEF TypeOK
  <2>3. ASSUME NEW k \in 0 .. n - 1 PROVE OwnMask(u, k)'
    <3>1. k \in 0 .. MaxLevel[u] /\ k # n /\ k \in 0 .. n
      BY <1>2
    <3>2. OwnMask(u, k)
      BY <2>1, <3>1 DEF ThreadInv
    <3>3. InForce(u, k)' = InForce(u, k)
      <4>1. CASE k = n - 1
        <5>1. InForce(u, k) = frame[<<u, n>>].under
          BY <1>2, <4>1 DEF InForce
        <5> QED BY <2>1, <4>1, <5>1 DEF InForce
      <4>2. CASE k # n - 1
        <5>1. k + 1 \in 0 .. MaxLevel[u] /\ k + 1 # n
          BY <1>2, <4>2
        <5> QED BY <2>1, <2>2, <3>1, <4>2, <5>1 DEF InForce
      <4> QED BY <4>1, <4>2
    <3> QED BY <1>3, <2>2, <3>1, <3>2, <3>3 DEF OwnMask
  <2>4. ASSUME NEW k \in 1 .. n - 1 PROVE Delivered(u, k)'
    <3>1. k \in 0 .. MaxLevel[u] /\ k # n /\ k \in 1 .. n
      BY <1>2
    <3>2. Delivered(u, k)
      BY <2>1, <3>1 DEF ThreadInv
    <3> QED BY <1>3, <2>2, <3>1, <3>2 DEF Delivered
  <2>5. ASSUME NEW k \in (n - 1) + 1 .. MaxLevel[u] PROVE pc'[<<u, k>>] = "out"
    <3>1. k = n \/ k \in n + 1 .. MaxLevel[u]
      BY <1>2
    <3> QED BY <1>3, <2>1, <3>1 DEF ThreadInv
  <2> QED BY <2>1, <2>3, <2>4, <2>5 DEF ThreadInv
<1> QED BY <1>5, <1>6, <1>7, <1>8 DEF IInv, MaskInv

(* Each action preserves IInv. *)
LEMMA NextIInv == IInv /\ [Next]_vars => IInv'
<1> SUFFICES ASSUME IInv, [Next]_vars PROVE IInv'
  OBVIOUS
<1>1. CASE UNCHANGED vars
  <2>1. TypeOK' /\ LockInv'
    BY <1>1 DEF vars, IInv, TypeOK, LockInv, MutualExclusion, LockedIffOwned, Owns,
             NoLostWakeup, Sleepers, WillLook
  <2>2. MaskInv'
    BY <1>1, MaskSame DEF vars, IInv
  <2> QED BY <2>1, <2>2 DEF IInv
<1> QED
  BY <1>1, LockSteps, WakeStep, EnterLeave, DeliverStep, SigReturnStep
     DEF Next, LockStep, UnlockStep

(* IInv holds in every reachable state, for any set of threads, any signals *)
(* and handlers nested to any depth.                                        *)
THEOREM Invariance == Spec => []IInv
BY InitIInv, NextIInv, PTL DEF Spec

(* The lock word, the program counters of xmutex_lock and xmutex_unlock    *)
(* and the signal masks keep their types.                                  *)
THEOREM TypeSafe == Spec => []TypeOK
<1>1. IInv => TypeOK
  BY DEF IInv
<1> QED BY <1>1, Invariance, PTL

(* The mutex of mutex.c excludes: no two contexts are ever both between a   *)
(* successful xmutex_lock and the store that frees the lock.                *)
THEOREM MutexSafe == Spec => []MutualExclusion
<1>1. IInv => MutualExclusion
  BY DEF IInv, LockInv
<1> QED BY <1>1, Invariance, PTL

(* No lost wake-up: a context asleep in futex_wait always has either the    *)
(* contended mark on the word or another context about to look at it.       *)
THEOREM WakeupSafe == Spec => []NoLostWakeup
<1>1. IInv => NoLostWakeup
  BY DEF IInv, LockInv
<1> QED BY <1>1, Invariance, PTL

(* The handler of a signal that RECORD_PROCMASK holds never runs on top of  *)
(* a context that is inside the lock code, however many handlers of signals *)
(* that it leaves deliverable are in between.                               *)
THEOREM HandlerSafe == Spec => []NoSelfDeadlock
<1>1. IInv => NoSelfDeadlock
  BY DEF IInv, MaskInv, ThreadInv, Delivered, NoSelfDeadlock
<1> QED BY <1>1, Invariance, PTL

(* xmutex_unlock leaves the program, and every handler, with the signal     *)
(* mask it had before xmutex_lock.                                          *)
THEOREM MaskSafe == Spec => []MaskRestored
<1>1. ASSUME IInv, NEW t \in Threads, pc[<<t, level[t]>>] = "out"
      PROVE  mask[t] = frame[<<t, level[t]>>].own
  <2>1. level[t] \in 0 .. level[t]
    BY <1>1, Level DEF IInv
  <2>2. OwnMask(t, level[t])
    BY <1>1, <2>1 DEF IInv, MaskInv, ThreadInv
  <2> QED BY <1>1, <2>2 DEF OwnMask, InForce
<1>2. IInv => MaskRestored
  BY <1>1 DEF MaskRestored
<1> QED BY <1>2, Invariance, PTL

(* The refinement mapping takes every step of the mutex to Acquire, Release *)
(* or a stutter of the abstract lock: xmutex_lock and xmutex_unlock         *)
(* implement AbstractLock, for any set of threads.                          *)
THEOREM Refinement == Spec => ImplementsLock
<1> DEFINE H == {p \in Contexts : Owns(p)}
<1>1. Init => Lock!Init
  BY DEF Init, Lock!Init, Owns
<1>2. IInv /\ [Next]_vars => [Lock!Next]_H
  <2> SUFFICES ASSUME IInv, [Next]_vars
               PROVE  (\E p \in Contexts : Lock!Acquire(p) \/ Lock!Release(p)) \/ H' = H
    BY DEF Lock!Next
  <2>1. ASSUME NEW p \in Contexts, Cas01(p) \/ Cas02(p)
        PROVE  Lock!Acquire(p) \/ H' = H
    BY <2>1 DEF Cas01, Cas02, CasFromFree, AfterFailedCas, IInv, LockInv, TypeOK, LockedIffOwned,
              Owns, At, Goto, Lock!Acquire
  <2>2. ASSUME NEW p \in Contexts, DecAndTest(p) \/ Set0(p)
        PROVE  Lock!Release(p) \/ H' = H
    BY <2>2 DEF DecAndTest, Set0, IInv, LockInv, TypeOK, MutualExclusion, Owns, At, Goto,
              Lock!Release
  <2>3. ASSUME NEW p \in Contexts,
               \/ BlockSignals(p) \/ Cas12(p) \/ FutexWait(p) \/ Interrupted(p)
               \/ FutexWakeNone(p) \/ RestoreSignals(p)
        PROVE  H' = H
    BY <2>3 DEF BlockSignals, Cas12, FutexWait, Interrupted, FutexWakeNone,
              RestoreSignals, IInv, TypeOK, Owns, At, Goto
  <2>4. ASSUME NEW p \in Contexts, NEW q \in Contexts, FutexWake(p, q)
        PROVE  H' = H
    BY <2>4 DEF FutexWake, Sleepers, IInv, TypeOK, Owns, At
  <2>5. ASSUME NEW t \in Threads, NEW s \in Signals, NEW m \in HandlerMasks,
               Deliver(t, s, m)
        PROVE  H' = H
    BY <2>5 DEF Deliver, Resumes, IInv, TypeOK, Owns, Goto
  <2>6. ASSUME NEW t \in Threads, SigReturn(t)
        PROVE  H' = H
    BY <2>6 DEF SigReturn, Owns
  <2>7. CASE UNCHANGED vars
    BY <2>7 DEF vars, Owns
  <2> QED
    BY <2>1, <2>2, <2>3, <2>4, <2>5, <2>6, <2>7 DEF Next, LockStep, UnlockStep
<1> QED
  BY <1>1, <1>2, Invariance, PTL DEF Spec, ImplementsLock, Lock!Spec

-----------------------------------------------------------------------------
(* bigbuffer.c and compression.c *)

(* How far the last block has got: between the two writes its head counts  *)
(* the bytes in the buffer, and otherwise its data is there.               *)
LastBlock ==
    LET last == heads[Len(heads)]
    IN  /\ step = "data" => heads # <<>> /\ last.ori_sz = ptr /\ Len(out) = last.at
        /\ step \in {"idle", "copy"} /\ heads # <<>> =>
               Len(out) = last.at + last.ori_sz

BbInv == BbTypeOK /\ StreamKept /\ HeadsTile /\ LastBlock

(* Writing the head of the block that holds the n bytes of the buffer.     *)
LEMMA HeadWritten ==
    ASSUME BbInv, step \in {"idle", "copy"}, NEW n \in 1 .. BIGBUFFER_SZ,
           heads' = Append(heads, BlockHead(n)), out' = out, step' = "data",
           ptr' = n
    PROVE  heads' \in Seq(Heads) /\ HeadsTile' /\ LastBlock'
<1> DEFINE L == Len(heads)
<1>1. heads \in Seq(Heads) /\ L \in Nat /\ out \in Seq(Nat) /\ Len(out) \in Nat
  BY DEF BbInv, BbTypeOK
<1>2. BlockHead(n) \in Heads
  BY <1>1 DEF BlockHead, Heads
<1>3. heads' \in Seq(Heads)
  BY <1>1, <1>2
<1>4. /\ Len(heads') = L + 1
      /\ heads'[L + 1] = BlockHead(n)
      /\ \A k \in 1 .. L : heads'[k] = heads[k]
  BY <1>1, <1>2
<1>5. BlockHead(n).at = Len(out) /\ BlockHead(n).ori_sz = n
  BY DEF BlockHead
<1>6. L > 0 => Len(out) = heads[L].at + heads[L].ori_sz
  BY <1>1 DEF BbInv, LastBlock
<1>7. \A k \in 1 .. Len(heads') - 1 :
          heads'[k + 1].at = heads'[k].at + heads'[k].ori_sz
  <2>1. ASSUME NEW k \in 1 .. L
        PROVE  heads'[k + 1].at = heads'[k].at + heads'[k].ori_sz
    <3>1. CASE k = L
      BY <1>4, <1>5, <1>6, <3>1
    <3>2. CASE k < L
      <4>1. heads[k + 1].at = heads[k].at + heads[k].ori_sz
        BY <1>1, <3>2 DEF BbInv, HeadsTile
      <4>2. heads'[k + 1] = heads[k + 1] /\ heads'[k] = heads[k]
        BY <1>1, <1>4, <3>2
      <4>3. QED
        BY <4>1, <4>2
    <3>3. QED
      BY <1>1, <3>1, <3>2
  <2>2. QED
    BY <1>1, <1>4, <2>1
<1>8. heads'[1].at = 0
  <2>1. CASE L = 0
    BY <1>1, <1>4, <1>5, <2>1 DEF BbInv, HeadsTile
  <2>2. CASE L > 0
    BY <1>1, <1>4, <2>2 DEF BbInv, HeadsTile
  <2>3. QED
    BY <1>1, <2>1, <2>2
<1>9. heads' # <<>>
  BY <1>1, <1>3, <1>4
<1>10. HeadsTile' /\ LastBlock'
  BY <1>1, <1>4, <1>5, <1>7, <1>8, <1>9 DEF HeadsTile, LastBlock
<1>11. QED
  BY <1>3, <1>10

(* A failed assertion changes nothing that the file or the stream hold.    *)
LEMMA DeadKeeps ==
    ASSUME BbInv, step' = "dead", heads' = heads, out' = out
    PROVE  HeadsTile' /\ LastBlock'
BY DEF BbInv, HeadsTile, LastBlock

(* The bigbuffer that init_bigbuffer sets up satisfies the invariant.      *)
LEMMA BbInitInv == BbInit => BbInv
<1> SUFFICES ASSUME BbInit PROVE BbInv
  OBVIOUS
<1>1. /\ BbTypeOK /\ StreamKept /\ HeadsTile /\ LastBlock
  BY BigBufferAssumption
     DEF BbInit, BbTypeOK, StreamKept, HeadsTile, LastBlock, Offsets
<1>2. QED
  BY <1>1 DEF BbInv

(* One round of the copying loop moves the buffer on along the stream.     *)
LEMMA CopyStep ==
    ASSUME BbInv, Copy
    PROVE  /\ ptr' \in 0 .. BIGBUFFER_SZ
           /\ buffer' \in [Offsets -> Nat]
           /\ sz' \in Nat /\ pos' \in Nat
           /\ StreamKept'
           /\ sz' > 0 => ptr' = BIGBUFFER_SZ
<1> DEFINE n == CopySize
<1>1. /\ ptr \in 0 .. BIGBUFFER_SZ /\ sz \in Nat /\ pos \in Nat
      /\ BIGBUFFER_SZ \in Nat \ {0} /\ out \in Seq(Nat)
      /\ buffer \in [Offsets -> Nat]
  BY BigBufferAssumption DEF BbInv, BbTypeOK
<1>2. /\ n \in Nat /\ n <= sz /\ ptr + n <= BIGBUFFER_SZ
      /\ sz - n > 0 => ptr + n = BIGBUFFER_SZ
  BY <1>1 DEF CopySize, MinOf
<1>3. /\ buffer' = [i \in Offsets |-> IF i \in ptr .. ptr + n - 1
                                      THEN pos + (i - ptr) ELSE buffer[i]]
      /\ ptr' = ptr + n /\ pos' = pos + n /\ sz' = sz - n /\ out' = out
  BY DEF Copy
<1> HIDE DEF n
<1>4. buffer' \in [Offsets -> Nat]
  <2>1. ASSUME NEW i \in Offsets
        PROVE  (IF i \in ptr .. ptr + n - 1 THEN pos + (i - ptr) ELSE buffer[i]) \in Nat
    BY <1>1, <1>2 DEF Offsets
  <2>2. QED
    BY <1>3, <2>1
<1>5. StreamKept'
  <2>1. pos = Len(out) + ptr /\ Len(out) \in Nat
    BY <1>1 DEF BbInv, StreamKept
  <2>2. ASSUME NEW i \in Offsets, i < ptr'
        PROVE  buffer'[i] = Len(out) + i
    <3>1. CASE i < ptr
      BY <1>1, <1>2, <1>3, <3>1 DEF BbInv, StreamKept, Offsets
    <3>2. CASE i >= ptr
      BY <1>1, <1>2, <1>3, <2>1, <2>2, <3>2 DEF Offsets
    <3>3. QED
      BY <1>1, <3>1, <3>2 DEF Offsets
  <2>3. pos' = Len(out) + ptr'
    BY <1>1, <1>2, <1>3, <2>1
  <2>4. QED
    BY <1>3, <2>2, <2>3 DEF BbInv, StreamKept
<1>6. QED
  BY <1>1, <1>2, <1>3, <1>4, <1>5

(* The data of a block, once written, extends what the file decompresses   *)
(* to by the bytes of the buffer.                                          *)
LEMMA DataWritten ==
    ASSUME BbInv, step = "data",
           out' = out \o [i \in 1 .. ptr |-> buffer[i - 1]], ptr' = 0,
           step' = then, UNCHANGED <<then, buffer, sz, pos, heads>>
    PROVE  BbInv'
<1> DEFINE data == [i \in 1 .. ptr |-> buffer[i - 1]]
<1>1. /\ ptr \in Nat /\ ptr <= BIGBUFFER_SZ /\ BIGBUFFER_SZ \in Nat
      /\ buffer \in [Offsets -> Nat] /\ out \in Seq(Nat) /\ Len(out) \in Nat
  BY BigBufferAssumption DEF BbInv, BbTypeOK
<1>2. ASSUME NEW i \in 1 .. ptr
      PROVE  i - 1 \in Offsets /\ i - 1 < ptr
  BY <1>1 DEF Offsets
<1>3. data \in Seq(Nat) /\ Len(data) = ptr
  <2>1. \A i \in 1 .. ptr : buffer[i - 1] \in Nat
    BY <1>1, <1>2
  <2>2. QED
    BY <1>1, <2>1
<1>4. \A i \in 1 .. ptr : data[i] = Len(out) + (i - 1)
  BY <1>1, <1>2 DEF BbInv, StreamKept
<1> HIDE DEF data
<1>5. out' = out \o data
  BY DEF data
<1>6. /\ out' \in Seq(Nat) /\ Len(out') = Len(out) + ptr
      /\ \A i \in 1 .. Len(out) + ptr :
            out'[i] = IF i <= Len(out) THEN out[i] ELSE data[i - Len(out)]
  <2>1. /\ out \o data \in Seq(Nat)
        /\ Len(out \o data) = Len(out) + Len(data)
        /\ \A i \in 1 .. Len(out) + Len(data) : (out \o data)[i] =
                IF i <= Len(out) THEN out[i] ELSE data[i - Len(out)]
    BY <1>1, <1>3, SeqConcat, Zenon
  <2>2. QED
    BY <1>3, <1>5, <2>1, Zenon
<1>7. BbTypeOK'
  BY <1>1, <1>6 DEF BbInv, BbTypeOK
<1>8. StreamKept'
  <2>1. ASSUME NEW i \in 1 .. Len(out') PROVE out'[i] = i - 1
    <3>1. CASE i <= Len(out)
      BY <1>1, <1>6, <3>1 DEF BbInv, StreamKept
    <3>2. CASE i > Len(out)
      <4>1. i - Len(out) \in 1 .. ptr
        BY <1>1, <1>6, <3>2
      <4>2. i \in 1 .. Len(out) + ptr /\ ~(i <= Len(out))
        BY <1>1, <1>6, <3>2
      <4>3. out'[i] = data[i - Len(out)]
        BY <1>6, <4>2, Zenon
      <4>4. QED
        BY <1>1, <1>4, <4>1, <4>3
    <3>3. QED
      BY <1>1, <3>1, <3>2
  <2>2. \A i \in Offsets : ~(i < ptr')
    BY DEF Offsets
  <2>3. pos' = Len(out') + ptr'
    BY <1>1, <1>6 DEF BbInv, StreamKept
  <2>4. QED
    BY <2>1, <2>2, <2>3, Zenon DEF StreamKept
<1>9. HeadsTile' /\ LastBlock'
  <2>1. heads # <<>> /\ Len(out') = heads[Len(heads)].at + heads[Len(heads)].ori_sz
    BY <1>1, <1>6 DEF BbInv, LastBlock
  <2>2. step' # "data"
    BY DEF BbInv, BbTypeOK
  <2>3. QED
    BY <2>1, <2>2, Zenon DEF BbInv, HeadsTile, LastBlock
<1>10. QED
  BY <1>7, <1>8, <1>9 DEF BbInv

(* Every step of the copying loop and of the flush keeps the invariant.    *)
LEMMA BbNextInv == BbInv /\ [BbNext]_BbVars => BbInv'
<1> SUFFICES ASSUME BbInv, [BbNext]_BbVars PROVE BbInv'
  OBVIOUS
<1>1. ASSUME NEW n \in 0 .. MaxAppend, append_bigbuffer(n) PROVE BbInv'
  <2>1. BbTypeOK' /\ StreamKept'
    BY <1>1, BigBufferAssumption
       DEF append_bigbuffer, BbInv, BbTypeOK, StreamKept
  <2>2. HeadsTile' /\ LastBlock'
    BY <1>1 DEF append_bigbuffer, BbInv, HeadsTile, LastBlock
  <2>3. QED
    BY <2>1, <2>2 DEF BbInv
<1>2. CASE Copy
  <2>1. /\ ptr' \in 0 .. BIGBUFFER_SZ /\ buffer' \in [Offsets -> Nat]
        /\ sz' \in Nat /\ pos' \in Nat /\ StreamKept'
        /\ sz' > 0 => ptr' = BIGBUFFER_SZ
    BY <1>2, CopyStep
  <2>2. step = "copy" /\ out' = out
    BY <1>2 DEF Copy
  <2>3. CASE sz' > 0 /\ heads' = Append(heads, BlockHead(ptr')) /\ step' = "data" /\ then' = "copy"
    <3>1. ptr' \in 1 .. BIGBUFFER_SZ
      BY <2>1, <2>3, BigBufferAssumption
    <3>2. heads' \in Seq(Heads) /\ HeadsTile' /\ LastBlock'
      BY <2>2, <2>3, <3>1, HeadWritten
    <3>3. QED
      BY <2>1, <2>2, <2>3, <3>2 DEF BbInv, BbTypeOK
  <2>4. CASE step' = "dead" /\ UNCHANGED <<then, heads>>
    BY <2>1, <2>2, <2>4, DeadKeeps DEF BbInv, BbTypeOK
  <2>5. CASE step' = "idle" /\ UNCHANGED <<then, heads>>
    <3>1. HeadsTile' /\ LastBlock'
      BY <2>2, <2>5 DEF BbInv, HeadsTile, LastBlock
    <3>2. QED
      BY <2>1, <2>2, <2>5, <3>1 DEF BbInv, BbTypeOK
  <2>6. QED
    BY <1>2, <2>3, <2>4, <2>5 DEF Copy, WriteHead, MustFlush
<1>3. CASE Flush
  <2>1. /\ step = "idle" /\ ptr \in 1 .. BIGBUFFER_SZ
        /\ UNCHANGED <<ptr, buffer, sz, pos, out>>
    BY <1>3 DEF Flush, BbInv, BbTypeOK
  <2>2. StreamKept'
    BY <2>1 DEF BbInv, StreamKept
  <2>3. CASE heads' = Append(heads, BlockHead(ptr)) /\ step' = "data" /\ then' = "idle"
    <3>1. heads' \in Seq(Heads) /\ HeadsTile' /\ LastBlock'
      BY <2>1, <2>3, HeadWritten
    <3>2. QED
      BY <2>1, <2>2, <2>3, <3>1 DEF BbInv, BbTypeOK
  <2>4. CASE step' = "dead" /\ UNCHANGED <<then, heads>>
    BY <2>1, <2>2, <2>4, DeadKeeps DEF BbInv, BbTypeOK
  <2>5. QED
    BY <1>3, <2>3, <2>4 DEF Flush, WriteHead
<1>4. CASE WriteData
  <2>1. CASE /\ out' = out \o [i \in 1 .. ptr |-> buffer[i - 1]]
             /\ ptr' = 0 /\ step' = then
    BY <1>4, <2>1, DataWritten DEF WriteData
  <2>2. CASE step' = "dead" /\ UNCHANGED <<ptr, out>>
    <3>1. UNCHANGED <<then, buffer, sz, pos, heads>>
      BY <1>4 DEF WriteData
    <3>2. QED
      BY <2>2, <3>1, DeadKeeps DEF BbInv, BbTypeOK, StreamKept
  <2>3. QED
    BY <1>4, <2>1, <2>2, Zenon DEF WriteData, ResetPtr
<1>5. CASE UNCHANGED BbVars
  BY <1>5 DEF BbVars, BbInv, BbTypeOK, StreamKept, HeadsTile, LastBlock
<1>6. QED
  BY <1>1, <1>2, <1>3, <1>4, <1>5 DEF BbNext

(* The invariant holds through any sequence of appends and flushes.        *)
THEOREM BbInvariance == BbSpec => []BbInv
BY BbInitInv, BbNextInv, PTL DEF BbSpec

(* append_bigbuffer and flush_bigbuffer neither lose nor reorder a byte.   *)
THEOREM StreamSafe == BbSpec => []StreamKept
<1>1. BbInv => StreamKept
  BY DEF BbInv
<1>2. QED
  BY <1>1, BbInvariance, PTL

(* struct bigbuffer and what is in the file keep their types. *)
THEOREM BbTypeSafe == BbSpec => []BbTypeOK
<1>1. BbInv => BbTypeOK
  BY DEF BbInv
<1>2. QED
  BY <1>1, BbInvariance, PTL

(* The heads flush_small_buffer writes always lead from block to block.    *)
THEOREM BlocksSafe == BbSpec => []HeadsTile
<1>1. BbInv => HeadsTile
  BY DEF BbInv
<1>2. QED
  BY <1>1, BbInvariance, PTL

(* The assertion before the flush in append_bigbuffer cannot fail.         *)
THEOREM FlushAsserted == BbSpec => FlushWhenFull
<1>1. BbInv /\ [BbNext]_BbVars => [step = "copy" /\ step' = "data" => ptr' = BIGBUFFER_SZ]_BbVars
  <2> SUFFICES ASSUME BbInv, BbNext, step = "copy", step' = "data"
               PROVE  ptr' = BIGBUFFER_SZ
    OBVIOUS
  <2>1. Copy
    BY DEF BbNext, append_bigbuffer, Flush, WriteData
  <2>2. sz' > 0
    BY <2>1 DEF Copy, MustFlush
  <2>3. QED
    BY <2>1, <2>2, CopyStep
<1>2. QED
  BY <1>1, BbInvariance, PTL DEF BbSpec, FlushWhenFull

-----------------------------------------------------------------------------
(* exception.c *)

LEMMA SameLength ==
  ASSUME NEW T, NEW p \in Seq(T), NEW q \in Seq(T), DOMAIN p = DOMAIN q
  PROVE  Len(p) >= Len(q)
  OBVIOUS

LEMMA Lengthened ==
  ASSUME NEW T, NEW p \in Seq(T), NEW e
  PROVE  Len(Append(p, e)) >= Len(p)
  OBVIOUS

LEMMA Appended ==
  ASSUME NEW T, NEW p \in Seq(T), NEW e \in T
  PROVE  /\ Append(p, e) \in Seq(T) /\ Len(Append(p, e)) = Len(p) + 1
         /\ Append(p, e)[Len(p) + 1] = e
         /\ \A i \in 1 .. Len(p) : Append(p, e)[i] = p[i]
  OBVIOUS

Frame == [kind : Kinds, phase : {"cond", "body", "after", "finally", "catch"},
          state : {"INIT", "EXEC_BODY", "WAIT_FINALLY", "THROWN", "END"},
          exp : Exps, thrown : BOOLEAN]

Trying(f) == f.phase \in {"cond", "body", "after"}

(* What a frame's variables say about where it is. *)
FrameOK(f) ==
    /\ f.phase = "cond" => f.state \in {"INIT", "EXEC_BODY", "THROWN"}
    /\ f.phase = "body" => f.state = "EXEC_BODY"
    /\ f.phase = "after" => f.state \in {"EXEC_BODY", "WAIT_FINALLY"}
    /\ \/ f.thrown = TRUE /\ f.exp.type # "EXP_NO_EXCEPTION"
       \/ f.thrown = FALSE /\ f.exp = NoExp /\ f.phase # "catch"

(* The inductive invariant.  A frame that is not on top has called another *)
(* from a block, so it is not at the condition of its loop nor behind it:  *)
(* this is why a throw always finds the catcher at the head of the list in *)
(* EXEC_BODY.                                                              *)
ExcIInv ==
    /\ frames \in Seq(Frame) /\ Len(frames) <= MaxDepth
    /\ curr_catcher_p \in Seq(Nat)
    /\ dead \in {"no", "outmost"}
    /\ \A i \in 1 .. Len(frames) : FrameOK(frames[i])
    /\ \A i \in 1 .. Len(frames) - 1 : frames[i].phase \in {"body", "finally", "catch"}
    /\ CatchersLive

-----------------------------------------------------------------------------
(* The list of catchers *)

(* The catcher of the innermost TRY that has not reached its FINALLY is    *)
(* the head of the list.                                                   *)
LEMMA HeadIsTop ==
    ASSUME ExcIInv, frames # <<>>, Trying(frames[Top])
    PROVE  /\ curr_catcher_p # <<>>
           /\ Head(curr_catcher_p) = Top
           /\ Top \in 1 .. Len(frames)
  <1>1. Top \in 1 .. Len(frames) /\ Top \in Nat
    BY DEF ExcIInv, Top
  <1>2. PICK j \in 1 .. Len(curr_catcher_p) : curr_catcher_p[j] = Top
    BY <1>1 DEF ExcIInv, CatchersLive, Trying
  <1>3. /\ 1 \in 1 .. Len(curr_catcher_p)
        /\ Head(curr_catcher_p) = curr_catcher_p[1]
        /\ curr_catcher_p # <<>>
    BY <1>2 DEF ExcIInv
  <1>4. curr_catcher_p[1] \in 1 .. Top
    BY <1>3 DEF ExcIInv, CatchersLive
  <1>5. curr_catcher_p[1] >= Top
    BY <1>1, <1>2, <1>3, <1>4 DEF ExcIInv, CatchersLive
  <1> QED
    BY <1>1, <1>3, <1>4, <1>5

(* A throw from a block finds the first catcher, if there is one, in a     *)
(* live frame that executes its TRY block.                                 *)
LEMMA HeadExecutes ==
    ASSUME ExcIInv, InCode, curr_catcher_p # <<>>,
           NEW c, c = Head(curr_catcher_p)
    PROVE  /\ c \in 1 .. Len(frames)
           /\ frames[c].phase = "body" /\ frames[c].state = "EXEC_BODY"
           /\ \A i \in c + 1 .. Len(frames) : ~Trying(frames[i])
  <1>1. /\ 1 \in 1 .. Len(curr_catcher_p)
        /\ c = curr_catcher_p[1]
    BY DEF ExcIInv
  <1>2. c \in 1 .. Len(frames) /\ Trying(frames[c])
    BY <1>1 DEF ExcIInv, CatchersLive, Top, Trying
  <1>3. Len(frames) \in Nat /\ frames # <<>>
    BY <1>2 DEF ExcIInv
  <1>4. frames[c].phase \in {"body", "finally", "catch"}
    BY <1>2, <1>3 DEF ExcIInv, InCode, Top
  <1>5. frames[c].phase = "body" /\ frames[c].state = "EXEC_BODY"
    BY <1>2, <1>4 DEF ExcIInv, Trying, FrameOK
  <1>6. ASSUME NEW i \in c + 1 .. Len(frames), Trying(frames[i])
        PROVE  FALSE
    <2>1. i \in 1 .. Top /\ i > c
      BY <1>2, <1>3 DEF Top
    <2>2. PICK j \in 1 .. Len(curr_catcher_p) : curr_catcher_p[j] = i
      BY <1>6, <2>1, SMTT(30) DEF ExcIInv, CatchersLive, Trying
    <2>3. j = 1 \/ 1 < j
      BY <2>2
    <2> QED
      BY <1>1, <1>2, <2>1, <2>2, <2>3 DEF ExcIInv, CatchersLive
  <1> QED
    BY <1>2, <1>5, <1>6

(* A step that leaves the list alone, and every frame that stays inside or *)
(* outside its TRY, abandons no frame inside one.                          *)
LEMMA SameCatchers ==
    ASSUME ExcIInv, curr_catcher_p' = curr_catcher_p,
           frames' \in Seq(Frame), Len(frames') <= Len(frames),
           \A i \in 1 .. Len(frames') : Trying(frames'[i]) <=> Trying(frames[i]),
           \A i \in Len(frames') + 1 .. Len(frames) : ~Trying(frames[i])
    PROVE  CatchersLive'
  <1>1. Len(frames) \in Nat /\ Len(frames') \in Nat
    BY DEF ExcIInv
  <1>2. \A i : (i \in 1 .. Len(frames') /\ Trying(frames'[i]))
               <=> (i \in 1 .. Len(frames) /\ Trying(frames[i]))
    BY <1>1
  <1> QED
    BY <1>2 DEF ExcIInv, CatchersLive, Top, Trying

(* A step that replaces the frame on top by one that stays inside or       *)
(* outside its TRY.                                                        *)
LEMMA TopStep ==
    ASSUME ExcIInv, frames # <<>>, NEW f \in Frame,
           frames' = [frames EXCEPT ![Top] = f], FrameOK(f),
           Trying(f) <=> Trying(frames[Top]),
           UNCHANGED <<curr_catcher_p, dead>>
    PROVE  ExcIInv'
  <1>1. Top \in 1 .. Len(frames) /\ Top = Len(frames) /\ Top \in Nat
    BY DEF ExcIInv, Top
  <1>2. /\ frames' \in Seq(Frame) /\ Len(frames') = Len(frames)
        /\ \A i \in 1 .. Len(frames) : frames'[i] = IF i = Top THEN f ELSE frames[i]
    BY <1>1, SeqExcept DEF ExcIInv
  <1>3. CatchersLive'
    BY <1>1, <1>2, SameCatchers
  <1>4. \A i \in 1 .. Len(frames') : FrameOK(frames'[i])
    BY <1>2 DEF ExcIInv
  <1>5. \A i \in 1 .. Len(frames') - 1 : frames'[i].phase \in {"body", "finally", "catch"}
    BY <1>1, <1>2 DEF ExcIInv
  <1> QED
    BY <1>2, <1>3, <1>4, <1>5 DEF ExcIInv

-----------------------------------------------------------------------------
(* The actions *)

(* TRY pushes the catcher of a new frame, with its exception cleared. *)
LEMMA TryStep == ExcIInv /\ Try => ExcIInv'
  <1> SUFFICES ASSUME ExcIInv, Try PROVE ExcIInv'
    OBVIOUS
  <1>1. PICK kind \in Kinds :
           frames' = Append(frames, [kind |-> kind, phase |-> "cond", state |-> "INIT",
                                     exp |-> NoExp, thrown |-> FALSE])
    BY DEF Try, InitExp
  <1> DEFINE f == [kind |-> kind, phase |-> "cond", state |-> "INIT",
                   exp |-> NoExp, thrown |-> FALSE]
             n == Len(frames)
             list == curr_catcher_p
  <1>2. f \in Frame /\ FrameOK(f) /\ Trying(f)
    <2>1. NoExp \in Exps
      BY DEF NoExp, Exps, Types, ExpLevels, EXP_LV_NONE, EXP_LV_UNCATCHABLE
    <2>2. f \in Frame
      BY <2>1 DEF Frame
    <2>3. FrameOK(f) /\ Trying(f)
      BY DEF FrameOK, Trying
    <2> QED
      BY <2>2, <2>3
  <1> HIDE DEF f
  <1>3. /\ n \in Nat /\ frames' \in Seq(Frame) /\ Len(frames') = n + 1 /\ frames'[n + 1] = f
        /\ \A i \in 1 .. n : frames'[i] = frames[i]
    <2>1. frames \in Seq(Frame) /\ n \in Nat
      BY DEF ExcIInv
    <2>2. frames' = Append(frames, f)
      BY <1>1, Zenon DEF f
    <2> QED
      BY <1>2, <2>1, <2>2, Appended
  <1>4. n + 1 <= MaxDepth /\ dead' = dead
    BY <1>3, ExceptionsAssumption DEF Try, Top
  <1>5. /\ list' \in Seq(Nat) /\ Len(list') = Len(list) + 1 /\ list'[1] = n + 1
        /\ \A j \in 1 .. Len(list) : list'[j + 1] = list[j]
        /\ \A j \in 2 .. Len(list') : list'[j] = list[j - 1]
    BY <1>3 DEF Try, ExcIInv, Top
  <1>6. \A i \in 1 .. Len(frames') : FrameOK(frames'[i])
    <2>1. \A i \in 1 .. Len(frames') : i = n + 1 \/ i \in 1 .. n
      BY <1>3
    <2> QED
      BY <1>2, <1>3, <2>1 DEF ExcIInv
  <1>7. \A i \in 1 .. Len(frames') - 1 : frames'[i].phase \in {"body", "finally", "catch"}
    <2>1. \A i \in 1 .. n - 1 : frames[i].phase \in {"body", "finally", "catch"}
      BY Zenon DEF ExcIInv
    <2>2. n # 0 => frames[n].phase \in {"body", "finally", "catch"}
      <3>1. frames # <<>> => frames[n].phase \in {"body", "finally", "catch"}
        BY Zenon DEF Try, InCode, Top
      <3>2. n # 0 => frames # <<>>
        OBVIOUS
      <3> QED
        BY <3>1, <3>2, Zenon
    <2>3. \A i \in 1 .. Len(frames') - 1 : i \in 1 .. n /\ n # 0 /\ (i = n \/ i \in 1 .. n - 1)
      BY <1>3
    <2> QED
      BY <1>3, <2>1, <2>2, <2>3, Zenon
  <1>8. CatchersLive'
    <2>1. \A i : (i \in 1 .. Len(frames') /\ Trying(frames'[i]))
                 <=> (i = n + 1 \/ (i \in 1 .. n /\ Trying(frames[i])))
      BY <1>2, <1>3
    <2>2. Len(list) \in Nat /\ \A j \in 1 .. Len(list) : list[j] \in 1 .. n /\ Trying(frames[list[j]])
      BY DEF ExcIInv, CatchersLive, Top, Trying
    <2>3. \A j \in 1 .. Len(list') : j = 1 \/ j - 1 \in 1 .. Len(list)
      BY <1>5, <2>2
    <2>4. \A j \in 1 .. Len(list') : /\ list'[j] \in 1 .. Len(frames')
                                     /\ Trying(frames'[list'[j]])
      <3> SUFFICES ASSUME NEW j \in 1 .. Len(list')
                   PROVE  list'[j] \in 1 .. Len(frames') /\ Trying(frames'[list'[j]])
        OBVIOUS
      <3>1. CASE j = 1
        BY <1>5, <2>1, <3>1
      <3>2. CASE j - 1 \in 1 .. Len(list)
        <4>1. list'[j] = list[j - 1]
          BY <1>5, <3>2
        <4> QED
          BY <2>1, <2>2, <3>2, <4>1
      <3> QED
        BY <2>3, <3>1, <3>2
    <2>5. ASSUME NEW i \in 1 .. Len(frames'), Trying(frames'[i])
          PROVE  \E j \in 1 .. Len(list') : list'[j] = i
      <3>1. CASE i = n + 1
        BY <1>5, <2>2, <3>1
      <3>2. CASE i \in 1 .. n /\ Trying(frames[i])
        <4>1. PICK j \in 1 .. Len(list) : list[j] = i
          BY <3>2 DEF ExcIInv, CatchersLive, Top, Trying
        <4>2. j + 1 \in 1 .. Len(list') /\ list'[j + 1] = i
          BY <1>5, <2>2, <4>1
        <4> QED
          BY <4>2
      <3> QED
        BY <2>1, <2>5, <3>1, <3>2
    <2>6. ASSUME NEW i \in 1 .. Len(list'), NEW j \in 1 .. Len(list'), i < j
          PROVE  list'[i] > list'[j]
      <3>1. j \in 2 .. Len(list') /\ j - 1 \in 1 .. Len(list) /\ list'[j] = list[j - 1]
        BY <1>5, <2>2, <2>6, SMTT(30)
      <3>2. CASE i = 1
        <4>1. list'[i] = n + 1
          BY <1>5, <3>2
        <4>2. list'[j] \in 1 .. n
          BY <2>2, <3>1
        <4> QED
          BY <1>3, <4>1, <4>2
      <3>3. CASE i # 1
        <4>1. i - 1 \in 1 .. Len(list) /\ list'[i] = list[i - 1] /\ i - 1 < j - 1
          BY <1>5, <2>2, <2>6, <3>3, SMTT(30)
        <4>2. \A p, q \in 1 .. Len(list) : p < q => list[p] > list[q]
          BY Zenon DEF ExcIInv, CatchersLive
        <4>3. list[i - 1] > list[j - 1]
          BY <3>1, <4>1, <4>2, Zenon
        <4> QED
          BY <3>1, <4>1, <4>3, Zenon
      <3> QED
        BY <3>2, <3>3
    <2> QED
      BY <2>4, <2>5, <2>6 DEF CatchersLive, Top, Trying
  <1> QED
    BY <1>3, <1>4, <1>5, <1>6, <1>7, <1>8 DEF ExcIInv

(* The condition of the loop steps the catcher of its own frame, and never *)
(* from a state that faults.                                               *)
LEMMA IterStep == ExcIInv /\ Iter => ExcIInv'
  <1> SUFFICES ASSUME ExcIInv, Iter PROVE ExcIInv'
    OBVIOUS
  <1> DEFINE g == frames[Top]
             mc == McOf("ITER_0")
             f == [g EXCEPT !.state = mc.to, !.phase = IF mc.ret THEN "body" ELSE "after"]
  <1>1. frames # <<>> /\ g.phase = "cond"
    BY DEF Iter, ExcAt
  <1>2. Head(curr_catcher_p) = Top /\ Top \in 1 .. Len(frames)
    BY <1>1, HeadIsTop DEF Trying
  <1>3. g \in Frame /\ FrameOK(g)
    BY <1>2 DEF ExcIInv
  <1>4. mc = Mc(g.state, "ITER_0")
    BY <1>2 DEF McOf
  <1>5. \/ g.state = "INIT" /\ mc = [to |-> "EXEC_BODY", ret |-> TRUE]
        \/ g.state \in {"EXEC_BODY", "THROWN"} /\ mc = [to |-> "WAIT_FINALLY", ret |-> FALSE]
    <2>1. g.state \in {"INIT", "EXEC_BODY", "THROWN"}
      BY <1>1, <1>3 DEF FrameOK
    <2> QED
      BY <1>4, <2>1 DEF Mc
  <1> HIDE DEF mc
  <1>6. f \in Frame /\ FrameOK(f) /\ Trying(f)
    <2>1. CASE g.state = "INIT" /\ mc = [to |-> "EXEC_BODY", ret |-> TRUE]
      <3>1. f = [g EXCEPT !.state = "EXEC_BODY", !.phase = "body"]
        BY <2>1
      <3> QED
        BY <1>1, <1>3, <2>1, <3>1 DEF Frame, FrameOK, Trying
    <2>2. CASE /\ g.state \in {"EXEC_BODY", "THROWN"}
               /\ mc = [to |-> "WAIT_FINALLY", ret |-> FALSE]
      <3>1. f = [g EXCEPT !.state = "WAIT_FINALLY", !.phase = "after"]
        BY <2>2
      <3> QED
        BY <1>1, <1>3, <2>2, <3>1 DEF Frame, FrameOK, Trying
    <2> QED
      BY <1>5, <2>1, <2>2
  <1>7. frames' = [frames EXCEPT ![Top] = f] /\ UNCHANGED <<curr_catcher_p, dead>>
    <2>1. mc.to # "FAULT"
      BY <1>5
    <2>2. /\ frames' = [frames EXCEPT ![Top].state = mc.to,
                                      ![Top].phase = IF mc.ret THEN "body" ELSE "after"]
          /\ UNCHANGED <<curr_catcher_p, dead>>
      BY <1>2, <2>1 DEF Iter, mc
    <2> QED
      BY <1>2, <2>2 DEF ExcIInv
  <1> HIDE DEF f
  <1> QED
    BY <1>1, <1>6, <1>7, TopStep DEF Trying

(* The end of the body and a break leave the frame inside its TRY. *)
LEMMA BodyStep == ExcIInv /\ (EndBody \/ Break) => ExcIInv'
  <1> SUFFICES ASSUME ExcIInv, NEW p \in {"cond", "after"}, ExcAt("body"),
                      frames' = [frames EXCEPT ![Top].phase = p],
                      UNCHANGED <<curr_catcher_p, dead>>
               PROVE  ExcIInv'
    BY DEF EndBody, Break
  <1> DEFINE f == [frames[Top] EXCEPT !.phase = p]
  <1>1. frames # <<>> /\ frames[Top].phase = "body" /\ Top \in 1 .. Len(frames)
    BY DEF ExcAt, ExcIInv, Top
  <1>2. frames[Top] \in Frame /\ FrameOK(frames[Top])
    BY <1>1 DEF ExcIInv
  <1>3. f \in Frame /\ FrameOK(f) /\ Trying(f)
    BY <1>1, <1>2 DEF Frame, FrameOK, Trying
  <1>4. frames' = [frames EXCEPT ![Top] = f]
    OBVIOUS
  <1> HIDE DEF f
  <1> QED
    BY <1>1, <1>3, <1>4, TopStep DEF Trying

(* CATCH is entered with an exception. *)
LEMMA EnterCatchStep == ExcIInv /\ EnterCatch => ExcIInv'
  <1> SUFFICES ASSUME ExcIInv, EnterCatch PROVE ExcIInv'
    OBVIOUS
  <1> DEFINE f == [frames[Top] EXCEPT !.phase = "catch"]
  <1>1. frames # <<>> /\ frames[Top].phase = "finally" /\ Top \in 1 .. Len(frames)
    BY DEF EnterCatch, ExcAt, ExcIInv, Top
  <1>2. frames[Top] \in Frame /\ FrameOK(frames[Top])
    BY <1>1 DEF ExcIInv
  <1>3. f \in Frame /\ FrameOK(f) /\ ~Trying(f)
    BY <1>1, <1>2 DEF Frame, FrameOK, Trying, NoExp, EnterCatch
  <1>4. frames' = [frames EXCEPT ![Top] = f] /\ UNCHANGED <<curr_catcher_p, dead>>
    BY DEF EnterCatch
  <1> HIDE DEF f
  <1> QED
    BY <1>1, <1>3, <1>4, TopStep DEF Trying

(* FINALLY pops the catcher of its own frame, and of no other. *)
LEMMA FinallyStep == ExcIInv /\ Finally => ExcIInv'
  <1> SUFFICES ASSUME ExcIInv, Finally PROVE ExcIInv'
    OBVIOUS
  <1> DEFINE g == frames[Top]
             mc == McOf("FINALLY")
             f == [g EXCEPT !.state = "END", !.phase = "finally"]
             list == curr_catcher_p
  <1>1. frames # <<>> /\ g.phase = "after"
    BY DEF Finally, ExcAt
  <1>2. list # <<>> /\ Head(list) = Top /\ Top \in 1 .. Len(frames)
    BY <1>1, HeadIsTop DEF Trying
  <1>3. g \in Frame /\ FrameOK(g)
    BY <1>2 DEF ExcIInv
  <1>4. mc = [to |-> "END", ret |-> TRUE]
    BY <1>1, <1>2, <1>3 DEF McOf, Mc, FrameOK
  <1>5. f \in Frame /\ FrameOK(f) /\ ~Trying(f)
    BY <1>1, <1>3 DEF Frame, FrameOK, Trying
  <1>6. /\ frames' = [frames EXCEPT ![Top].state = "END", ![Top].phase = "finally"]
        /\ list' = Tail(list) /\ dead' = dead
    BY <1>2, <1>4 DEF Finally, mc
  <1>7. frames' = [frames EXCEPT ![Top] = f]
    BY <1>2, <1>6 DEF ExcIInv
  <1> HIDE DEF f, mc
  <1>8. /\ frames' \in Seq(Frame) /\ Len(frames') = Len(frames) /\ Len(frames) \in Nat
        /\ \A i \in 1 .. Len(frames) : frames'[i] = IF i = Top THEN f ELSE frames[i]
    BY <1>2, <1>5, <1>7, SeqExcept DEF ExcIInv
  <1>9. /\ list' \in Seq(Nat) /\ Len(list') = Len(list) - 1 /\ Len(list) \in Nat
        /\ \A j \in 1 .. Len(list') : list'[j] = list[j + 1]
        /\ list[1] = Top
    BY <1>2, <1>6 DEF ExcIInv
  <1>10. CatchersLive'
    <2>1. \A i : (i \in 1 .. Len(frames') /\ Trying(frames'[i]))
                 <=> (i \in 1 .. Len(frames) /\ i # Top /\ Trying(frames[i]))
      BY <1>5, <1>8
    <2>2. \A j \in 1 .. Len(list') : j + 1 \in 1 .. Len(list) /\ 1 < j + 1 /\ 1 \in 1 .. Len(list)
      BY <1>9
    <2>3. ASSUME NEW j \in 1 .. Len(list')
          PROVE  list'[j] \in 1 .. Len(frames') /\ Trying(frames'[list'[j]])
      <3>1. /\ list[j + 1] \in 1 .. Len(frames) /\ Trying(frames[list[j + 1]])
            /\ list[1] > list[j + 1]
        BY <2>2 DEF ExcIInv, CatchersLive, Top, Trying
      <3>2. list'[j] = list[j + 1] /\ list[j + 1] # Top
        BY <1>9, <3>1
      <3> QED
        BY <2>1, <3>1, <3>2
    <2>4. ASSUME NEW i \in 1 .. Len(frames'), Trying(frames'[i])
          PROVE  \E j \in 1 .. Len(list') : list'[j] = i
      <3>1. PICK j \in 1 .. Len(list) : list[j] = i
        BY <2>1, <2>4, SMTT(30) DEF ExcIInv, CatchersLive, Top, Trying
      <3>2. j # 1
        BY <1>9, <2>1, <2>4, <3>1
      <3>3. j - 1 \in 1 .. Len(list') /\ list'[j - 1] = i
        BY <1>9, <3>1, <3>2
      <3> QED
        BY <3>3
    <2>5. ASSUME NEW i \in 1 .. Len(list'), NEW j \in 1 .. Len(list'), i < j
          PROVE  list'[i] > list'[j]
      <3>1. /\ list'[i] = list[i + 1] /\ list'[j] = list[j + 1]
            /\ i + 1 < j + 1
            /\ i + 1 \in 1 .. Len(list) /\ j + 1 \in 1 .. Len(list)
        BY <1>9, <2>2, <2>5, SMTT(30)
      <3> QED
        BY <3>1 DEF ExcIInv, CatchersLive
    <2> QED
      BY <2>3, <2>4, <2>5 DEF CatchersLive, Top, Trying
  <1>11. \A i \in 1 .. Len(frames') : FrameOK(frames'[i])
    BY <1>5, <1>8 DEF ExcIInv
  <1>12. \A i \in 1 .. Len(frames') - 1 : frames'[i].phase \in {"body", "finally", "catch"}
    BY <1>8 DEF ExcIInv, Top
  <1> QED
    BY <1>6, <1>8, <1>9, <1>10, <1>11, <1>12 DEF ExcIInv

(* A function that returns after its FINALLY takes no catcher with it. *)
LEMMA ReturnStep == ExcIInv /\ (NothingToCatch \/ EndCatch) => ExcIInv'
  <1> SUFFICES ASSUME ExcIInv, Return, frames # <<>>, ~Trying(frames[Top])
               PROVE  ExcIInv'
    BY DEF NothingToCatch, EndCatch, ExcAt, Trying
  <1>1. /\ Len(frames) \in Nat \ {0} /\ Top = Len(frames)
        /\ frames' = SubSeq(frames, 1, Len(frames) - 1)
        /\ UNCHANGED <<curr_catcher_p, dead>>
    BY DEF ExcIInv, Return, Top
  <1>2. /\ frames' \in Seq(Frame) /\ Len(frames') = Len(frames) - 1
        /\ \A i \in 1 .. Len(frames) - 1 : frames'[i] = frames[i]
    BY <1>1 DEF ExcIInv
  <1>3. CatchersLive'
    <2>1. \A i \in Len(frames') + 1 .. Len(frames) : i = Top
      BY <1>1, <1>2
    <2> QED
      BY <1>1, <1>2, <2>1, SameCatchers
  <1>4. \A i \in 1 .. Len(frames') : FrameOK(frames'[i])
    BY <1>1, <1>2 DEF ExcIInv
  <1>5. \A i \in 1 .. Len(frames') - 1 : frames'[i].phase \in {"body", "finally", "catch"}
    BY <1>1, <1>2 DEF ExcIInv
  <1>6. Len(frames') <= MaxDepth
    BY <1>1, <1>2, ExceptionsAssumption, SMTT(30) DEF ExcIInv
  <1> QED
    BY <1>1, <1>2, <1>3, <1>4, <1>5, <1>6 DEF ExcIInv

(* What throw_exception does to the frames: those above the first catcher's *)
(* are gone and that one is back at the condition of its loop.              *)
LEMMA RaiseEffect ==
    ASSUME ExcIInv, InCode, curr_catcher_p # <<>>,
           NEW e \in Exps, e.type # "EXP_NO_EXCEPTION", Raise(e),
           NEW c, c = Head(curr_catcher_p)
    PROVE  /\ c \in 1 .. Len(frames)
           /\ UNCHANGED <<curr_catcher_p, dead>>
           /\ frames' \in Seq(Frame) /\ Len(frames') = c
           /\ \A i \in 1 .. c - 1 : frames'[i] = frames[i]
           /\ FrameOK(frames'[c]) /\ frames'[c].phase = "cond"
  <1>1. c \in 1 .. Len(frames) /\ frames[c].phase = "body" /\ frames[c].state = "EXEC_BODY"
    BY HeadExecutes
  <1>2. McOf("THROW") = [to |-> "THROWN", ret |-> FALSE]
    BY <1>1 DEF McOf, Mc
  <1> DEFINE s == SubSeq(frames, 1, c)
             f == [s[c] EXCEPT !.exp = Normal(e), !.thrown = TRUE,
                               !.state = "THROWN", !.phase = "cond"]
  <1>3. /\ s \in Seq(Frame) /\ Len(s) = c /\ Len(frames) \in Nat
        /\ \A i \in 1 .. c : s[i] = frames[i]
    BY <1>1, SMTT(30) DEF ExcIInv
  <1>4. /\ frames' = [s EXCEPT ![c].exp = Normal(e), ![c].thrown = TRUE,
                               ![c].state = "THROWN", ![c].phase = "cond"]
        /\ UNCHANGED <<curr_catcher_p, dead>>
    <2>1. McOf("THROW").to = "THROWN"
      BY <1>2
    <2> QED
      BY <2>1 DEF Raise, Target
  <1>5. Normal(e) \in Exps /\ Normal(e).type # "EXP_NO_EXCEPTION"
    BY DEF Normal, Exps, Types, ExpLevels, EXP_LV_NONE, EXP_LV_UNCATCHABLE
  <1> HIDE DEF s
  <1>6. c \in 1 .. Len(s) /\ s[c] \in Frame
    BY <1>1, <1>3
  <1>7. f \in Frame /\ FrameOK(f) /\ f.phase = "cond"
    BY <1>5, <1>6 DEF Frame, FrameOK
  <1>8. frames' = [s EXCEPT ![c] = f]
    BY <1>3, <1>4, <1>6
  <1> HIDE DEF f
  <1>9. /\ frames' \in Seq(Frame) /\ Len(frames') = c
        /\ \A i \in 1 .. c : frames'[i] = IF i = c THEN f ELSE s[i]
    BY <1>3, <1>6, <1>7, <1>8, SeqExcept
  <1>10. c \in 1 .. c /\ \A i \in 1 .. c - 1 : i \in 1 .. c /\ i # c
    BY <1>1, <1>3
  <1>11. \A i \in 1 .. c - 1 : frames'[i] = frames[i]
    BY <1>3, <1>9, <1>10, Zenon
  <1>12. frames'[c] = f
    BY <1>9, <1>10
  <1> QED
    BY <1>1, <1>4, <1>7, <1>9, <1>11, <1>12

(* A throw, from any block, lands in a live frame, or ends the process     *)
(* outside every TRY.                                                      *)
LEMMA RaiseStep ==
    ASSUME ExcIInv, InCode, NEW e \in Exps, e.type # "EXP_NO_EXCEPTION", Raise(e)
    PROVE  ExcIInv'
  <1>1. CASE curr_catcher_p = <<>>
    BY <1>1 DEF Raise, Die, ExcIInv, CatchersLive, Top
  <1>2. CASE curr_catcher_p # <<>>
    <2> DEFINE c == Head(curr_catcher_p)
    <2>1. /\ c \in 1 .. Len(frames) /\ frames[c].phase = "body"
          /\ \A i \in c + 1 .. Len(frames) : ~Trying(frames[i])
      BY <1>2, HeadExecutes
    <2>2. /\ UNCHANGED <<curr_catcher_p, dead>>
          /\ frames' \in Seq(Frame) /\ Len(frames') = c
          /\ \A i \in 1 .. c - 1 : frames'[i] = frames[i]
          /\ FrameOK(frames'[c]) /\ frames'[c].phase = "cond"
      BY <1>2, RaiseEffect
    <2> HIDE DEF c
    <2>3. Len(frames) \in Nat /\ \A i \in 1 .. c : i = c \/ i \in 1 .. c - 1
      BY <2>1 DEF ExcIInv
    <2>4. CatchersLive'
      <3>1. \A i \in 1 .. Len(frames') : Trying(frames'[i]) <=> Trying(frames[i])
        BY <2>1, <2>2, <2>3 DEF Trying
      <3> QED
        BY <2>1, <2>2, <2>3, <3>1, SameCatchers
    <2>5. \A i \in 1 .. Len(frames') : FrameOK(frames'[i])
      BY <2>1, <2>2, <2>3 DEF ExcIInv
    <2>6. \A i \in 1 .. Len(frames') - 1 : frames'[i].phase \in {"body", "finally", "catch"}
      BY <2>1, <2>2, <2>3 DEF ExcIInv
    <2>7. Len(frames') <= MaxDepth
      BY <2>1, <2>2, <2>3, ExceptionsAssumption DEF ExcIInv
    <2> QED
      BY <2>2, <2>4, <2>5, <2>6, <2>7 DEF ExcIInv
  <1> QED
    BY <1>1, <1>2

(* The exceptions of THROW and its relatives, and what RETHROW throws      *)
(* again, are exceptions.                                                  *)
LEMMA Thrown ==
    ASSUME ExcIInv, Throw \/ Rethrow
    PROVE  InCode /\ \E e \in Exps : e.type # "EXP_NO_EXCEPTION" /\ Raise(e)
  <1>1. CASE Throw
    BY <1>1 DEF Throw, Exps, Types, ExpLevels, EXP_LV_NONE, EXP_LV_LOWEST, EXP_LV_UNCATCHABLE
  <1>2. CASE Rethrow
    <2>1. /\ dead = "no" /\ frames # <<>> /\ frames[Top].phase = "catch"
          /\ Raise(frames[Top].exp)
      BY <1>2 DEF Rethrow, ExcAt
    <2>2. Top \in 1 .. Len(frames)
      BY <2>1 DEF ExcIInv, Top
    <2>3. frames[Top] \in Frame /\ FrameOK(frames[Top])
      BY <2>2 DEF ExcIInv
    <2>4. frames[Top].exp \in Exps /\ frames[Top].exp.type # "EXP_NO_EXCEPTION"
      BY <2>1, <2>3 DEF Frame, FrameOK
    <2> QED
      BY <2>1, <2>4 DEF InCode
  <1> QED
    BY <1>1, <1>2

-----------------------------------------------------------------------------
(* The theorems *)

(* A program starts outside every TRY. *)
LEMMA InitHolds == ExcInit => ExcIInv
  <1> SUFFICES ASSUME ExcInit PROVE ExcIInv
    OBVIOUS
  <1>1. /\ frames \in Seq(Frame) /\ Len(frames) = 0
        /\ curr_catcher_p \in Seq(Nat) /\ Len(curr_catcher_p) = 0
        /\ dead = "no"
    BY DEF ExcInit
  <1> QED
    BY <1>1, ExceptionsAssumption DEF ExcIInv, CatchersLive, Top

(* No step of TRY, FINALLY, CATCH or a throw leaves the invariant. *)
LEMMA StepHolds == ExcIInv /\ [ExcNext]_ExcVars => ExcIInv'
  <1> SUFFICES ASSUME ExcIInv, [ExcNext]_ExcVars PROVE ExcIInv'
    OBVIOUS
  <1>1. CASE Try
    BY <1>1, TryStep
  <1>2. CASE Iter
    BY <1>2, IterStep
  <1>3. CASE EndBody \/ Break
    BY <1>3, BodyStep
  <1>4. CASE Finally
    BY <1>4, FinallyStep
  <1>5. CASE EnterCatch
    BY <1>5, EnterCatchStep
  <1>6. CASE NothingToCatch \/ EndCatch
    BY <1>6, ReturnStep
  <1>7. CASE Throw \/ Rethrow
    BY <1>7, Thrown, RaiseStep
  <1>8. CASE UNCHANGED ExcVars
    BY <1>8 DEF ExcVars, ExcIInv, CatchersLive, Top
  <1> QED
    BY <1>1, <1>2, <1>3, <1>4, <1>5, <1>6, <1>7, <1>8 DEF ExcNext

(* The inductive invariant holds throughout. *)
LEMMA ExcInvariance == ExcSpec => []ExcIInv
  BY InitHolds, StepHolds, PTL DEF ExcSpec

(* The catchers and their exceptions keep their types, at any depth. *)
THEOREM ExcTypeSafe == ExcSpec => []ExcTypeOK
  <1>1. ExcIInv => ExcTypeOK
    BY DEF ExcIInv, ExcTypeOK, Frame, Top
  <1> QED
    BY <1>1, ExcInvariance, PTL

(* For TRY blocks nested to any depth, left by any mix of ends, breaks and *)
(* throws, curr_catcher_p leads to exactly the frames inside their TRY,    *)
(* innermost first: no throw jumps into a function that has returned.      *)
THEOREM CatchersSafe == ExcSpec => []CatchersLive
  <1>1. ExcIInv => CatchersLive
    BY DEF ExcIInv
  <1> QED
    BY <1>1, ExcInvariance, PTL

(* exceptions_state_mc never reaches MC_FAULT, at any depth. *)
THEOREM FaultFree == ExcSpec => []NoFault
  <1>1. ExcIInv => NoFault
    BY DEF ExcIInv, NoFault
  <1> QED
    BY <1>1, ExcInvariance, PTL

(* A CATCH block runs exactly when something was thrown in its TRY block,  *)
(* at any depth: init_set_exception and the jump keep the exception        *)
(* variable true to what happened.                                         *)
THEOREM CatchSafe == ExcSpec => []CatchIffThrown
  <1>1. ASSUME ExcIInv PROVE CatchIffThrown
    <2> SUFFICES ASSUME NEW i \in 1 .. Len(frames)
                 PROVE  /\ frames[i].thrown = (frames[i].exp.type # "EXP_NO_EXCEPTION")
                        /\ frames[i].phase = "catch" => frames[i].thrown
      BY DEF CatchIffThrown, Top
    <2>1. FrameOK(frames[i])
      BY <1>1 DEF ExcIInv
    <2>2. CASE frames[i].thrown = TRUE /\ frames[i].exp.type # "EXP_NO_EXCEPTION"
      BY <2>2, Zenon
    <2>3. CASE frames[i].thrown = FALSE /\ frames[i].exp = NoExp /\ frames[i].phase # "catch"
      <3>1. frames[i].exp.type = "EXP_NO_EXCEPTION"
        BY <2>3 DEF NoExp
      <3> QED
        BY <2>3, <3>1, Zenon
    <2> QED
      BY <2>1, <2>2, <2>3 DEF FrameOK
  <1> QED
    BY <1>1, ExcInvariance, PTL

(* A function called through NOTHROW, or with NO_CATCH, never returns from *)
(* a fatal exception, at any depth.                                        *)
THEOREM FatalSafe == ExcSpec => FatalNotEaten
  <1> DEFINE A == Len(frames') < Len(frames) /\ curr_catcher_p' = curr_catcher_p
                     /\ frames' = SubSeq(frames, 1, Len(frames'))
                     /\ frames[Top].kind # "CATCH"
                  => frames[Top].exp.level < EXP_LV_FATAL
  <1>1. ASSUME ExcIInv, [ExcNext]_ExcVars PROVE [A]_ExcVars
    <2> SUFFICES ASSUME ExcNext, Len(frames') < Len(frames),
                        frames' = SubSeq(frames, 1, Len(frames')),
                        frames[Top].kind # "CATCH"
                 PROVE  frames[Top].exp.level < EXP_LV_FATAL
      BY <1>1
    <2>1. /\ frames \in Seq(Frame) /\ Len(frames) \in Nat
      BY <1>1 DEF ExcIInv
    <2>2. CASE NothingToCatch
      <3>1. Top \in 1 .. Len(frames)
        BY <2>1, <2>2 DEF NothingToCatch, ExcAt, Top
      <3>2. FrameOK(frames[Top])
        BY <1>1, <3>1 DEF ExcIInv
      <3> QED
        BY <2>2, <3>2 DEF NothingToCatch, FrameOK, NoExp, EXP_LV_NONE, EXP_LV_FATAL
    <2>3. CASE EndCatch
      BY <2>3 DEF EndCatch, Eaten, EXP_LV_LOWEST, EXP_LV_TAINTED, EXP_LV_FATAL
    <2>4. CASE Throw \/ Rethrow
      <3>1. InCode /\ \E e \in Exps : e.type # "EXP_NO_EXCEPTION" /\ Raise(e)
        BY <1>1, <2>4, Thrown
      <3>2. curr_catcher_p # <<>>
        <4>1. Len(frames') # Len(frames)
          BY <2>1
        <4>2. curr_catcher_p = <<>> => frames' = frames
          BY <3>1, Zenon DEF Raise, Die
        <4> QED
          BY <4>1, <4>2, Zenon
      <3> DEFINE c == Head(curr_catcher_p)
      <3>3. /\ c \in 1 .. Len(frames) /\ Len(frames') = c /\ frames'[c].phase = "cond"
        BY <1>1, <3>1, <3>2, RaiseEffect
      <3>4. frames[c].phase = "body"
        BY <1>1, <3>1, <3>2, HeadExecutes
      <3> HIDE DEF c
      <3>5. frames'[c] = frames[c]
        BY <2>1, <3>3
      <3> QED
        BY <3>3, <3>4, <3>5
    <2>5. CASE Try \/ Iter \/ EndBody \/ Break \/ Finally \/ EnterCatch
      <3>1. Len(frames') >= Len(frames)
        <4>1. CASE Try
          <5>1. \E f : frames' = Append(frames, f)
            BY <4>1, Zenon DEF Try
          <5> QED
            BY <2>1, <5>1, Lengthened
        <4>2. CASE Iter \/ EndBody \/ Break \/ Finally \/ EnterCatch
          <5>1. DOMAIN frames' = DOMAIN frames
            BY <4>2 DEF Iter, EndBody, Break, Finally, EnterCatch, Die
          <5>2. frames' \in Seq(Frame)
            BY <1>1, StepHolds DEF ExcIInv
          <5> QED
            BY <2>1, <5>1, <5>2, SameLength
        <4> QED
          BY <2>5, <4>1, <4>2
      <3> QED
        BY <2>1, <3>1
    <2> QED
      BY <2>2, <2>3, <2>4, <2>5 DEF ExcNext
  <1> QED
    BY <1>1, ExcInvariance, PTL DEF ExcSpec, FatalNotEaten

=============================================================================
