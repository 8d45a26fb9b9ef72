----------------------------- MODULE Exceptions -----------------------------
(***************************************************************************)
(* TRY ... FINALLY ... CATCH of core/replay/exception.h and exception.c.   *)
(* A catcher is a small state machine that lives in the stack frame of the *)
(* function with the TRY; catchers are linked into a list whose head is    *)
(* curr_catcher_p, and a throw jumps back, with longjmp, into the frame of *)
(* the first of them.                                                      *)
(*                                                                         *)
(* The program is any program that keeps the header's rule not to return   *)
(* from a TRY block.  Only the frames that have a TRY are here.            *)
(***************************************************************************)
EXTENDS Integers, Sequences

CONSTANT MaxDepth   \* bound: how deep frames with a TRY nest

ASSUME ExceptionsAssumption == MaxDepth \in Nat

(* The levels of an exception. *)
EXP_LV_NONE == 0
EXP_LV_LOWEST == 1
EXP_LV_TAINTED == 2
EXP_LV_FATAL == 3
EXP_LV_UNCATCHABLE == 4
ExpLevels == EXP_LV_NONE .. EXP_LV_UNCATCHABLE
Types == {"EXP_NO_EXCEPTION", "EXP_SOME", "EXP_UNCATCHABLE"}

Exps == [type : Types, level : ExpLevels]

NoExp == [type |-> "EXP_NO_EXCEPTION", level |-> EXP_LV_NONE]

(* How the CATCH of a frame is written: by hand, NO_CATCH, or the one in   *)
(* NOTHROW.                                                                *)
Kinds == {"CATCH", "NO_CATCH", "NOTHROW"}

VARIABLES
  frames,          \* the frames, outermost first
  curr_catcher_p,  \* the frames whose catchers are linked, head first
  dead             \* the process ended in a FATAL: "no", "outmost" or "fault"

ExcVars == <<frames, curr_catcher_p, dead>>

ExcInit == frames = <<>> /\ curr_catcher_p = <<>> /\ dead = "no"

Top == Len(frames)

(* In the frame on top: "cond", about to evaluate the condition of the     *)
(* while loop of TRY; "body"; "after" the loop; "finally", the block that  *)
(* follows FINALLY; "catch", the block of CATCH.                           *)
ExcAt(p) == dead = "no" /\ frames # <<>> /\ frames[Top].phase = p

(* Code of the program runs: outside every TRY, or in a block. *)
InCode == dead = "no" /\ (frames # <<>> => frames[Top].phase \in {"body", "finally", "catch"})

Die(why) == dead' = why /\ UNCHANGED <<frames, curr_catcher_p>>

-----------------------------------------------------------------------------
(* exceptions_state_mc *)

(* Mutant: break leaves the catcher in the list. *)
Mc_BreakKeeps(state, action) ==
    CASE state = "INIT" /\ action = "ITER_0" -> [to |-> "EXEC_BODY", ret |-> TRUE]
      [] state = "EXEC_BODY" /\ action = "ITER_0" -> [to |-> "WAIT_FINALLY", ret |-> FALSE]
      [] state = "EXEC_BODY" /\ action = "THROW" -> [to |-> "THROWN", ret |-> FALSE]
      [] state = "EXEC_BODY" /\ action = "FINALLY" -> [to |-> "WAIT_FINALLY", ret |-> TRUE]
      [] state = "WAIT_FINALLY" /\ action = "FINALLY" -> [to |-> "END", ret |-> TRUE]
      [] state = "THROWN" /\ action = "ITER_0" -> [to |-> "WAIT_FINALLY", ret |-> FALSE]
      [] OTHER -> [to |-> "FAULT", ret |-> FALSE]

(* Mutant: there is no way out of THROWN. *)
Mc_ThrownStuck(state, action) ==
    CASE state = "INIT" /\ action = "ITER_0" -> [to |-> "EXEC_BODY", ret |-> TRUE]
      [] state = "EXEC_BODY" /\ action = "ITER_0" -> [to |-> "WAIT_FINALLY", ret |-> FALSE]
      [] state = "EXEC_BODY" /\ action = "THROW" -> [to |-> "THROWN", ret |-> FALSE]
      [] state \in {"EXEC_BODY", "WAIT_FINALLY"} /\ action = "FINALLY" ->
            [to |-> "END", ret |-> TRUE]
      [] OTHER -> [to |-> "FAULT", ret |-> FALSE]

(* The next state of the catcher and the value returned; "END" stands for  *)
(* pop_catcher and "FAULT" for MC_FAULT.                                   *)
Mc(state, action) ==
    CASE state = "INIT" /\ action = "ITER_0" -> [to |-> "EXEC_BODY", ret |-> TRUE]
      [] state = "EXEC_BODY" /\ action = "ITER_0" -> [to |-> "WAIT_FINALLY", ret |-> FALSE]
      [] state = "EXEC_BODY" /\ action = "THROW" -> [to |-> "THROWN", ret |-> FALSE]
      [] state \in {"EXEC_BODY", "WAIT_FINALLY"} /\ action = "FINALLY" ->
            [to |-> "END", ret |-> TRUE]
      [] state = "THROWN" /\ action = "ITER_0" -> [to |-> "WAIT_FINALLY", ret |-> FALSE]
      [] OTHER -> [to |-> "FAULT", ret |-> FALSE]

(* The machine steps the catcher at the head of the list, whoever's it is. *)
McOf(action) == Mc(frames[Head(curr_catcher_p)].state, action)

-----------------------------------------------------------------------------
(* TRY and FINALLY *)

(* Mutant: the exception variable is not cleared. *)
InitExp_Keep(e) == e

(* init_set_exception, on a variable of the frame that may hold anything. *)
InitExp(e) == NoExp

(* exceptions_state_mc_init, and setjmp. *)
Try ==
    /\ InCode
    /\ Top < MaxDepth
    /\ \E kind \in Kinds, stale \in {NoExp, [type |-> "EXP_SOME", level |-> EXP_LV_LOWEST]} :
          frames' = Append(frames, [kind |-> kind, phase |-> "cond", state |-> "INIT",
                                    exp |-> InitExp(stale), thrown |-> FALSE])
    /\ curr_catcher_p' = <<Top + 1>> \o curr_catcher_p
    /\ UNCHANGED dead

(* The condition of the loop: on the way in, after the body, after a jump. *)
Iter ==
    LET mc == McOf("ITER_0")
    IN  /\ ExcAt("cond")
        /\ IF mc.to = "FAULT" THEN Die("fault")
           ELSE /\ frames' = [frames EXCEPT ![Head(curr_catcher_p)].state = mc.to,
                                           ![Top].phase = IF mc.ret THEN "body" ELSE "after"]
                /\ UNCHANGED <<curr_catcher_p, dead>>

(* The body comes to its end, or continues. *)
EndBody ==
    /\ ExcAt("body")
    /\ frames' = [frames EXCEPT ![Top].phase = "cond"]
    /\ UNCHANGED <<curr_catcher_p, dead>>

(* The body breaks out of the loop. *)
Break ==
    /\ ExcAt("body")
    /\ frames' = [frames EXCEPT ![Top].phase = "after"]
    /\ UNCHANGED <<curr_catcher_p, dead>>

(* exceptions_state_mc(CATCH_FINALLY), and pop_catcher. *)
Finally ==
    LET mc == McOf("FINALLY")
    IN  /\ ExcAt("after")
        /\ IF mc.to = "FAULT" THEN Die("fault")
           ELSE /\ frames' = [frames EXCEPT ![Head(curr_catcher_p)].state = mc.to,
                                           ![Top].phase = "finally"]
                /\ curr_catcher_p' = IF mc.to = "END" THEN Tail(curr_catcher_p)
                                     ELSE curr_catcher_p
                /\ UNCHANGED dead

(* CATCH: the block is entered when the type says that there is one. *)
EnterCatch ==
    /\ ExcAt("finally") /\ frames[Top].exp.type # "EXP_NO_EXCEPTION"
    /\ frames' = [frames EXCEPT ![Top].phase = "catch"]
    /\ UNCHANGED <<curr_catcher_p, dead>>

(* The function returns. *)
Return == frames' = SubSeq(frames, 1, Top - 1) /\ UNCHANGED <<curr_catcher_p, dead>>

NothingToCatch ==
    /\ ExcAt("finally") /\ frames[Top].exp.type = "EXP_NO_EXCEPTION"
    /\ Return

-----------------------------------------------------------------------------
(* throw_exception *)

(* An exception of a level that cannot be caught changes its type too. *)
Normal(e) ==
    IF e.level >= EXP_LV_UNCATCHABLE
    THEN [type |-> "EXP_UNCATCHABLE", level |-> EXP_LV_UNCATCHABLE] ELSE e

(* The frame a throw goes to. *)
Target(list) == Head(list)

(* The exception is stored in the first catcher's frame and the frames     *)
(* above it are abandoned.                                                 *)
Raise(e) ==
    IF curr_catcher_p = <<>> THEN Die("outmost")
    ELSE IF McOf("THROW").to = "FAULT" THEN Die("fault")
    ELSE LET c == Target(curr_catcher_p)
         IN  /\ frames' = [SubSeq(frames, 1, c) EXCEPT
                              ![c].exp = Normal(e), ![c].thrown = TRUE,
                              ![c].state = McOf("THROW").to, ![c].phase = "cond"]
             /\ UNCHANGED <<curr_catcher_p, dead>>

(* THROW, THROW_TAINTED, THROW_FATAL, or a throw with the level reserved   *)
(* for what cannot be caught, anywhere in the program.                     *)
Throw ==
    /\ InCode
    /\ \E lv \in EXP_LV_LOWEST .. EXP_LV_UNCATCHABLE :
          Raise([type |-> "EXP_SOME", level |-> lv])

(* Mutant: everything but the uncatchable is eaten. *)
Eaten_Fatal(e) == e.level \in EXP_LV_LOWEST .. EXP_LV_FATAL

(* The exceptions EAT_SMALL_EXP does not throw again. *)
Eaten(e) == e.level \in {EXP_LV_LOWEST, EXP_LV_TAINTED}

(* The end of a CATCH block. *)
EndCatch ==
    /\ ExcAt("catch")
    /\ \/ frames[Top].kind = "CATCH"
       \/ frames[Top].kind = "NOTHROW" /\ Eaten(frames[Top].exp)
    /\ Return

(* RETHROW. *)
Rethrow ==
    /\ ExcAt("catch")
    /\ \/ frames[Top].kind = "NO_CATCH"
       \/ frames[Top].kind = "NOTHROW" /\ ~Eaten(frames[Top].exp)
    /\ Raise(frames[Top].exp)

ExcNext ==
    \/ Try \/ Iter \/ EndBody \/ Break \/ Finally \/ EnterCatch \/ NothingToCatch
    \/ Throw \/ EndCatch \/ Rethrow

ExcSpec == ExcInit /\ [][ExcNext]_ExcVars

-----------------------------------------------------------------------------
(* Properties *)

(* The types of the state above. *)
ExcTypeOK ==
    /\ frames \in Seq([kind : Kinds, phase : {"cond", "body", "after", "finally", "catch"},
                       state : {"INIT", "EXEC_BODY", "WAIT_FINALLY", "THROWN", "END"},
                       exp : Exps, thrown : BOOLEAN])
    /\ Top <= MaxDepth
    /\ dead \in {"no", "outmost", "fault"}

(* The catchers that are linked are those of the frames inside their TRY,  *)
(* innermost first: none has returned, so that no throw jumps into a frame *)
(* that is gone, and none is passed over.                                  *)
CatchersLive ==
    LET inTry == {i \in 1 .. Top : frames[i].phase \in {"cond", "body", "after"}}
    IN  /\ \A i \in 1 .. Len(curr_catcher_p) : curr_catcher_p[i] \in inTry
        /\ \A i \in inTry : \E j \in 1 .. Len(curr_catcher_p) : curr_catcher_p[j] = i
        /\ \A i, j \in 1 .. Len(curr_catcher_p) :
              i < j => curr_catcher_p[i] > curr_catcher_p[j]

(* A program that keeps the rule never drives the state machine into       *)
(* MC_FAULT or "unknown state".                                            *)
NoFault == dead # "fault"

(* A CATCH block runs if, and only if, something was thrown in the TRY or  *)
(* FINALLY block before it, and a FINALLY block has an exception to look   *)
(* at exactly if its TRY block has thrown one.                             *)
CatchIffThrown ==
    \A i \in 1 .. Top :
        frames[i].phase \in {"finally", "catch"} =>
            /\ frames[i].thrown = (frames[i].exp.type # "EXP_NO_EXCEPTION")
            /\ frames[i].phase = "catch" => frames[i].thrown

(* "cannot continue, do possible cleanup and quit": a function called      *)
(* through NOTHROW or with NO_CATCH never returns from a fatal exception.  *)
FatalNotEaten ==
    [][ Len(frames') < Len(frames) /\ curr_catcher_p' = curr_catcher_p
            /\ frames' = SubSeq(frames, 1, Len(frames'))
            /\ frames[Top].kind # "CATCH"
        => frames[Top].exp.level < EXP_LV_FATAL ]_ExcVars
=============================================================================
