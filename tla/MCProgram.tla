------------------------------ MODULE MCProgram ------------------------------
(***************************************************************************)
(* The calls between C++ and script, or the program that makes the         *)
(* outermost of them: one of the two in each behaviour.  They have no      *)
(* state in common; a program that has exited stays so.                    *)
(***************************************************************************)
EXTENDS CallBridge, Repl

VARIABLE part

MCInit == part \in {"calls", "main"} /\ Init /\ ReplInit

Terminated == phase = "exited" /\ UNCHANGED replVars

MCNext ==
  /\ UNCHANGED part
  /\ \/ part = "calls" /\ Next /\ UNCHANGED replVars
     \/ part = "main" /\ (ReplNext \/ Terminated) /\ UNCHANGED vars

\* Exceptions unwind, and the program goes on, as long as its scripts end and
\* its input, which has MaxLines lines at most, does not keep it waiting.
MCSpec ==
  /\ MCInit /\ [][MCNext]_<<part, vars, replVars>>
  /\ WF_vars(Unwind)
  /\ WF_replVars(part = "main" /\ ReplNext)

\* EndsUnlessCut, of the behaviours that are of the program.
MainEnds == part = "main" => EndsUnlessCut
=============================================================================
