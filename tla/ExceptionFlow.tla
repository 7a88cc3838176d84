--------------------------- MODULE ExceptionFlow ----------------------------
(***************************************************************************)
(* What flusspferd promises about exceptions that cross between C++ and    *)
(* script: there is one of them at a time, it moves outwards through the   *)
(* nested calls, unchanged, until code of one of them catches it, and      *)
(* nothing else happens meanwhile.                                         *)
(***************************************************************************)
EXTENDS Naturals

CONSTANTS
  Exception,  \* what can be thrown
  Foreign,    \* those that are not values of the script language
  Error,      \* the exception made for a failure that has no value
  None        \* no exception

VARIABLES
  depth,   \* nested calls
  moving   \* the exception that is under way

FlowInit == depth = 0 /\ moving = None

Call == moving = None /\ depth' = depth + 1 /\ UNCHANGED moving
Return == moving = None /\ depth > 0 /\ depth' = depth - 1 /\ UNCHANGED moving
Raise == moving = None /\ moving' \in Exception /\ UNCHANGED depth
Catch == moving # None /\ moving' = None /\ UNCHANGED depth

Outwards == moving # None /\ depth > 0 /\ depth' = depth - 1
Propagate == Outwards /\ UNCHANGED moving

\* At the border of a call what is no value of the script language becomes
\* an Error, or ends there.
Convert == Outwards /\ moving \in Foreign /\ moving' = Error
Absorb == Outwards /\ moving \in Foreign /\ moving' = None

FlowNext == Call \/ Return \/ Raise \/ Catch \/ Propagate \/ Convert \/ Absorb

FlowSpec == FlowInit /\ [][FlowNext]_<<depth, moving>>
=============================================================================
