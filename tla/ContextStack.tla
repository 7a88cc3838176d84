---------------------------- MODULE ContextStack ----------------------------
(***************************************************************************)
(* What flusspferd promises about the current context of a thread: it      *)
(* behaves like the top of a stack.  Opening a scope pushes the context    *)
(* that was current and installs another; closing it brings back exactly   *)
(* the context that was current when it was opened, whatever happened in   *)
(* between.  ContextScope, the model of the code, has no such stack: it    *)
(* has one register, two operations on it that compare handles, and a copy *)
(* of the old value in each scope object.                                  *)
(***************************************************************************)
EXTENDS Naturals, Sequences

CONSTANTS
  Entry,    \* what can be the current context
  NoHandle  \* the invalid context

VARIABLES
  cur,      \* the current context
  saved     \* the contexts suspended by the open scopes, innermost last

Init == cur = NoHandle /\ saved = <<>>

Push ==
  /\ saved' = Append(saved, cur)
  /\ cur' \in Entry \cup {NoHandle}

Pop ==
  /\ saved # <<>>
  /\ cur' = saved[Len(saved)]
  /\ saved' = SubSeq(saved, 1, Len(saved) - 1)

\* Plain calls of the init class: entering replaces the current context
\* (done only outside every scope), leaving makes it invalid.
Replace == saved = <<>> /\ cur' \in Entry /\ UNCHANGED saved
Unset == cur' = NoHandle /\ UNCHANGED saved

Next == Push \/ Pop \/ Replace \/ Unset

Spec == Init /\ [][Next]_<<cur, saved>>
=============================================================================
