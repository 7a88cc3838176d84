------------------------------ MODULE MCStream ------------------------------
(***************************************************************************)
(* Lists of arguments for print: texts, with a zero in them and without,   *)
(* arrays at either end and alone, empty ones, one whose conversion throws *)
(* and one whose conversion assigns to recordSeparator, inside an array    *)
(* and outside.                                                            *)
(***************************************************************************)
EXTENDS Stream

TextArg == [text |-> <<"a">>]
ZeroArg == [text |-> <<"a", "z", "a">>]
ThrowArg == [throws |-> TRUE]
AssignArg == [assigns |-> <<"f">>]
ListArg(args) == [list |-> args]

MCLists ==
    {<<>>, <<TextArg>>, <<ZeroArg, TextArg>>, <<AssignArg, TextArg>>, <<TextArg, ThrowArg>>,
     <<ListArg(<<>>), TextArg>>, <<TextArg, ListArg(<<TextArg, ZeroArg>>)>>,
     <<ListArg(<<TextArg>>), ListArg(<<TextArg>>)>>,
     <<ListArg(<<TextArg, ThrowArg>>), TextArg>>, <<ListArg(<<AssignArg>>), TextArg>>}

\* An array with an element that throws when it is made a text, and a text.
MCThrowing == {<<ListArg(<<ThrowArg>>)>>, <<TextArg>>}
=============================================================================
