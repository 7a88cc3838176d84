----------------------------- MODULE MCPlugins -----------------------------
(***************************************************************************)
(* The SQLite3 and the cURL plugin side by side. They share no state;      *)
(* bound: a behaviour uses one of them.                                    *)
(***************************************************************************)
EXTENDS SqliteCursor, Curl

MCKnown == <<<<"A", "-", "B">>>>
MCCanonical == (<<"A", "-", "B">> :> <<"A", "-", "B">>) @@ (<<"a", "-", "b">> :> <<"A", "-", "B">>)
MCInherited == {<<"toString">>}

(***************************************************************************)
(* Two spellings of a known name, one of them with two values, a name that *)
(* is not settled with one "_" replaced, one that every object has, a      *)
(* continuation, and a line that is no header.                             *)
(***************************************************************************)
MCLines == {[name |-> <<"A", "-", "B">>, val |-> <<"x">>], [name |-> <<"A", "-", "B">>, val |-> <<"y">>],
            [name |-> <<"a", "_", "b">>, val |-> <<"x">>], [name |-> <<"X", "_", "_">>, val |-> <<"x">>],
            [name |-> <<"toString">>, val |-> <<"x">>], [cont |-> "z"], [junk |-> "j"]}

vars == <<sqliteVars, curlVars>>

Init == SqliteInit /\ CurlInit

Next ==
    \/ responses = <<>> /\ SqliteNext /\ UNCHANGED curlVars
    \/ db /\ made = {} /\ CurlNext /\ UNCHANGED sqliteVars

Spec == Init /\ [][Next]_vars
=============================================================================
