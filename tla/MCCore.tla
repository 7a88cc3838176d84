------------------------------- MODULE MCCore -------------------------------
(***************************************************************************)
(* The C++ interface to the engine: contexts and the scopes that make them *)
(* current, the properties of an object, the values and argument lists of  *)
(* a function, and the conversion of what it is called with.  They have no *)
(* state in common; each behaviour is of one of them.  The contexts are    *)
(* interchangeable.                                                        *)
(*                                                                         *)
(* Descriptors: none of the keys, data that can be defined again and data  *)
(* that cannot, accessors, one whose getter is no function, and one that   *)
(* mixes both, the first with a getter that runs script.                   *)
(***************************************************************************)
EXTENDS ContextScope, Objects, Arguments, Conversions, TLC

VARIABLE part

Symmetric == Permutations(Context)

Nothing == [enumerable |-> "none", configurable |-> "none", writable |-> "none",
            getter |-> "none", setter |-> "none", value |-> FALSE, live |-> FALSE]

MCDescriptors ==
    {Nothing,
     [Nothing EXCEPT !.configurable = "yes", !.enumerable = "yes", !.live = TRUE],
     [Nothing EXCEPT !.configurable = "yes", !.writable = "yes", !.value = TRUE, !.enumerable = "no"],
     [Nothing EXCEPT !.getter = "function", !.setter = "function", !.configurable = "yes"],
     [Nothing EXCEPT !.getter = "function", !.enumerable = "yes"],
     [Nothing EXCEPT !.setter = "bad", !.live = TRUE],
     [Nothing EXCEPT !.setter = "function", !.value = TRUE]}

\* Below, at and above the limits of an integral type.
MCNumbers == {-1, 0, 2, 3}

\* Every adapter, every type of parameter, with and without a result.
Signature(a, t, v) == [adapter |-> a, types |-> t, void |-> v]
MCSignatures ==
    {Signature("plain", <<"int", "string">>, FALSE),
     Signature("plain", <<"bytes", "object">>, TRUE),
     Signature("native", <<"optional", "value">>, FALSE),
     Signature("object", <<"string", "native">>, TRUE),
     Signature("member", <<"string", "object">>, FALSE),
     Signature("member", <<"bytes">>, TRUE),
     Signature("plain", <<"bool", "double">>, FALSE),
     Signature("native", <<"text", "int">>, TRUE)}

MCInit ==
    /\ part \in {"contexts", "properties", "arguments", "conversions"}
    /\ Init /\ PropInit /\ ArgInit /\ ConvInit

MCNext ==
    /\ UNCHANGED part
    /\ \/ part = "contexts" /\ Next /\ UNCHANGED <<propVars, argVars, convVars>>
       \/ part = "properties" /\ PropNext /\ UNCHANGED <<vars, argVars, convVars>>
       \/ part = "arguments" /\ ArgNext /\ UNCHANGED <<vars, propVars, convVars>>
       \/ part = "conversions" /\ ConvNext /\ UNCHANGED <<vars, propVars, argVars>>

MCSpec == MCInit /\ [][MCNext]_<<part, vars, propVars, argVars, convVars>>
=============================================================================
