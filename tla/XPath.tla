------------------------------- MODULE XPath --------------------------------
(***************************************************************************)
(* The XML plugin's XPath contexts: the object ns, whose properties its    *)
(* hooks copy to the hash table of the context, the current node, and what *)
(* keeps both alive (xpath_context.cpp).                                   *)
(*                                                                         *)
(* There is one document.  Two uses end what is modelled, for they lead to *)
(* freed memory: a change of ns after its context is collected, and taking *)
(* the current node out of its document.  Expressions are told apart by    *)
(* the prefix they use.  External: libxml2 and the engine's properties.    *)
(***************************************************************************)
EXTENDS Naturals, FiniteSets

CONSTANTS
  Ctx,      \* XPath contexts
  DocNode,  \* the document
  XNode,    \* elements of the document
  NsName,   \* names of namespace properties
  XmlName,  \* the one that a context has from the start
  NsUri,    \* and their values
  Missing   \* no value, no node

ASSUME XPathAssumption ==
  DocNode \notin XNode /\ XmlName \in NsName /\ Missing \notin NsUri \cup XNode \cup {DocNode}

VARIABLES
  contexts, \* contexts that are not freed
  spaces,   \* contexts whose object ns is not freed
  table,    \* the hash table of each context
  props,    \* the properties of its object ns
  current,  \* its current node
  inTree,   \* the document and the elements in it
  alone,    \* elements that were taken out of it, and not freed
  grip,     \* what script holds: <<"context", x>>, <<"ns", x>>, <<"node", n>>
  reaped,   \* what the collection under way has still to finalize
  proper    \* no use so far was one of those that are left out

xpathVars == <<contexts, spaces, table, props, current, inTree, alone, grip, reaped, proper>>

Bare == [k \in NsName |-> Missing]

XPathInit ==
  /\ contexts = {} /\ spaces = {}
  /\ table = [x \in Ctx |-> Bare] /\ props = [x \in Ctx |-> Bare]
  /\ current = [x \in Ctx |-> Missing]
  /\ inTree = XNode \cup {DocNode} /\ alone = {}
  /\ grip = {<<"node", DocNode>>} /\ reaped = {} /\ proper = TRUE

Idle == reaped = {} /\ proper

\* Mutant of ContextMarks: the context does not keep its document.
ContextMarksNs(x) == {<<"ns", x>>}

\* The properties document and ns of a context are permanent.
ContextMarks(x) == {<<"node", DocNode>>, <<"ns", x>>}

\* Nodes of one tree lead to one another; a node that was taken out leads
\* to the document, which does not lead back.
MarksOf(o) ==
  CASE o[1] = "context" -> ContextMarks(o[2])
    [] o[1] = "node"    -> {<<"node", n>> : n \in inTree}
    [] o[1] = "ns"      -> {}

From(S, Step(_)) == LET once == S \cup UNION {Step(o) : o \in S} IN once \cup UNION {Step(o) : o \in once}

\* What script can get at, and what is not freed.
WithinReach == From(grip, MarksOf)
Objects ==
  {<<"context", x>> : x \in contexts} \cup {<<"ns", x>> : x \in spaces}
    \cup {<<"node", n>> : n \in inTree \cup alone}

-----------------------------------------------------------------------------
(* The table                                                               *)

\* Mutant of property_set: the entry that is there stays.
property_set_first(t, k, u) == IF t[k] = Missing THEN [t EXCEPT ![k] = u] ELSE t

\* property_op, whose change is a failure where the library refuses it.
property_add(t, k, u) == [t EXCEPT ![k] = u]
AddRefused(t, k) == t[k] # Missing
property_set(t, k, u) == [t EXCEPT ![k] = u]
property_delete(t, k) == [t EXCEPT ![k] = Missing]
DeleteRefused(t, k) == t[k] = Missing

\* External: the engine adds a property it does not know and then sets it.
Assign(x, k, u) ==
  /\ ~(props[x][k] = Missing /\ AddRefused(table[x], k))
  /\ LET added == IF props[x][k] = Missing THEN property_add(table[x], k, u) ELSE table[x]
     IN  table' = [table EXCEPT ![x] = property_set(added, k, u)]
  /\ props' = [props EXCEPT ![x][k] = u]

\* new XPath(document, namespaces): the table gets the namespaces one by one.
NewContext(x, given) ==
  /\ Idle /\ x \notin contexts \cup spaces /\ given[XmlName] # Missing
  /\ <<"node", DocNode>> \in WithinReach
  /\ contexts' = contexts \cup {x} /\ spaces' = spaces \cup {x}
  /\ table' = [table EXCEPT ![x] = given] /\ props' = [props EXCEPT ![x] = given]
  /\ current' = [current EXCEPT ![x] = Missing]
  /\ grip' = grip \cup {<<"context", x>>}
  /\ UNCHANGED <<inTree, alone, reaped, proper>>

\* ns[k] = u
SetName(x, k, u) ==
  /\ Idle /\ <<"ns", x>> \in WithinReach
  /\ IF x \in contexts THEN Assign(x, k, u) /\ UNCHANGED proper
     ELSE proper' = FALSE /\ UNCHANGED <<table, props>>
  /\ UNCHANGED <<contexts, spaces, current, inTree, alone, grip, reaped>>

\* delete ns[k], which throws if ns has no k.
DeleteName(x, k) ==
  /\ Idle /\ <<"ns", x>> \in WithinReach
  /\ IF x \in contexts
     THEN /\ ~DeleteRefused(table[x], k)
          /\ table' = [table EXCEPT ![x] = property_delete(@, k)]
          /\ props' = [props EXCEPT ![x][k] = Missing]
          /\ UNCHANGED proper
     ELSE proper' = FALSE /\ UNCHANGED <<table, props>>
  /\ UNCHANGED <<contexts, spaces, current, inTree, alone, grip, reaped>>

-----------------------------------------------------------------------------
(* Evaluation and the current node                                         *)

\* A call of the context with an expression that uses the prefix k, which
\* must be known: script may keep a node of the result.
Evaluate(x, k, n) ==
  /\ Idle /\ <<"context", x>> \in WithinReach
  /\ table[x][k] # Missing /\ n \in inTree
  /\ grip' = grip \cup {<<"node", n>>}
  /\ UNCHANGED <<contexts, spaces, table, props, current, inTree, alone, reaped, proper>>

\* current = a node of the document, or null.
SetCurrent(x, n) ==
  /\ Idle /\ <<"context", x>> \in WithinReach
  /\ n = Missing \/ <<"node", n>> \in WithinReach
  /\ current' = [current EXCEPT ![x] = n]
  /\ proper' = (n \notin alone)
  /\ UNCHANGED <<contexts, spaces, table, props, inTree, alone, grip, reaped>>

GetCurrent(x) ==
  /\ Idle /\ <<"context", x>> \in WithinReach /\ current[x] # Missing
  /\ grip' = grip \cup {<<"node", current[x]>>}
  /\ UNCHANGED <<contexts, spaces, table, props, current, inTree, alone, reaped, proper>>

UnlinkElement(n) ==
  /\ Idle /\ n \in inTree /\ <<"node", n>> \in WithinReach
  /\ inTree' = inTree \ {n} /\ alone' = alone \cup {n}
  /\ proper' = (\A x \in contexts : current[x] # n)
  /\ grip' = grip \cup {<<"node", n>>}
  /\ UNCHANGED <<contexts, spaces, table, props, current, reaped>>

Release(o) ==
  /\ Idle /\ o \in grip /\ grip' = grip \ {o}
  /\ UNCHANGED <<contexts, spaces, table, props, current, inTree, alone, reaped, proper>>

HoldNs(x) ==
  /\ Idle /\ <<"ns", x>> \in WithinReach \ grip /\ grip' = grip \cup {<<"ns", x>>}
  /\ UNCHANGED <<contexts, spaces, table, props, current, inTree, alone, reaped, proper>>

-----------------------------------------------------------------------------
(* The collector                                                           *)

Reap ==
  /\ Idle
  /\ reaped' = Objects \ WithinReach /\ reaped' # {}
  /\ UNCHANGED <<contexts, spaces, table, props, current, inTree, alone, grip, proper>>

\* ~xpath_context frees the table, ~namespaces nothing.
FinalizeContext(x) ==
  /\ <<"context", x>> \in reaped
  /\ reaped' = reaped \ {<<"context", x>>} /\ contexts' = contexts \ {x}
  /\ table' = [table EXCEPT ![x] = Bare] /\ current' = [current EXCEPT ![x] = Missing]
  /\ props' = [props EXCEPT ![x] = Bare]
  /\ UNCHANGED <<spaces, inTree, alone, grip, proper>>

FinalizeNamespaces(x) ==
  /\ <<"ns", x>> \in reaped
  /\ reaped' = reaped \ {<<"ns", x>>} /\ spaces' = spaces \ {x}
  /\ UNCHANGED <<contexts, table, props, current, inTree, alone, grip, proper>>

\* The document and what is in it end together.
FinalizeTree ==
  /\ <<"node", DocNode>> \in reaped
  /\ inTree' = {}
  /\ reaped' = reaped \ {<<"node", n>> : n \in inTree}
  /\ UNCHANGED <<contexts, spaces, table, props, current, alone, grip, proper>>

FinalizeAlone(n) ==
  /\ n \in alone /\ <<"node", n>> \in reaped
  /\ alone' = alone \ {n} /\ reaped' = reaped \ {<<"node", n>>}
  /\ UNCHANGED <<contexts, spaces, table, props, current, inTree, grip, proper>>

XPathNext ==
  \/ \E x \in Ctx :
       \/ GetCurrent(x) \/ FinalizeContext(x) \/ FinalizeNamespaces(x) \/ HoldNs(x)
       \/ \E given \in [NsName -> NsUri \cup {Missing}] : NewContext(x, given)
       \/ \E k \in NsName : \/ DeleteName(x, k)
                            \/ \E u \in NsUri : SetName(x, k, u)
                            \/ \E n \in XNode \cup {DocNode} : Evaluate(x, k, n)
       \/ \E n \in XNode \cup {DocNode, Missing} : SetCurrent(x, n)
  \/ \E n \in XNode : UnlinkElement(n) \/ FinalizeAlone(n)
  \/ \E o \in grip : Release(o)
  \/ Reap \/ FinalizeTree

XPathSpec == XPathInit /\ [][XPathNext]_xpathVars

-----------------------------------------------------------------------------
(* Properties                                                              *)

XPathTypeOK ==
  /\ contexts \cup spaces \subseteq Ctx
  /\ table \in [Ctx -> [NsName -> NsUri \cup {Missing}]]
  /\ current \in [Ctx -> XNode \cup {DocNode, Missing}]
  /\ inTree \subseteq XNode \cup {DocNode} /\ alone \subseteq XNode
  /\ proper \in BOOLEAN

\* As long as all uses are proper, the namespaces that an evaluation knows
\* are the properties of ns, and the document, ns and the current node stand
\* as long as the context (namespaces::property_op, the permanent properties
\* of xpath_context). Of what the two improper uses do it says nothing.
ContextsSound ==
  XPathTypeOK /\ (proper => \A x \in {y \in contexts : <<"context", y>> \notin reaped} :
    /\ table[x] = props[x]
    /\ current[x] \in inTree \cup {Missing} /\ <<"node", DocNode>> \notin reaped
    /\ x \in spaces /\ <<"ns", x>> \notin reaped)
=============================================================================
