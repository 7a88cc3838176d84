--------------------------- MODULE XmlNamespaces ----------------------------
(***************************************************************************)
(* The XML plugin's namespaces: the elements that declare and use them,    *)
(* and who frees them (namespace.cpp, node.cpp).  A namespace belongs to   *)
(* its wrapper: nodes and documents that are freed drop their pointers to  *)
(* it first.                                                               *)
(*                                                                         *)
(* A node or namespace and its wrapper are one.  Whether an element is of  *)
(* a document is left out (add_node looks for the URI only if it is), and  *)
(* so is the order of the declarations of one element.  External: libxml2. *)
(***************************************************************************)
EXTENDS Naturals, FiniteSets

CONSTANTS
  Elt,      \* elements
  Space,    \* namespaces
  Uri,      \* what hrefs are
  Prefix,   \* what prefixes are
  None,     \* null
  MaxHeld   \* bound: how many of them script holds at one time

ASSUME SpaceAssumption ==
  /\ Elt \cap Space = {} /\ None \notin Elt \cup Space \cup Uri \cup Prefix
  /\ IsFiniteSet(Elt \cup Space)

VARIABLES
  up,      \* the parent of an element
  nsDef,   \* the namespaces that an element declares
  ns,      \* the namespace an element is in
  label,   \* href and prefix of a namespace
  there,   \* elements and namespaces that are not freed
  script,  \* those that script holds
  sweep,   \* those that the collection under way has still to finalize
  runs     \* the program has not followed a null pointer

nsVars == <<up, nsDef, ns, label, there, script, sweep, runs>>

Labels == [href : Uri \cup {None}, prefix : Prefix \cup {None}]
Blank == [href |-> None, prefix |-> None]

-----------------------------------------------------------------------------
(* External: what libxml2 finds                                            *)

\* e, its parent, the parent of that, ...: by their distance from e.
Upwards(e) ==
  LET at[i \in 0 .. Cardinality(Elt)] ==
        IF i = 0 THEN e
        ELSE LET below == at[i - 1] IN IF below = None THEN None ELSE up[below]
  IN  at

\* Of the namespaces that fit, by the distance from e, those which the
\* nearest ancestor (or e) with such ones declares or, but for e, is in.
Nearest(e, fits) ==
  LET at == Upwards(e)
      here(i) == IF at[i] = None THEN {}
                 ELSE ((nsDef[at[i]] \cup IF i > 0 THEN {ns[at[i]]} ELSE {}) \ {None}) \cap fits[i]
      levels == {i \in DOMAIN at : here(i) # {}}
  IN  IF levels = {} THEN {}
      ELSE here(CHOOSE i \in levels : \A j \in levels : i <= j)

\* xmlSearchNs
SearchByPrefix(e, p) ==
  Nearest(e, [i \in DOMAIN Upwards(e) |-> {s \in Space : label[s].prefix = p /\ label[s].href # None}])

\* xmlSearchNsByHref: a declaration that another of its prefix hides does
\* not count.
SearchByUri(e, u) ==
  LET at == Upwards(e)
      hidden(s, i) == \E j \in 0 .. i - 1 : \E r \in nsDef[at[j]] : label[r].prefix = label[s].prefix
  IN  Nearest(e, [i \in DOMAIN at |->
                   IF at[i] = None THEN {} ELSE {s \in Space : label[s].href = u /\ ~hidden(s, i)}])

-----------------------------------------------------------------------------
(* What is marked, and what script comes by                                *)

Down(e) == {f \in Elt : up[f] = e}

Kin(S, Step(_)) ==
  LET grown[i \in 0 .. Cardinality(Elt \cup Space)] ==
        IF i = 0 THEN S
        ELSE LET before == grown[i - 1]
             IN  before \cup ((UNION {Step(x) : x \in before}) \ {None})
  IN  grown[Cardinality(Elt \cup Space)]

\* Mutant of NsMarked: the namespace an element is in is not marked.
NsMarkedDeclared(x) == IF x \in Elt THEN nsDef[x] \cup Down(x) \cup {up[x]} ELSE {}

\* node::trace; the context that namespace_::trace would mark is never set.
NsMarked(x) ==
  IF x \in Elt THEN nsDef[x] \cup Down(x) \cup {ns[x], up[x]} ELSE {}

\* parent, children, namespace, namespaces and the searches, which find no
\* more than the elements above declare and are in.
Given(x) == IF x \in Elt THEN {up[x], ns[x]} \cup Down(x) \cup nsDef[x] ELSE {}
InReach == Kin(script, Given)

-----------------------------------------------------------------------------
\* Calls on an element or a namespace are made on one that script has at
\* hand: NsNext says so.
NsInit ==
  /\ up = [e \in Elt |-> None] /\ nsDef = [e \in Elt |-> {}] /\ ns = [e \in Elt |-> None]
  /\ label = [s \in Space |-> Blank]
  /\ there = {} /\ script = {} /\ sweep = {} /\ runs = TRUE

Calm == sweep = {} /\ runs

\* A null pointer is followed, which ends the program.
FollowsNull ==
  /\ Calm
  /\ runs' = FALSE
  /\ UNCHANGED <<up, nsDef, ns, label, there, script, sweep>>

\* Script holds those of R, too.
Grasp(R) == script' = script \cup R /\ Cardinality(script') <= MaxHeld

\* The elements and namespaces S come to be; script holds those of R.
Arise(S, R) ==
  /\ S \cap there = {}
  /\ there' = there \cup S /\ Grasp(R)
  /\ UNCHANGED <<sweep, runs>>

\* xmlNewNs for a new element e: it declares s and is in it.
DeclaredNew(e, s, l) ==
  /\ nsDef' = [nsDef EXCEPT ![e] = {s}] /\ ns' = [ns EXCEPT ![e] = s]
  /\ label' = [label EXCEPT ![s] = l]
  /\ Arise({e, s}, {e})

\* new Node(name, namespace), where p is the prefix of the name.  A string
\* becomes a declaration.  From an object c_from_js, which tests the wrong
\* way round, always gets null: the new node has no namespace, and if its
\* name has a prefix the null is followed.
Constructed(e, parent, given, p, u) ==
  \/ given = "object" /\ p # None /\ FollowsNull
  \/ /\ Calm
     /\ up' = [up EXCEPT ![e] = parent]
     /\ \/ /\ given # "string"
           /\ given = "object" => p = None
           /\ Arise({e}, {e}) /\ UNCHANGED <<nsDef, ns, label>>
        \/ /\ given = "string"
           /\ \E s \in Space : DeclaredNew(e, s, [href |-> u, prefix |-> p])

NamespaceArgument == {"nothing", "string", "object"}

NewNsNode(e, p, u) == \E given \in NamespaceArgument : Constructed(e, None, given, p, u)

\* parent.addNode(name, namespace): a URI that is known above is replaced by
\* its namespace object.
AddNsNode(parent, e, p, u) ==
  \E given \in NamespaceArgument :
    LET passed == IF given = "string" /\ SearchByUri(parent, u) # {} THEN "object" ELSE given
    IN  Constructed(e, parent, passed, p, u)

\* new Namespace(e, u, p); e may be null.  A prefix that e has declared
\* already is refused with an exception.
NewNamespace(e, s, l) ==
  /\ Calm
  /\ e # None => \A r \in nsDef[e] : label[r].prefix # l.prefix
  /\ nsDef' = IF e = None THEN nsDef ELSE [nsDef EXCEPT ![e] = @ \cup {s}]
  /\ label' = [label EXCEPT ![s] = l]
  /\ Arise({s}, {s})
  /\ UNCHANGED <<up, ns>>

\* e.addNamespace(u, p)
AddNamespace(e, s, l) ==
  /\ Calm /\ l.href # None
  /\ \/ SearchByUri(e, l.href) = {} /\ NewNamespace(e, s, l)
     \/ /\ s \in SearchByUri(e, l.href) \ script
        /\ Grasp({s})
        /\ UNCHANGED <<up, nsDef, ns, label, there, sweep, runs>>

\* A parsed document: an element that declares its namespace, and a child
\* that uses it.  node::create makes all their wrappers.
ParseTree(e, f, s, l) ==
  /\ Calm /\ e # f /\ l.href # None
  /\ up' = [up EXCEPT ![f] = e]
  /\ nsDef' = [nsDef EXCEPT ![e] = {s}] /\ ns' = [ns EXCEPT ![e] = s, ![f] = s]
  /\ label' = [label EXCEPT ![s] = l]
  /\ Arise({e, f, s}, {e})

\* e.copy(true), of an element without children: its declarations are
\* copied; its namespace is looked up by its prefix, in the copy, and where
\* the copy has none in e, from which it is then declared anew.
CopyElement(e, f) ==
  /\ Calm /\ Down(e) = {} /\ f \notin there
  /\ \E copy \in [nsDef[e] -> Space \ there] :
       LET image == {copy[s] : s \in nsDef[e]}
           p == label[ns[e]].prefix
           own == {copy[s] : s \in {r \in nsDef[e] : ns[e] # None /\ label[r].prefix = p /\ label[r].href # None}}
           above == IF ns[e] = None THEN {} ELSE SearchByPrefix(e, p)
           labels == [s \in Space |-> IF s \in image THEN label[CHOOSE r \in nsDef[e] : copy[r] = s] ELSE label[s]]
       IN  /\ Cardinality(image) = Cardinality(nsDef[e])
           /\ \/ /\ own # {} \/ above = {}
                 /\ \E s \in (IF own = {} THEN {None} ELSE own) : ns' = [ns EXCEPT ![f] = s]
                 /\ nsDef' = [nsDef EXCEPT ![f] = image] /\ label' = labels
                 /\ Arise({f} \cup image, {f})
              \/ /\ own = {}
                 /\ \E s \in Space \ image, r \in above :
                      /\ \A d \in image : labels[d].prefix # label[r].prefix
                      /\ ns' = [ns EXCEPT ![f] = s]
                      /\ nsDef' = [nsDef EXCEPT ![f] = image \cup {s}]
                      /\ label' = [labels EXCEPT ![s] = label[r]]
                      /\ Arise({f, s} \cup image, {f})
  /\ UNCHANGED up

Relabel(s, l) ==
  /\ Calm
  /\ label' = [label EXCEPT ![s] = l]
  /\ UNCHANGED <<up, nsDef, ns, there, script, sweep, runs>>
SetHref(s, u) == Relabel(s, [label[s] EXCEPT !.href = u])
SetPrefix(s, p) == Relabel(s, [label[s] EXCEPT !.prefix = p])

\* e.namespace = null follows the pointer to the namespace there was.  An
\* object changes nothing.
ClearNamespace(e) ==
  \/ ns[e] = None /\ FollowsNull
  \/ /\ Calm /\ ns[e] # None
     /\ ns' = [ns EXCEPT ![e] = None]
     /\ UNCHANGED <<up, nsDef, label, there, script, sweep, runs>>

\* The element moves; its namespace and that of those below stay.
MoveElement(e, parent) ==
  /\ Calm
  /\ parent # None => \A i \in DOMAIN Upwards(parent) : Upwards(parent)[i] # e
  /\ up' = [up EXCEPT ![e] = parent]
  /\ UNCHANGED <<nsDef, ns, label, there, script, sweep, runs>>

-----------------------------------------------------------------------------
(* Script's variables and the collector                                    *)

TakeUp(x) ==
  /\ Calm /\ x \notin script /\ Grasp({x})
  /\ UNCHANGED <<up, nsDef, ns, label, there, sweep, runs>>

LetGo(x) ==
  /\ Calm /\ script' = script \ {x}
  /\ UNCHANGED <<up, nsDef, ns, label, there, sweep, runs>>

Sweep ==
  /\ Calm
  /\ sweep' = there \ Kin(script, NsMarked) /\ sweep' # {}
  /\ UNCHANGED <<up, nsDef, ns, label, there, script, runs>>

\* ~node drops nsDef and ns before the node is freed; ~document does so for
\* every node it frees.
FinalizeElt(e) ==
  /\ e \in sweep
  /\ sweep' = sweep \ {e} /\ there' = there \ {e}
  /\ up' = [f \in Elt |-> IF f = e \/ up[f] = e THEN None ELSE up[f]]
  /\ nsDef' = [nsDef EXCEPT ![e] = {}] /\ ns' = [ns EXCEPT ![e] = None]
  /\ UNCHANGED <<label, script, runs>>

\* ~namespace_
FinalizeSpace(s) ==
  /\ s \in sweep
  /\ sweep' = sweep \ {s} /\ there' = there \ {s}
  /\ label' = [label EXCEPT ![s] = Blank]
  \* A pointer of an element of the same sweep is not followed any more.
  /\ nsDef' = [e \in Elt |-> IF e \in sweep THEN nsDef[e] \ {s} ELSE nsDef[e]]
  /\ ns' = [e \in Elt |-> IF e \in sweep /\ ns[e] = s THEN None ELSE ns[e]]
  /\ UNCHANGED <<up, script, runs>>

NsNext ==
  \/ \E e \in InReach \cap Elt :
       \/ ClearNamespace(e)
       \/ \E f \in Elt, p \in Prefix \cup {None}, u \in Uri : AddNsNode(e, f, p, u)
       \/ \E f \in Elt : CopyElement(e, f)
       \/ \E f \in (InReach \cap Elt) \cup {None} : MoveElement(e, f)
       \/ \E s \in Space, l \in Labels : NewNamespace(e, s, l) \/ AddNamespace(e, s, l)
  \/ \E s \in InReach \cap Space : \/ \E u \in Uri \cup {None} : SetHref(s, u)
                                   \/ \E p \in Prefix \cup {None} : SetPrefix(s, p)
  \/ \E s \in Space, l \in Labels : NewNamespace(None, s, l)
  \/ \E e \in Elt, p \in Prefix \cup {None}, u \in Uri : NewNsNode(e, p, u)
  \/ \E e, f \in Elt, s \in Space, l \in Labels : ParseTree(e, f, s, l)
  \/ \E e \in Elt : FinalizeElt(e)
  \/ \E s \in Space : FinalizeSpace(s)
  \/ \E x \in InReach : TakeUp(x)
  \/ \E x \in script : LetGo(x)
  \/ Sweep

NsSpec == NsInit /\ [][NsNext]_nsVars

-----------------------------------------------------------------------------
(* Properties                                                              *)

NsTypeOK ==
  /\ up \in [Elt -> Elt \cup {None}]
  /\ nsDef \in [Elt -> SUBSET Space] /\ ns \in [Elt -> Space \cup {None}]
  /\ label \in [Space -> Labels]
  /\ script \subseteq there /\ sweep \subseteq there /\ there \subseteq Elt \cup Space
  /\ runs \in BOOLEAN

\* A namespace that an element which stays declares or is in, or that script
\* can get at from what it holds, is not freed, wherever the element that
\* declared it has gone; and one element at most declares it
\* (node::trace, namespace_::~namespace_, node::~node).
NamespacesStand ==
  /\ NsTypeOK
  /\ \A e \in (there \cap Elt) \ sweep : (nsDef[e] \cup {ns[e]}) \ {None} \subseteq there \ sweep
  /\ InReach \subseteq there \ sweep
  /\ \A e, f \in Elt : e # f => nsDef[e] \cap nsDef[f] = {}
=============================================================================
