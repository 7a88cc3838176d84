------------------------------ MODULE XmlTree -------------------------------
(***************************************************************************)
(* The XML plugin's nodes and documents: the pointers between them, the    *)
(* methods and setters with which scripts change them, and the collector,  *)
(* which marks through node::trace and finalizes wrappers in any order.    *)
(*                                                                         *)
(* Every node has its wrapper from its creation on, so that one identity   *)
(* stands for both.  Attributes and namespaces have modules of their own;  *)
(* what texts contain is left out.  External: libxml2.                     *)
(*                                                                         *)
(* The setters trust their caller: a call that asks for a cycle, or moves  *)
(* a node away from neighbours that the setter forgets, breaks the tree.   *)
(* Which calls do not is stated next to each; after one that does, nothing *)
(* more happens here (what the program does then depends on the damage).   *)
(* The same is so of two things that free or read too much: assigning the  *)
(* content of an element that has children, and freeing a node after its   *)
(* document.                                                               *)
(***************************************************************************)
EXTENDS Naturals, FiniteSets, FiniteSetsExt

CONSTANTS
  Node,     \* nodes, documents among them
  Document, \* those of type XML_DOCUMENT_NODE
  Text,     \* those of type XML_TEXT_NODE
  Nil,      \* the null pointer
  MaxNodes  \* bound: nodes that exist at one time

ASSUME NodeAssumption ==
  /\ IsFiniteSet(Node) /\ Nil \notin Node
  /\ Document \subseteq Node /\ Text \subseteq Node \ Document
  /\ MaxNodes \in Nat

VARIABLES
  tree,     \* the pointers of the nodes
  exists,   \* nodes that are not freed
  refs,     \* nodes whose wrappers script holds
  garbage,  \* wrappers the collector is about to finalize
  careful   \* all calls so far were among those the setters provide for

treeVars == <<tree, exists, refs, garbage, careful>>

Pointer == {"parent", "prev", "next", "children", "last", "doc"}
Element == Node \ (Document \cup Text)

-----------------------------------------------------------------------------
(* Pointers.  t is a tree in the middle of an operation.                   *)

\* n->p = x, guarded by "if (n)", where f is p.
PutIn(f, n, x) == IF n = Nil THEN f ELSE [f EXCEPT ![n] = x]
Put(t, p, n, x) == [t EXCEPT ![p] = PutIn(@, n, x)]

\* The same for each of a set of nodes.
PutAll(t, p, S, x) == [t EXCEPT ![p] = [n \in Node |-> IF n \in S THEN x ELSE t[p][n]]]

\* n, n->p, n->p->p, ...
Along(t, p, n) ==
  LET at[i \in 0 .. Cardinality(Node)] ==
        IF i = 0 THEN n
        ELSE LET before == at[i - 1] IN IF before = Nil THEN Nil ELSE t[p][before]
  IN  {at[i] : i \in DOMAIN at} \ {Nil}

\* Where a loop along p ends; Nil if it does not.
End(t, p, n) ==
  IF \E m \in Along(t, p, n) : t[p][m] = Nil
  THEN CHOOSE m \in Along(t, p, n) : t[p][m] = Nil ELSE Nil

\* The nodes below those of S, and S.
Below(t, S) == {n \in Node : Along(t, "parent", n) \cap S # {}}

-----------------------------------------------------------------------------
(* External: libxml2 *)

xmlSetTreeDoc(t, S, doc) == PutAll(t, "doc", Below(t, S), doc)
xmlSetListDoc(t, n, doc) == xmlSetTreeDoc(t, Along(t, "next", n), doc)

xmlUnlinkNode(t, n) ==
  LET p == t.parent[n]
      a == IF p # Nil /\ t.children[p] = n THEN Put(t, "children", p, t.next[n]) ELSE t
      b == IF p # Nil /\ t.last[p] = n THEN Put(a, "last", p, t.prev[n]) ELSE a
      c == Put(Put(b, "prev", t.next[n], t.prev[n]), "next", t.prev[n], t.next[n])
  IN  [c EXCEPT !.parent[n] = Nil, !.next[n] = Nil, !.prev[n] = Nil]

\* The root takes the place of old, the first element there is, or the last.
xmlDocSetRootElement(t, d, n) ==
  LET u == Put(xmlSetTreeDoc(xmlUnlinkNode(t, n), {n}, d), "parent", n, d)
      old == {m \in Along(u, "next", u.children[d]) \cap Element :
                \A l \in Along(u, "prev", m) \ {m} : l \notin Element}
      Between(s, before, after) ==
        LET b == Put(Put(s, "prev", n, before), "next", before, n)
            c == Put(Put(b, "next", n, after), "prev", after, n)
            f == IF before = Nil THEN Put(c, "children", d, n) ELSE c
        IN  IF after = Nil THEN Put(f, "last", d, n) ELSE f
  IN  IF old = {} THEN Between(u, u.last[d], Nil)
      ELSE LET o == CHOOSE m \in old : TRUE
               r == Between(u, u.prev[o], u.next[o])
           IN  [r EXCEPT !.parent[o] = Nil, !.next[o] = Nil, !.prev[o] = Nil]

-----------------------------------------------------------------------------
(* class node: setters *)

\* Mutant of SetParent: the end of the list that comes along is not sought.
SetParentFirst(t, n, p) ==
  LET a == Put(Put(t, "next", t.prev[n], Nil), "prev", n, Nil)
      b == Put(Put(Put(a, "parent", n, p), "last", t.parent[n], Nil), "children", t.parent[n], Nil)
      end == b.last[p]
      c == Put(Put(b, "prev", n, end), "next", end, n)
      d == Put(IF end = Nil THEN Put(c, "children", p, n) ELSE c, "last", p, n)
  IN  xmlSetListDoc(PutAll(d, "parent", Along(d, "next", n), p), n, t.doc[p])

\* parent = p: the node goes to the end of p's children, and what follows
\* it with it.  It is taken for the first of its old siblings.
SetParent(t, n, p) ==
  LET a == Put(Put(t, "next", t.prev[n], Nil), "prev", n, Nil)
      b == Put(Put(Put(a, "parent", n, p), "last", t.parent[n], Nil), "children", t.parent[n], Nil)
      end == b.last[p]
      c == Put(Put(b, "prev", n, end), "next", end, n)
      d == IF end = Nil THEN Put(c, "children", p, n) ELSE c
      e == Put(PutAll(d, "parent", Along(d, "next", n), p), "last", p, End(d, "next", n))
  IN  xmlSetListDoc(e, n, t.doc[p])
SetParentSafe(t, n, p) ==
  /\ t.parent[n] = Nil \/ t.prev[n] = Nil
  /\ p \notin Below(t, Along(t, "next", n))

\* parent = null: the node leaves; what follows it keeps its parent.
ClearParent(t, n) ==
  LET p == t.parent[n]
      a == Put(t, "last", p, t.prev[n])
      b == IF t.prev[n] = Nil THEN Put(a, "children", p, Nil) ELSE a
      c == Put(Put(Put(b, "next", t.prev[n], Nil), "prev", n, Nil), "parent", n, Nil)
  IN  IF p = Nil THEN t ELSE xmlSetListDoc(c, n, Nil)
ClearParentSafe(t, n) == t.parent[n] = Nil \/ t.next[n] = Nil

\* The list that m begins (or ends) leaves what stood before (behind) it.
SetNext(t, n, m) ==
  LET a == Put(t, "next", n, m)
      before == t.prev[m]
      b == IF before # Nil THEN Put(Put(a, "last", t.parent[before], before), "next", before, Nil)
           ELSE Put(Put(a, "children", t.parent[m], Nil), "last", t.parent[m], Nil)
      c == PutAll(Put(b, "prev", m, n), "parent", Along(b, "next", m), t.parent[n])
      d == Put(c, "last", t.parent[n], End(c, "next", m))
  IN  xmlSetListDoc(d, d.next[n], t.doc[n])
SetNextSafe(t, n, m) ==
  t.next[n] = Nil /\ n \notin Below(t, Along(t, "next", m))

SetPrev(t, n, m) ==
  LET a == Put(t, "prev", n, m)
      after == t.next[m]
      b == IF after # Nil THEN Put(Put(a, "children", t.parent[after], after), "prev", after, Nil)
           ELSE Put(Put(a, "children", t.parent[m], Nil), "last", t.parent[m], Nil)
      list == Along(b, "prev", m)
      c == PutAll(xmlSetTreeDoc(Put(b, "next", m, n), list, t.doc[n]), "parent", list, t.parent[n])
  IN  Put(c, "children", t.parent[n], End(c, "prev", m))
SetPrevSafe(t, n, m) ==
  t.prev[n] = Nil /\ n \notin Below(t, Along(t, "prev", m))

\* null: the node becomes the last (first) child; its old neighbour does
\* not hear of it.
ClearNext(t, n) == Put(Put(t, "last", t.parent[n], n), "next", n, Nil)
ClearPrev(t, n) == Put(Put(t, "children", t.parent[n], n), "prev", n, Nil)

\* firstChild: the old children become a list of their own.
ClearFirstChild(t, n) ==
  LET a == PutAll(t, "parent", Along(t, "next", t.children[n]), Nil)
  IN  [a EXCEPT !.children[n] = Nil, !.last[n] = Nil]
SetFirstChild(t, n, m) ==
  LET a == PutAll(t, "parent", Along(t, "next", t.children[n]), Nil)
      b == PutAll(Put(a, "children", n, m), "parent", Along(a, "next", m), n)
  IN  Put(b, "last", n, End(b, "next", m))
SetFirstChildSafe(t, n, m) ==
  /\ t.prev[m] = Nil /\ t.parent[m] \in {Nil, n} /\ t.doc[m] = t.doc[n]
  /\ n \notin Below(t, Along(t, "next", m))

-----------------------------------------------------------------------------
(* class node: methods; class document *)

\* Text that follows text is added to it, and its node unlinked.
purge(t, p) ==
  LET merged == {n \in Along(t, "next", t.children[p]) \cap Text : t.prev[n] \in Text}
  IN  FoldSet(LAMBDA n, u : xmlUnlinkNode(u, n), t, merged)

add_child_list(t, p, n) == purge(SetParent(t, n, p), p)
add_child(t, p, n) == add_child_list(xmlUnlinkNode(t, n), p, n)

\* The root element of d; Nil if it has none.
Root(t, d) ==
  LET elements == Along(t, "next", t.children[d]) \cap Element
      first == {n \in elements : Along(t, "prev", n) \cap elements = {n}}
  IN  IF first = {} THEN Nil ELSE CHOOSE n \in first : TRUE

-----------------------------------------------------------------------------
(* Reaching nodes *)

Closure(S, Step(_)) ==
  LET grown[i \in 0 .. Cardinality(Node)] ==
        IF i = 0 THEN S
        ELSE LET before == grown[i - 1] IN before \cup UNION {Step(n) : n \in before}
  IN  grown[Cardinality(Node)]

\* Mutant of Traces: neither what is above a node nor its document is marked.
TracedDown(n) ==
  (Along(tree, "next", tree.children[n]) \cup {tree.next[n], tree.prev[n]}) \ {Nil}

\* What node::trace marks.
Traces(n) ==
  (Along(tree, "next", tree.children[n]) \cup Along(tree, "parent", tree.parent[n])
     \cup {tree.doc[n], tree.next[n], tree.prev[n]}) \ {Nil}
MarkedNodes(S) == Closure(S, Traces)

\* What script gets from a node: parent, nextSibling, document, ...
Near(n) == {tree[p][n] : p \in Pointer} \ {Nil}
Reachable == Closure(refs, Near)

-----------------------------------------------------------------------------
TreeInit ==
  /\ tree = [p \in Pointer |-> [n \in Node |-> Nil]]
  /\ exists = {} /\ refs = {} /\ garbage = {}
  /\ careful = TRUE

\* Script's turn, and all is still in order.
Script == garbage = {} /\ careful

\* The tree with n made, in document d.
Made(n, d) == [p \in Pointer |-> [tree[p] EXCEPT ![n] = IF p = "doc" THEN d ELSE Nil]]

\* The nodes of S come to be, and script holds those of H.
Comes(S, H) ==
  /\ S \cap exists = {} /\ Cardinality(exists \cup S) <= MaxNodes
  /\ exists' = exists \cup S /\ refs' = refs \cup H
  /\ UNCHANGED <<garbage, careful>>
New(n) == Comes({n}, {n})

\* new Document()
NewDocument(d) ==
  /\ Script /\ d \in Document /\ tree' = Made(d, d) /\ New(d)

\* The document may be left out; the node is outside its tree.
Outside(n) ==
  /\ Script
  /\ \E d \in (Reachable \cap Document) \cup {Nil} : tree' = Made(n, d)
  /\ New(n)

\* new Node(doc, name) and new Text(doc, text)
NewNode(n) == n \in Element /\ Outside(n)
NewText(n) == n \in Text /\ Outside(n)

\* n.copy(deep): a list of copies, of n and, if deep, of all below it.  The
\* copy of a document is their document; else they have none.
Copied(n, S, copy) ==
  LET image == {copy[m] : m \in S}
      from(c) == CHOOSE m \in S : copy[m] = c
      at(m) == IF m \in S THEN copy[m] ELSE Nil
  IN  [p \in Pointer |-> [c \in Node |->
         IF c \notin image THEN tree[p][c]
         ELSE IF p = "doc" THEN IF n \in Document THEN copy[n] ELSE Nil
         ELSE IF from(c) = n /\ p \notin {"children", "last"} THEN Nil
         ELSE at(tree[p][from(c)])]]
Copy(n, deep) ==
  LET S == IF deep THEN Below(tree, {n}) ELSE {n}
      alike(m) == {c \in Node \ exists : \A T \in {Document, Text} : c \in T <=> m \in T}
      copies == {f \in [S -> UNION {alike(m) : m \in S}] : \A m \in S : f[m] \in alike(m)}
  IN  /\ Script
      /\ \E copy \in copies :
           /\ \A m, o \in S : copy[m] = copy[o] => m = o
           /\ tree' = Copied(n, S, copy)
           /\ Comes({copy[m] : m \in S}, {copy[n]})

\* The tree with the text x at the end of what p has.
Appending(t, p, x) ==
  LET a == Put(Put(Put(t, "parent", x, p), "prev", x, t.last[p]), "next", t.last[p], x)
      b == IF t.last[p] = Nil THEN Put(a, "children", p, x) ELSE a
  IN  Put(b, "last", p, x)

\* p.addContent(string): a last child that is a text takes it; else p gets
\* a text, whose wrapper script does not have yet.
AddText(p, x) ==
  /\ Script /\ p \in Element /\ x \in Text
  /\ tree.last[p] = Nil \/ tree.last[p] \notin Text
  /\ tree' = Appending(Made(x, tree.doc[p]), p, x)
  /\ Comes({x}, {})

\* The tree without what the nodes of S point to.
Cleared(t, S) == [p \in Pointer |-> [n \in Node |-> IF n \in S THEN Nil ELSE t[p][n]]]

\* The memory of the nodes in S is given back.
Freed(t, S) == tree' = Cleared(t, S) /\ exists' = exists \ S

\* p.content = string: what the element has is freed, with all below it,
\* though the wrappers stay; only where there is nothing to free does it
\* do as addContent.
AssignContent(p, x) ==
  \/ tree.children[p] = Nil /\ AddText(p, x)
  \/ /\ Script /\ p \in Element /\ tree.children[p] # Nil
     /\ Freed([tree EXCEPT !.children[p] = Nil, !.last[p] = Nil], Below(tree, {p}) \ {p})
     /\ careful' = FALSE
     /\ UNCHANGED <<refs, garbage>>

\* p.addNode(name)
AddNode(p, n) ==
  /\ Script /\ n \in Element \ exists
  /\ tree' = SetParent(Made(n, tree.doc[p]), n, p)
  /\ New(n)

\* A call that changes pointers only.
Call(safe, t) ==
  /\ Script
  /\ tree' = t
  /\ careful' = safe
  /\ UNCHANGED <<exists, refs, garbage>>

Unlink(n) == Call(TRUE, xmlUnlinkNode(tree, n))
Purge(p) == Call(TRUE, purge(tree, p))
AddChild(p, n) == Call(p \notin Below(tree, {n}), add_child(tree, p, n))
AddChildList(p, n) == Call(SetParentSafe(tree, n, p), add_child_list(tree, p, n))
AssignParent(n) ==
  \/ \E p \in Reachable : Call(SetParentSafe(tree, n, p), SetParent(tree, n, p))
  \/ Call(ClearParentSafe(tree, n), ClearParent(tree, n))
AssignNext(n) ==
  \/ \E m \in Reachable \ Document : Call(SetNextSafe(tree, n, m), SetNext(tree, n, m))
  \/ Call(tree.next[n] = Nil, ClearNext(tree, n))
AssignPrev(n) ==
  \/ \E m \in Reachable \ Document : Call(SetPrevSafe(tree, n, m), SetPrev(tree, n, m))
  \/ Call(tree.prev[n] = Nil, ClearPrev(tree, n))
AssignFirstChild(p) ==
  \/ \E m \in Reachable \ Document : Call(SetFirstChildSafe(tree, p, m), SetFirstChild(tree, p, m))
  \/ Call(TRUE, ClearFirstChild(tree, p))

\* rootElement of a document; null unlinks the one there is.
AssignRoot(d) ==
  \/ \E n \in Reachable \cap Element : Call(TRUE, xmlDocSetRootElement(tree, d, n))
  \/ Call(TRUE, IF Root(tree, d) = Nil THEN tree ELSE xmlUnlinkNode(tree, Root(tree, d)))

Hold(n) ==
  /\ Script /\ n \in Reachable \ refs
  /\ refs' = refs \cup {n}
  /\ UNCHANGED <<tree, exists, garbage, careful>>

DropWrapper(n) ==
  /\ Script /\ n \in refs
  /\ refs' = refs \ {n}
  /\ UNCHANGED <<tree, exists, garbage, careful>>

CollectTrees ==
  /\ Script
  /\ garbage' = exists \ MarkedNodes(refs) /\ garbage' # {}
  /\ UNCHANGED <<tree, exists, refs, careful>>

\* External: xmlFreeNode looks at the document of the node, which may have
\* been freed before: what it finds there may end the program.
LooksAtDocument(n) ==
  IF n \in exists /\ tree.doc[n] \notin exists \cup {Nil} THEN careful' \in BOOLEAN
  ELSE UNCHANGED careful

\* Mutant of FinalizeNode: the children keep their parent.
FinalizeNodeOnly(n) ==
  /\ careful /\ n \in garbage \ Document
  /\ garbage' = garbage \ {n}
  /\ IF n \in exists THEN Freed(xmlUnlinkNode(tree, n), {n}) ELSE UNCHANGED <<tree, exists>>
  /\ LooksAtDocument(n)
  /\ UNCHANGED refs

\* ~node, with nothing to do if the document has freed the node before.
FinalizeNode(n) ==
  /\ careful /\ n \in garbage \ Document
  /\ garbage' = garbage \ {n}
  /\ IF n \in exists
       THEN Freed(PutAll(xmlUnlinkNode(tree, n), "parent",
                         Along(tree, "next", tree.children[n]), Nil), {n})
       ELSE UNCHANGED <<tree, exists>>
  /\ LooksAtDocument(n)
  /\ UNCHANGED refs

\* ~document frees all that is in its tree.
FinalizeDocument(d) ==
  /\ careful /\ d \in garbage \cap Document
  /\ garbage' = garbage \ {d}
  /\ Freed(tree, Below(tree, {d}))
  /\ UNCHANGED <<refs, careful>>

TreeNext ==
  \/ \E n \in Node :
        \/ NewNode(n) \/ NewText(n) \/ NewDocument(n)
        \/ DropWrapper(n) \/ FinalizeNode(n) \/ FinalizeDocument(n)
  \/ \E p \in Reachable : Hold(p) \/ Purge(p) \/ AssignFirstChild(p)
  \/ \E p \in Reachable, n \in Node : AddNode(p, n) \/ AddText(p, n) \/ AssignContent(p, n)
  \/ \E n \in Reachable, deep \in BOOLEAN : Copy(n, deep)
  \/ \E n \in Reachable \ Document : Unlink(n) \/ AssignParent(n) \/ AssignNext(n) \/ AssignPrev(n)
  \/ \E p \in Reachable, n \in Reachable \ Document : AddChild(p, n) \/ AddChildList(p, n)
  \/ \E d \in Reachable \cap Document : AssignRoot(d)
  \/ CollectTrees

TreeSpec == TreeInit /\ [][TreeNext]_treeVars

-----------------------------------------------------------------------------
(* Properties *)

\* The state has its types.
TreeTypeOK ==
  /\ tree \in [Pointer -> [Node -> Node \cup {Nil}]]
  /\ exists \subseteq Node /\ refs \subseteq Node /\ garbage \subseteq Node
  /\ careful \in BOOLEAN

\* However lists are cut and joined, also in a collection under way, the
\* nodes form trees: neighbours agree on each other, on their parent and on
\* their document, a parent has exactly the children that name it, from its
\* first to its last, and no node is below or behind itself.
Neighbours(n) ==
  /\ tree.next[n] # Nil =>
       /\ tree.prev[tree.next[n]] = n
       /\ tree.parent[tree.next[n]] = tree.parent[n]
       /\ tree.doc[tree.next[n]] = tree.doc[n]
  /\ tree.prev[n] # Nil => tree.next[tree.prev[n]] = n
Children(n) ==
  /\ Along(tree, "next", tree.children[n]) = {m \in exists : tree.parent[m] = n}
  /\ Along(tree, "prev", tree.last[n]) = {m \in exists : tree.parent[m] = n}
  /\ \A m \in exists : tree.parent[m] = n => tree.doc[m] = tree.doc[n]
Acyclic(n) ==
  /\ n \notin Along(tree, "parent", tree.parent[n])
  /\ n \notin Along(tree, "next", tree.next[n])
WellFormed ==
  careful => \A n \in exists : Neighbours(n) /\ Children(n) /\ Acyclic(n)

\* No node that is left points to memory that was given back, in whatever
\* order the wrappers of a tree are finalized, so that destructors and later
\* calls may follow every pointer but one: a node that is about to be
\* finalized may have lost its document.
NoDangling ==
  careful =>
    \A n \in exists :
      /\ \A p \in Pointer \ {"doc"} : tree[p][n] \in exists \cup {Nil}
      /\ n \notin garbage => tree.doc[n] \in exists \cup {Nil}

\* A collection takes no node that script can still get at from one it
\* holds, by any of the properties of nodes, and what script can get at is
\* not freed otherwise.
KeepsReachable == careful => Reachable \subseteq exists \ garbage

\* As long as calls are careful, trees are in order, nothing that a node which
\* stays points to is freed, and what script can get at stays (the setters,
\* node::trace, ~node and ~document). After the content of an element with
\* children has been assigned they say nothing.
TreesSound == TreeTypeOK /\ WellFormed /\ NoDangling /\ KeepsReachable
=============================================================================
