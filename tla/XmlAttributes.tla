--------------------------- MODULE XmlAttributes ----------------------------
(***************************************************************************)
(* The XML plugin's attributes: the list that an element keeps of them,    *)
(* the methods of elements and attributes that change it, what the         *)
(* attributes contain, and the collector (attribute.cpp, node.cpp).        *)
(*                                                                         *)
(* As in XmlTree a node and its wrapper are one, and a call that the       *)
(* setters do not provide for ends what is modelled.  A name is a local    *)
(* name with its namespace; Lang is xml:lang, which only the property lang *)
(* sets.  Assigning a content frees the texts that an attribute has below  *)
(* it, though each has its wrapper: the next collection would follow that  *)
(* wrapper's pointer into freed memory, and ends what is modelled.         *)
(* External: libxml2.                                                      *)
(***************************************************************************)
EXTENDS Naturals, Sequences, FiniteSets

CONSTANTS
  Elem,    \* elements
  Attr,    \* attributes
  Names,   \* names of attributes that scripts give
  Lang,    \* the name of the attribute xml:lang
  Null,    \* the null pointer, and what an element does not have
  Words,   \* contents that scripts give, as sequences
  MaxText  \* bound: how long the content of an attribute grows

\* What contents are made of.
Letter == UNION {{t[i] : i \in DOMAIN t} : t \in Words}

ASSUME AttrAssumption ==
  /\ IsFiniteSet(Elem \cup Attr)
  /\ Elem \cap Attr = {} /\ Null \notin Elem \cup Attr
  /\ Lang \notin Names
  /\ <<>> \in Words /\ Words \subseteq Seq(Letter) /\ Null \notin Seq(Letter)
  /\ MaxText \in Nat /\ \A t \in Words : Len(t) <= MaxText

VARIABLES
  lists,   \* first[e]: e's properties; link[a]: parent, next and prev of a
  name,    \* what each attribute is called
  text,    \* and its content
  alive,   \* nodes that are not freed
  kept,    \* nodes that script holds
  doomed,  \* nodes that the collection under way has still to finalize
  stray,   \* a text below an attribute was freed while its wrapper stays
  orderly, \* all calls so far were among those provided for
  said     \* what script said that each element has: a content for a name

attrVars == <<lists, name, text, alive, kept, doomed, stray, orderly, said>>

Key == Names \cup {Lang}
Loose == [parent |-> Null, next |-> Null, prev |-> Null]

-----------------------------------------------------------------------------
(* Lists of attributes                                                     *)

\* a and what follows it.
Chain(l, a) ==
  LET seen[i \in 0 .. Cardinality(Attr)] ==
        IF i = 0 THEN {a} \ {Null}
        ELSE LET before == seen[i - 1]
             IN  before \cup ({l.link[b].next : b \in before} \ {Null})
  IN  seen[Cardinality(Attr)]

Attributes(l, e) == Chain(l, l.first[e])

\* External: xmlHasNsProp, as the set of what it may find.
Found(e, k) == {a \in Attributes(lists, e) : name[a] = k}

\* External: xmlNewNsProp, which appends the new attribute.
Appended(l, e, a) ==
  LET end == {b \in Attributes(l, e) : l.link[b].next = Null}
      last == IF end = {} THEN Null ELSE CHOOSE b \in end : TRUE
  IN  [first |-> IF last = Null THEN [l.first EXCEPT ![e] = a] ELSE l.first,
       link |-> [b \in Attr |-> IF b = a THEN [parent |-> e, next |-> Null, prev |-> last]
                                ELSE IF b = last THEN [l.link[b] EXCEPT !.next = a]
                                ELSE l.link[b]]]

\* External: xmlUnlinkNode.
Unlinked(l, a) ==
  LET was == l.link[a]
  IN  [first |-> [e \in Elem |-> IF e = was.parent /\ l.first[e] = a THEN was.next ELSE l.first[e]],
       link |-> [b \in Attr |->
                   IF b = a THEN Loose
                   ELSE [l.link[b] EXCEPT !.prev = IF b = was.next THEN was.prev ELSE @,
                                          !.next = IF b = was.prev THEN was.next ELSE @]]]

\* Mutant of Purged: nothing is done about a second attribute of the name.
PurgedNot(l, e, names) == l

\* node::purge: of two attributes of one name the first is unlinked, and
\* with it the search ends.
Purged(l, e, names) ==
  LET twice == {a \in Attributes(l, e) :
                  \E b \in Chain(l, l.link[a].next) : names[b] = names[a]}
  IN  IF twice = {} THEN l ELSE Unlinked(l, CHOOSE a \in twice : TRUE)

-----------------------------------------------------------------------------
(* What is marked, and what script comes by                                *)

Nodes == Elem \cup Attr

Spread(S, Step(_)) ==
  LET grown[i \in 0 .. Cardinality(Nodes)] ==
        IF i = 0 THEN S
        ELSE LET before == grown[i - 1]
             IN  before \cup ((UNION {Step(n) : n \in before}) \ {Null})
  IN  grown[Cardinality(Nodes)]

\* Mutant of MarkedBy: an attribute marks neither its element nor its
\* neighbours.
MarkedByNone(n) == IF n \in Elem THEN {lists.first[n]} ELSE {}

\* node::trace: an element marks its first attribute only.
MarkedBy(n) ==
  IF n \in Elem THEN {lists.first[n]}
  ELSE {lists.link[n].parent, lists.link[n].next, lists.link[n].prev}

\* firstAttribute and the search of attributes; parent, nextSibling, ...
Leads(n) ==
  IF n \in Elem THEN Attributes(lists, n)
  ELSE {lists.link[n].parent, lists.link[n].next, lists.link[n].prev}

AtHand == Spread(kept, Leads)

-----------------------------------------------------------------------------
\* Calls are made on a node that script has at hand: AttrNext says so.
AttrInit ==
  /\ lists = [first |-> [e \in Elem |-> Null], link |-> [a \in Attr |-> Loose]]
  /\ name = [a \in Attr |-> Lang] /\ text = [a \in Attr |-> <<>>]
  /\ alive = {} /\ kept = {} /\ doomed = {} /\ stray = FALSE /\ orderly = TRUE
  /\ said = [e \in Elem |-> [k \in Key |-> Null]]

Turn == doomed = {} /\ orderly

\* What script has said now that the attributes C have left their list.
Unsaid(C) ==
  [e \in Elem |-> [k \in Key |->
     IF \E a \in C \cap Attributes(lists, e) : name[a] = k THEN Null ELSE said[e][k]]]

NewElement(e) ==
  /\ Turn /\ e \notin alive
  /\ alive' = alive \cup {e} /\ kept' = kept \cup {e}
  /\ UNCHANGED <<lists, name, text, doomed, stray, orderly, said>>

\* The attribute a, called k, with the content t, comes to be.
Born(a, k, t) ==
  /\ a \in Attr \ alive
  /\ alive' = alive \cup {a}
  /\ name' = [name EXCEPT ![a] = k] /\ text' = [text EXCEPT ![a] = t]
  /\ UNCHANGED <<doomed, stray>>

\* new Attribute(name, content)
NewAttribute(a, k, t) ==
  /\ Turn /\ Born(a, k, t) /\ kept' = kept \cup {a}
  /\ UNCHANGED <<lists, orderly, said>>

\* new Attribute(e, name, content): no purge, so that e must not have the
\* name.
NewAttributeOf(e, a, k, t) ==
  /\ Turn /\ Born(a, k, t) /\ kept' = kept \cup {a}
  /\ lists' = Appended(lists, e, a)
  /\ orderly' = (Found(e, k) = {})
  /\ said' = [said EXCEPT ![e][k] = t]

AddAttribute(e, a, k, t) ==
  /\ Turn /\ Born(a, k, t)
  /\ lists' = Purged(Appended(lists, e, a), e, name')
  /\ kept' = kept \cup {a}
  /\ said' = [said EXCEPT ![e][k] = t]
  /\ UNCHANGED orderly

\* Mutant of Assigned: an empty content does not replace what there was.
AssignedMore(a, t) == [text EXCEPT ![a] = IF t = <<>> THEN @ ELSE t]

\* a.content = t: the texts that there were are freed.
Assigned(a, t) == [text EXCEPT ![a] = t]
Freeing(a) == stray' = (stray \/ text[a] # <<>>)

\* e.setAttribute(k, null, t): where e has the attribute its content is set.
SetAttribute(e, k, t) ==
  \/ Found(e, k) = {} /\ \E a \in Attr : AddAttribute(e, a, k, t)
  \/ \E a \in Found(e, k) :
       /\ Turn
       /\ text' = Assigned(a, t) /\ Freeing(a) /\ kept' = kept \cup {a}
       /\ said' = [said EXCEPT ![e][k] = t]
       /\ UNCHANGED <<lists, name, alive, doomed, orderly>>

\* e.lang = t
SetLang(e, t) ==
  /\ Turn
  /\ \/ /\ Found(e, Lang) = {}
        /\ \E a \in Attr : Born(a, Lang, t) /\ lists' = Appended(lists, e, a)
     \/ /\ \E a \in Found(e, Lang) : text' = Assigned(a, t) /\ Freeing(a)
        /\ UNCHANGED <<lists, name, alive, doomed>>
  /\ said' = [said EXCEPT ![e][Lang] = t]
  /\ UNCHANGED <<kept, orderly>>

\* The content of a becomes t, and script knows.
Write(a, t) ==
  /\ Turn
  /\ text' = t
  /\ said' = [e \in Elem |-> [k \in Key |->
                IF a \in Found(e, k) THEN t[a] ELSE said[e][k]]]
  /\ UNCHANGED <<lists, name, alive, kept, doomed, orderly>>

SetContent(a, t) == Write(a, Assigned(a, t)) /\ Freeing(a)

\* a.addContent(t): a text that add_child joins to what a ends with.
AddContent(a, t) ==
  Len(text[a]) + Len(t) <= MaxText /\ Write(a, [text EXCEPT ![a] = @ \o t]) /\ UNCHANGED stray

\* The lists become l; the attributes C are no longer in theirs.
Relist(l, C, safe) ==
  /\ Turn
  /\ lists' = l /\ said' = Unsaid(C) /\ orderly' = safe
  /\ UNCHANGED <<name, text, alive, kept, doomed, stray>>

UnsetAttribute(e, k) ==
  \E a \in Found(e, k) : Relist(Unlinked(lists, a), {a}, TRUE)

UnlinkAttribute(a) == Relist(Unlinked(lists, a), {a}, TRUE)

\* e.firstAttribute = null: the attributes keep what they point to.
ClearFirst(e) ==
  Relist([lists EXCEPT !.first[e] = Null], Attributes(lists, e), TRUE)

\* e.firstAttribute = a, which brings what follows a.
SetFirst(e, a) ==
  LET mine == \A b \in Chain(lists, a) : lists.link[b].parent = e
      single == lists.link[a] = Loose
      distinct == \A b, c \in Chain(lists, a) : name[b] = name[c] => b = c
  IN  /\ Turn
      /\ lists' = [lists EXCEPT !.first[e] = a, !.link[a].parent = e]
      /\ orderly' = (lists.link[a].prev = Null /\ (mine \/ single) /\ distinct)
      /\ said' = [said EXCEPT ![e] = [k \in Key |->
           LET named == {b \in Chain(lists, a) : name[b] = k}
           IN  IF named = {} THEN Null ELSE text[CHOOSE b \in named : TRUE]]]
      /\ UNCHANGED <<name, text, alive, kept, doomed, stray>>

\* a.parent = an element: the test of the element's type is the wrong way
\* round, so that a is cut off from what stands before it and not attached.
AssignAttrParent(a) ==
  LET before == lists.link[a].prev
      cut == [lists EXCEPT !.link = [b \in Attr |->
                IF b = before THEN [@[b] EXCEPT !.next = Null]
                ELSE IF b = a THEN [@[b] EXCEPT !.prev = Null] ELSE @[b]]]
  IN  Relist(cut, IF before = Null THEN {} ELSE Chain(lists, a), TRUE)

\* a.parent = null: only the last attribute may leave like this.
ClearAttrParent(a) ==
  LET up == lists.link[a].parent
      before == lists.link[a].prev
      left == [first |-> [e \in Elem |-> IF e = up /\ before = Null THEN Null ELSE lists.first[e]],
               link |-> [b \in Attr |->
                  IF b = before THEN [lists.link[b] EXCEPT !.next = Null]
                  ELSE IF b = a THEN [lists.link[b] EXCEPT !.prev = Null, !.parent = Null]
                  ELSE lists.link[b]]]
  IN  /\ up # Null
      /\ Relist(left, {a}, lists.link[a].next = Null /\ (before # Null \/ lists.first[up] = a))

\* a.name = k; the name must be free.
Rename(a, k) ==
  LET listed == {e \in Elem : a \in Attributes(lists, e)}
  IN  /\ Turn /\ name[a] \in Names \ {k}
      /\ name' = [name EXCEPT ![a] = k]
      /\ orderly' = (\A e \in listed : Found(e, k) = {} /\ Found(e, name[a]) = {a})
      /\ said' = [e \in Elem |->
           IF e \in listed THEN [said[e] EXCEPT ![name[a]] = Null, ![k] = text[a]] ELSE said[e]]
      /\ UNCHANGED <<lists, text, alive, kept, doomed, stray>>

-----------------------------------------------------------------------------
(* Script's variables and the collector                                    *)

KeepNode(n) ==
  /\ Turn /\ n \notin kept /\ kept' = kept \cup {n}
  /\ UNCHANGED <<lists, name, text, alive, doomed, stray, orderly, said>>

DropNode(n) ==
  /\ Turn /\ kept' = kept \ {n}
  /\ UNCHANGED <<lists, name, text, alive, doomed, stray, orderly, said>>

CollectNodes ==
  /\ Turn
  /\ doomed' = alive \ Spread(kept, MarkedBy) /\ doomed' # {}
  /\ orderly' = ~stray
  /\ UNCHANGED <<lists, name, text, alive, kept, stray, said>>

\* ~node of an element does not tell its attributes.
FinalizeElement(e) ==
  /\ e \in doomed
  /\ doomed' = doomed \ {e} /\ alive' = alive \ {e}
  /\ lists' = [lists EXCEPT !.first[e] = Null]
  /\ said' = [said EXCEPT ![e] = [k \in Key |-> Null]]
  /\ UNCHANGED <<name, text, kept, stray, orderly>>

\* ~node of an attribute looks at its element, freed or not: what it finds
\* in freed memory is left out here.
FinalizeAttribute(a) ==
  /\ a \in doomed
  /\ doomed' = doomed \ {a} /\ alive' = alive \ {a}
  /\ lists' = Unlinked(lists, a)
  /\ name' = [name EXCEPT ![a] = Lang] /\ text' = [text EXCEPT ![a] = <<>>]
  /\ said' = Unsaid({a})
  /\ UNCHANGED <<kept, stray, orderly>>

AttrNext ==
  \/ \E e \in AtHand \cap Elem :
       \/ ClearFirst(e)
       \/ \E t \in Words : SetLang(e, t)
       \/ \E k \in Key : UnsetAttribute(e, k)
       \/ \E k \in Names, t \in Words : SetAttribute(e, k, t)
       \/ \E a \in AtHand \cap Attr : SetFirst(e, a)
       \/ \E a \in Attr, k \in Names, t \in Words : AddAttribute(e, a, k, t)
  \/ \E a \in AtHand \cap Attr :
       \/ UnlinkAttribute(a) \/ ClearAttrParent(a)
       \/ AtHand \cap Elem # {} /\ AssignAttrParent(a)
       \/ \E t \in Words : SetContent(a, t) \/ AddContent(a, t)
       \/ \E k \in Names : Rename(a, k)
  \/ \E a \in Attr, k \in Names, t \in Words :
       NewAttribute(a, k, t) \/ \E e \in AtHand \cap Elem : NewAttributeOf(e, a, k, t)
  \/ \E e \in Elem : NewElement(e) \/ FinalizeElement(e)
  \/ \E a \in Attr : FinalizeAttribute(a)
  \/ \E n \in AtHand : KeepNode(n)
  \/ \E n \in kept : DropNode(n)
  \/ CollectNodes

AttrSpec == AttrInit /\ [][AttrNext]_attrVars

-----------------------------------------------------------------------------
(* Properties                                                              *)

AttrTypeOK ==
  /\ lists \in [first : [Elem -> Attr \cup {Null}],
                link : [Attr -> [parent : Elem \cup {Null},
                                 next : Attr \cup {Null}, prev : Attr \cup {Null}]]]
  /\ name \in [Attr -> Key]
  /\ \A a \in Attr : Len(text[a]) <= MaxText
  /\ doomed \subseteq alive /\ kept \subseteq alive /\ alive \subseteq Nodes
  /\ kept \cap doomed = {}
  /\ stray \in BOOLEAN /\ orderly \in BOOLEAN

\* The attributes of an element form a list in both directions, which ends,
\* and each knows its element.
Threaded ==
  orderly => \A e \in Elem : \A a \in Attributes(lists, e) :
    /\ lists.link[a].parent = e
    /\ IF lists.first[e] = a THEN lists.link[a].prev = Null
       ELSE lists.link[a].prev \in Attributes(lists, e) /\ lists.link[lists.link[a].prev].next = a
    /\ a \notin Chain(lists, lists.link[a].next)

\* No pointer of an element or attribute that stays leads to one that is
\* freed, and none of an attribute to a freed neighbour. (The texts below
\* attributes are not spoken of.)
Standing ==
  orderly =>
    /\ AtHand \subseteq alive
    /\ \A a \in alive \cap Attr : {lists.link[a].next, lists.link[a].prev} \subseteq alive \cup {Null}
    /\ \A e \in alive \cap Elem : lists.first[e] \in alive \cup {Null}
    /\ \A a \in (alive \cap Attr) \ doomed : lists.link[a].parent \in alive \cup {Null}

\* An element has one attribute of each name that script gave it and has not
\* taken away again, with the content that script gave it last.
HasWhatWasSet ==
  orderly => \A e \in alive \ doomed : e \in Elem => \A k \in Key :
    IF said[e][k] = Null THEN Found(e, k) = {}
    ELSE \E a \in Attr : Found(e, k) = {a} /\ text[a] = said[e][k]

\* All of the above, as long as calls are orderly: the lists of attributes are
\* in order whatever methods and setters changed them, and no element or
\* attribute is freed that another of them or script still leads to
\* (node::purge, node::trace, ~node). After a content has been assigned where
\* there was one, they say nothing from the next collection on.
AttributesSound == AttrTypeOK /\ Threaded /\ Standing /\ HasWhatWasSet
=============================================================================
