----------------------------- MODULE Arguments -----------------------------
(***************************************************************************)
(* What a C++ function that script has called may do with values: class    *)
(* value, which holds a value of its own or is bound to a slot somewhere   *)
(* else, root_value, which tells the engine of the slot, and class         *)
(* arguments, a view of the engine's slots or a vector of its own.         *)
(*                                                                         *)
(* A slot is a place in memory: an argument of the call or its result      *)
(* (index 0), the member of a C++ variable, an element of the vector of a  *)
(* list, the member of a root that a list keeps.  The program may write    *)
(* what it likes with the classes, except that it does not use a value     *)
(* whose slot is gone or that has been collected, and makes no root from a *)
(* value that is bound to a list's vector.                                 *)
(***************************************************************************)
EXTENDS Integers, Sequences, FiniteSets

CONSTANTS
  Cell,     \* what the collector manages: strings, objects
  Variable, \* C++ variables of type value or root_value
  List,     \* C++ variables of type arguments
  Root,     \* roots that lists keep
  TheCall,  \* the list that call_helper makes: x.arg
  Void,     \* undefined
  None,     \* a variable or root that does not exist
  MaxItems, \* bound: items of a list
  MaxSteps  \* bound: steps of one call

ASSUME CallAssumption == TheCall \in List
ASSUME ListBoundsAssumption == MaxItems \in Nat \ {0} /\ MaxSteps \in Nat

VARIABLES
  frame,  \* the engine's slots: result and arguments; None between calls
  values, \* the variables: member val, slot ref, whether it is a root_value
  lists,  \* the lists: vector, n, argv (whose vector, or "frame"), roots
  kept,   \* the roots of lists: val, ref
  rooted, \* external: the addresses the engine has been told of
  cells,  \* cells that exist or existed
  alive,  \* cells that have not been collected
  steps   \* how many steps the call has made

argVars == <<frame, values, lists, kept, rooted, cells, alive, steps>>

Things == Cell \cup {Void}
Frame(i) == <<"frame", i>>
OwnSlot(v) == <<"own", v>>
Element(l, i) == <<"vector", l, i>>
Member(k) == <<"kept", k>>
Lost == <<"lost">>

\* The slots there may be.
Place ==
  {Frame(i) : i \in {0, 1}} \cup {OwnSlot(v) : v \in Variable} \cup {Member(k) : k \in Root}
    \cup {Element(l, i) : l \in List, i \in 1 .. MaxItems} \cup {Lost}

\* Markers are told apart from what they stand beside.
ASSUME MarkerAssumption ==
  /\ {"null", "frame", "lost"} \cap List = {}
  /\ None \notin [val : Things, ref : Place, root : BOOLEAN] \cup [val : Things, ref : Place]
  /\ None \notin [{0} -> Things] \cup [{0, 1} -> Things]

NoValue == None
NoList == [vector |-> <<>>, n |-> 0, argv |-> "null", roots |-> {}, guarded |-> TRUE, exists |-> FALSE]
Empty == [NoList EXCEPT !.exists = TRUE]
Declared == {v \in Variable : values[v] # None}
Made == {l \in List : lists[l].exists}
Size(l) == lists[l].n

-----------------------------------------------------------------------------
(* Slots *)

Read(slot) ==
  CASE slot[1] = "frame" -> frame[slot[2]]
    [] slot[1] = "own" -> values[slot[2]].val
    [] slot[1] = "vector" -> lists[slot[2]].vector[slot[3]]
    [] slot[1] = "kept" -> kept[slot[2]].val

\* What the program may use.
Usable(v) == v \in Declared /\ values[v].ref # Lost /\ Read(values[v].ref) \in alive \cup {Void}

\* operator=: what a value is bound to is written.  A root that is bound to
\* the slot guards the new value instead of the old one.
Write(slot, x) ==
  LET guards(l) == {k \in lists[l].roots : kept[k].ref = slot}
      mine(l) == slot[1] = "vector" /\ slot[2] = l
  IN  /\ frame' = IF slot[1] = "frame" THEN [frame EXCEPT ![slot[2]] = x] ELSE frame
      /\ values' = IF slot[1] = "own" THEN [values EXCEPT ![slot[2]].val = x] ELSE values
      /\ lists' = [l \in List |->
           [lists[l] EXCEPT
             !.vector = IF mine(l) THEN [@ EXCEPT ![slot[3]] = x] ELSE @,
             !.guarded = @ /\ guards(l) = {} /\ ~mine(l)]]

\* Where the elements of the list are.
Slot(l, i) ==
  CASE lists[l].argv = "frame" -> Frame(i)
    [] lists[l].argv \in List -> Element(lists[l].argv, i)
    [] OTHER -> Lost

\* is_userprovided: also true of a list of the engine that is empty.
Userprovided(l) == Len(lists[l].vector) = lists[l].n

-----------------------------------------------------------------------------
(* Values *)

\* Mutant of Copied: the copy is bound to what the original is bound to.
CopiedBound(self, slot, owner) == [val |-> Void, ref |-> slot]

\* The copy constructor: the copy of a value that holds its own holds its
\* own, the copy of a bound one is bound to the same slot.  "self" is the
\* address of the copy's member.
Copied(self, slot, owner) ==
  IF slot = owner THEN [val |-> Read(slot), ref |-> self] ELSE [val |-> Void, ref |-> slot]

Copy(v, w) ==
  /\ values[v] = None /\ Usable(w)
  /\ LET c == Copied(OwnSlot(v), values[w].ref, OwnSlot(w))
     IN  values' = [values EXCEPT ![v] = [val |-> c.val, ref |-> c.ref, root |-> FALSE]]
  /\ UNCHANGED <<frame, lists, kept, rooted, cells, alive>>

\* root_value(v): the copy, and the engine is told of the slot it is bound
\* to.  The engine keeps a set of addresses.
RootOf(v, w) ==
  /\ values[v] = None /\ Usable(w) /\ values[w].ref[1] \in {"frame", "own"}
  /\ LET c == Copied(OwnSlot(v), values[w].ref, OwnSlot(w))
     IN  /\ values' = [values EXCEPT ![v] = [val |-> c.val, ref |-> c.ref, root |-> TRUE]]
         /\ rooted' = rooted \cup {c.ref}
  /\ UNCHANGED <<frame, lists, kept, cells, alive>>

\* A value is made from something new.
Fresh(v, c) ==
  /\ values[v] = None /\ c \notin cells
  /\ values' = [values EXCEPT ![v] = [val |-> c, ref |-> OwnSlot(v), root |-> FALSE]]
  /\ cells' = cells \cup {c} /\ alive' = alive \cup {c}
  /\ UNCHANGED <<frame, lists, kept, rooted>>

\* A new variable is bound to a slot, or holds undefined.
Bound(v, slot) ==
  /\ values[v] = None
  /\ values' = [values EXCEPT ![v] = [val |-> Void, ref |-> slot, root |-> FALSE]]
  /\ UNCHANGED <<frame, lists, kept, rooted, cells, alive>>

\* operator[]: behind the end a value of its own.
At(v, l, i) == l \in Made /\ Bound(v, IF i <= Size(l) THEN Slot(l, i) ELSE OwnSlot(v))

FrontOrBack(v, l) ==
  /\ l \in Made
  /\ \E i \in {1, Size(l)} : Bound(v, IF Size(l) = 0 THEN OwnSlot(v) ELSE Slot(l, i))

\* What an iterator on its way from begin to end yields.
Deref(v, l) == l \in Made /\ \E i \in 1 .. Size(l) : Bound(v, Slot(l, i))

Assign(v, w) ==
  /\ v \in Declared /\ values[v].ref # Lost /\ Usable(w)
  /\ Write(values[v].ref, Read(values[w].ref))
  /\ UNCHANGED <<kept, rooted, cells, alive>>

\* unbind: what it was bound to is not kept.
Unbind(v) ==
  /\ v \in Declared /\ ~values[v].root
  /\ values' = [values EXCEPT ![v].val = Void, ![v].ref = OwnSlot(v)]
  /\ UNCHANGED <<frame, lists, kept, rooted, cells, alive>>

\* The end of a variable; ~root.
Forget(v) ==
  /\ v \in Declared
  /\ values' = [w \in Variable |->
       IF w = v THEN None
       ELSE IF w \in Declared /\ values[w].ref = OwnSlot(v) THEN [values[w] EXCEPT !.ref = Lost] ELSE values[w]]
  /\ rooted' = IF values[v].root THEN rooted \ {values[v].ref} ELSE rooted
  /\ UNCHANGED <<frame, lists, kept, cells, alive>>

-----------------------------------------------------------------------------
(* Lists *)

\* The vector of l is replaced, elsewhere in memory if it moves: what is
\* bound to an element that is not in its place any more is lost.
Unplaced(l, size, moves) ==
  [v \in Variable |->
     IF values[v] # None /\ values[v].ref[1] = "vector"
          /\ values[v].ref[2] = l /\ (moves \/ values[v].ref[3] > size)
     THEN [values[v] EXCEPT !.ref = Lost] ELSE values[v]]

\* The lists, after l has become the list n in a way that moves its vector.
Become(l, n, moves) ==
  [m \in List |->
     IF m = l THEN n
     ELSE IF lists[m].argv = l /\ moves THEN [lists[m] EXCEPT !.argv = "lost"] ELSE lists[m]]

\* The roots that no list shares any more are destroyed.
Released(ls) ==
  LET gone == {k \in Root : kept[k] # None /\ \A l \in List : k \notin ls[l].roots}
  IN  /\ kept' = [k \in Root |-> IF k \in gone THEN None ELSE kept[k]]
      /\ rooted' = rooted \ {kept[k].ref : k \in gone}

\* The vector of an empty list has no memory.
Moves(l) == IF lists[l].vector = <<>> THEN {TRUE} ELSE BOOLEAN

\* push_back: a list of the engine's cannot grow.
PushBack(l, v) ==
  /\ l \in Made /\ Usable(v)
  /\ Userprovided(l) /\ Size(l) < MaxItems
  /\ LET x == Append(lists[l].vector, Read(values[v].ref))
         n == [lists[l] EXCEPT !.vector = x, !.n = Len(x), !.argv = l, !.guarded = FALSE]
     IN  \E moves \in Moves(l) :
           /\ lists' = Become(l, n, moves)
           /\ values' = Unplaced(l, Len(x), moves)
  /\ UNCHANGED <<frame, kept, rooted, cells, alive>>

\* Mutant of PushRoot: the root is gone when push_root returns.
PushRootNot(l, v, k) ==
  /\ l \in Made /\ Usable(v) /\ values[v].ref[1] \in {"frame", "own"}
  /\ kept[k] = None
  /\ Userprovided(l) /\ Size(l) < MaxItems
  /\ LET x == Append(lists[l].vector, Read(values[v].ref))
         n == [lists[l] EXCEPT !.vector = x, !.n = Len(x), !.argv = l]
     IN  \E moves \in Moves(l) :
           /\ lists' = Become(l, n, moves)
           /\ values' = Unplaced(l, Len(x), moves)
  /\ UNCHANGED <<frame, kept, rooted, cells, alive>>

\* push_root: the root is a root_value made from the argument, bound as that
\* is; the list that keeps it shares it with its copies.
PushRoot(l, v, k) ==
  /\ l \in Made /\ Usable(v) /\ values[v].ref[1] \in {"frame", "own"}
  /\ kept[k] = None
  /\ Userprovided(l) /\ Size(l) < MaxItems
  /\ LET c == Copied(Member(k), values[v].ref, OwnSlot(v))
         x == Append(lists[l].vector, Read(values[v].ref))
         n == [lists[l] EXCEPT !.vector = x, !.n = Len(x), !.argv = l, !.roots = @ \cup {k}]
     IN  /\ kept' = [kept EXCEPT ![k] = [val |-> c.val, ref |-> c.ref]]
         /\ rooted' = rooted \cup {c.ref}
         /\ \E moves \in Moves(l) :
              /\ lists' = Become(l, n, moves)
              /\ values' = Unplaced(l, Len(x), moves)
  /\ UNCHANGED <<frame, cells, alive>>

\* push_back and push_root throw.
PushRefused(l) ==
  /\ l \in Made /\ ~Userprovided(l)
  /\ UNCHANGED <<frame, values, lists, kept, rooted, cells, alive>>

MakeList(l) ==
  /\ l \notin Made
  /\ lists' = [lists EXCEPT ![l] = Empty]
  /\ UNCHANGED <<frame, values, kept, rooted, cells, alive>>

\* From a vector of values.
MakeListOf(l, vs) ==
  /\ l \notin Made /\ \A i \in DOMAIN vs : Usable(vs[i])
  /\ lists' = [lists EXCEPT ![l] =
       [Empty EXCEPT !.vector = [i \in DOMAIN vs |-> Read(values[vs[i]].ref)],
                     !.n = Len(vs), !.argv = l, !.guarded = FALSE]]
  /\ UNCHANGED <<frame, values, kept, rooted, cells, alive>>

\* Mutant of ListCopied: the pointer is copied as it is.
ListCopiedPlain(l, m) == lists[m]

\* The copy constructor: the copy of a list of the program's own points to
\* its own elements; that of the engine's to the engine's.
ListCopied(l, m) ==
  [lists[m] EXCEPT !.argv = IF Userprovided(m) THEN l ELSE @]

CopyList(l, m) ==
  /\ l \notin Made /\ m \in Made
  /\ lists' = [lists EXCEPT ![l] = ListCopied(l, m)]
  /\ UNCHANGED <<frame, values, kept, rooted, cells, alive>>

\* operator=: of a list of the engine's only the pointer, and no vector is
\* left; the roots are those of m.
AssignList(l, m) ==
  /\ l # m /\ {l, m} \subseteq Made
  /\ LET n == IF Userprovided(m) THEN [lists[m] EXCEPT !.argv = l]
              ELSE [lists[m] EXCEPT !.vector = <<>>]
     IN  \E moves \in Moves(l) :
           /\ lists' = Become(l, n, moves)
           /\ values' = Unplaced(l, Len(n.vector), moves)
           /\ Released(lists')
  /\ UNCHANGED <<frame, cells, alive>>

ForgetList(l) ==
  /\ l \in Made \ {TheCall}
  /\ lists' = Become(l, NoList, TRUE)
  /\ values' = Unplaced(l, 0, TRUE)
  /\ Released(lists')
  /\ UNCHANGED <<frame, cells, alive>>

-----------------------------------------------------------------------------
ArgInit ==
  /\ frame = None
  /\ values = [v \in Variable |-> None]
  /\ lists = [l \in List |-> NoList]
  /\ kept = [k \in Root |-> None]
  /\ rooted = {} /\ cells = {} /\ alive = {} /\ steps = 0

\* call_helper: the engine's slots, x.arg over them, and a variable,
\* x.result, bound to the slot of the result.
EnterFunction(args, result) ==
  /\ frame = None
  /\ LET n == Len(args)
     IN  /\ frame' = [i \in 0 .. n |-> IF i = 0 THEN Void ELSE args[i]]
         /\ lists' = [lists EXCEPT ![TheCall] = [Empty EXCEPT !.n = n, !.argv = "frame"]]
         /\ values' = [values EXCEPT ![result] = [val |-> Void, ref |-> Frame(0), root |-> FALSE]]
         /\ cells' = {args[i] : i \in 1 .. n} \ {Void} /\ alive' = cells'
  /\ steps' = 0
  /\ UNCHANGED <<kept, rooted>>

\* The function returns or throws: everything it has made is gone.
LeaveFunction ==
  /\ frame # None
  /\ frame' = None
  /\ values' = [v \in Variable |-> None]
  /\ lists' = [l \in List |-> NoList]
  /\ kept' = [k \in Root |-> None]
  /\ rooted' = rooted \ ({values[v].ref : v \in {w \in Declared : values[w].root}}
                          \cup {kept[k].ref : k \in {j \in Root : kept[j] # None}})
  /\ cells' = {} /\ alive' = {} /\ steps' = 0

\* External: what the collector finds, in the slots of the call and at the
\* addresses it has been told of.
Marked == {frame[i] : i \in DOMAIN frame} \cup {Read(s) : s \in rooted \ {Lost}}

GcValues ==
  /\ frame # None
  /\ alive' = alive \cap Marked
  /\ UNCHANGED <<frame, values, lists, kept, rooted, cells>>

ValueStep ==
  \E v \in Variable :
    \/ \E w \in Variable : Copy(v, w) \/ RootOf(v, w) \/ Assign(v, w)
    \/ \E c \in Cell : Fresh(v, c)
    \/ \E l \in List : FrontOrBack(v, l) \/ Deref(v, l) \/ \E i \in 1 .. MaxItems : At(v, l, i)
    \/ Unbind(v) \/ Forget(v)

ListStep ==
  \E l \in List :
    \/ \E v \in Variable : PushBack(l, v) \/ MakeListOf(l, <<v>>)
    \/ \E v \in Variable, k \in Root : PushRoot(l, v, k)
    \/ PushRefused(l) \/ MakeList(l) \/ ForgetList(l)
    \/ \E m \in List : CopyList(l, m) \/ AssignList(l, m)

ArgNext ==
  \/ \E result \in Variable, args \in {<<>>} \cup {<<c>> : c \in Cell} : EnterFunction(args, result)
  \/ frame # None /\ steps < MaxSteps /\ steps' = steps + 1 /\ (ValueStep \/ ListStep \/ GcValues)
  \/ LeaveFunction

ArgSpec == ArgInit /\ [][ArgNext]_argVars

-----------------------------------------------------------------------------
(* Properties *)

ArgTypeOK ==
  /\ \A v \in Declared : values[v].val \in Things /\ values[v].root \in BOOLEAN
  /\ \A l \in List : Len(lists[l].vector) <= MaxItems /\ lists[l].roots \subseteq Root
  /\ cells \subseteq Cell /\ alive \subseteq cells

\* A list reads and writes its own elements, all of them, or the engine's,
\* all of them; no list ever points into another one, whatever has been
\* copied, assigned and pushed (arguments.cpp:43-67).
OwnElements ==
  \A l \in Made :
    \/ lists[l].argv = l /\ lists[l].n = Len(lists[l].vector)
    \/ lists[l].argv = "frame" /\ lists[l].vector = <<>> /\ lists[l].n = Cardinality(DOMAIN frame) - 1
    \/ lists[l] = [Empty EXCEPT !.guarded = lists[l].guarded]

\* No root, of a variable or of a list, guards a slot that is gone, and what
\* the roots refer to is alive, also when two of them guard one slot and one
\* of them ends (root.cpp:40-59).
RootsStand ==
  /\ \A s \in rooted : s[1] # "own" \/ values[s[2]] # None
  /\ \A v \in Declared : values[v].root =>
       values[v].ref # Lost /\ Read(values[v].ref) \in alive \cup {Void}
  /\ \A k \in Root : kept[k] # None => Read(kept[k].ref) \in alive \cup {Void}

\* Everything in a list that was put there by push_root, and is not
\* overwritten, is alive as long as the list or a copy of it is.
ItemsAlive ==
  \A l \in Made : lists[l].guarded /\ lists[l].argv # "frame" =>
    \A i \in DOMAIN lists[l].vector : lists[l].vector[i] \in alive \cup {Void}

\* All of the above: values, roots and lists of arguments may be copied,
\* assigned and given up in any order (value, root_value, arguments).
ArgumentsSound == ArgTypeOK /\ OwnElements /\ RootsStand /\ ItemsAlive
=============================================================================
