------------------------------ MODULE Objects ------------------------------
(***************************************************************************)
(* One object as class object shows it: its properties and their           *)
(* attributes, Object.defineProperty, which reads a descriptor whose       *)
(* getters may themselves change the object, sealing, and the iterators    *)
(* over its properties, whose copies share what the engine keeps of them.  *)
(***************************************************************************)
EXTENDS Integers, Sequences, SequencesExt, FiniteSets

CONSTANTS
    Names,        \* the names of properties
    Descriptors,  \* the descriptors given to defineProperty
    Iterators,    \* the variables that hold a property_iterator
    MaxDefining,     \* bound: definitions within definitions
    MaxWalks,     \* bound: iterations over the object
    NoProp        \* the value of props for a name that is no property

ASSUME BoundsAssumption == {MaxDefining, MaxWalks} \subseteq Nat

\* What is read of a descriptor: of its flags whether they are there and
\* true, of its accessors whether they are functions, whether there is a
\* value; and whether reading it runs script.
Descriptor ==
    LET flag == {"none", "yes", "no"}
        accessor == {"none", "function", "bad"}
    IN [enumerable : flag, configurable : flag, writable : flag,
        getter : accessor, setter : accessor, value : BOOLEAN, live : BOOLEAN]

\* A property: its attributes, whether it has accessors, and its value.
Property ==
    [attrs : SUBSET {"ENUMERATE", "READONLY", "PERMANENT"},
     get : BOOLEAN, set : BOOLEAN, val : {"v", "w", "undefined"}]

ASSUME PropertyAssumption == Descriptors \subseteq Descriptor /\ NoProp \notin Property

VARIABLES
    props,      \* a name's property, or NoProp
    order,      \* the names of the properties, the newest first
    sealed,
    defining,   \* the calls of defineProperty under way, the innermost first
    iters,      \* an iterator: [walk, id], or <<>> for the end
    walks,      \* the engine's iterators: what is left, what was visited
    failed      \* whether the last step ended with an exception

propVars == <<props, order, sealed, defining, iters, walks, failed>>

object == <<props, order, sealed>>
iteration == <<iters, walks>>

Flags == {"dont_enumerate", "read_only_property", "permanent_property"}

(***************************************************************************)
(* The engine's attributes and the flags of property_attributes. Those of  *)
(* an accessor are get and set; shared properties are no concern here.     *)
(***************************************************************************)
Attributes(flags) ==
    (IF "dont_enumerate" \in flags THEN {} ELSE {"ENUMERATE"})
    \cup (IF "read_only_property" \in flags THEN {"READONLY"} ELSE {})
    \cup (IF "permanent_property" \in flags THEN {"PERMANENT"} ELSE {})

get_property_attributes(p) ==
    (IF "ENUMERATE" \in p.attrs THEN {} ELSE {"dont_enumerate"})
    \cup (IF "READONLY" \in p.attrs THEN {"read_only_property"} ELSE {})
    \cup (IF "PERMANENT" \in p.attrs THEN {"permanent_property"} ELSE {})

Has(n) == props[n] # NoProp
Permanent(n) == Has(n) /\ "PERMANENT" \in props[n].attrs
Accessor(n) == Has(n) /\ (props[n].get \/ props[n].set)
Enumerable(n) == Has(n) /\ "ENUMERATE" \in props[n].attrs

PropInit ==
    /\ props = [n \in Names |-> NoProp] /\ order = <<>> /\ sealed = FALSE
    /\ defining = <<>>
    /\ iters = [i \in Iterators |-> <<>>] /\ walks = <<>>
    /\ failed = FALSE

(***************************************************************************)
(* Script runs between the calls, and in the getters of the descriptor     *)
(* that the innermost defineProperty is reading.                           *)
(***************************************************************************)
ScriptRuns == defining # <<>> => defining[1].desc.live

(***************************************************************************)
(* What the engine makes of a walk when property n goes or is replaced: it *)
(* may or may not come to it.                                              *)
(***************************************************************************)
Disturbed(n) == [w \in DOMAIN walks |-> 
                   [walks[w] EXCEPT !.unsure = @ \cup ({n} \cap ToSet(walks[w].left))]]

Put(n, p) ==
    /\ props' = [props EXCEPT ![n] = p]
    /\ order' = IF Has(n) THEN order ELSE <<n>> \o order
    /\ walks' = Disturbed(n)

Throws == failed' = TRUE /\ UNCHANGED <<object, iteration>>

-----------------------------------------------------------------------------
(***************************************************************************)
(* set_property: a setter is called, what is read-only is left silently.   *)
(***************************************************************************)
set_property(n, v) ==
    /\ ScriptRuns
    /\ IF sealed THEN Throws
       ELSE /\ failed' = FALSE /\ UNCHANGED <<sealed, iters>>
            /\ IF ~Has(n) THEN Put(n, [attrs |-> {"ENUMERATE"}, get |-> FALSE, set |-> FALSE, val |-> v])
               ELSE IF "READONLY" \in props[n].attrs \/ Accessor(n)
               THEN UNCHANGED <<props, order, walks>>
               ELSE props' = [props EXCEPT ![n].val = v] /\ UNCHANGED <<order, walks>>
    /\ UNCHANGED defining

delete_property(n) ==
    /\ ScriptRuns
    /\ IF sealed THEN Throws
       ELSE /\ failed' = FALSE /\ UNCHANGED <<sealed, iters>>
            /\ IF Permanent(n) \/ ~Has(n) THEN UNCHANGED <<props, order, walks>>
               ELSE /\ props' = [props EXCEPT ![n] = NoProp]
                    /\ \E k \in DOMAIN order : order[k] = n /\ order' = RemoveAt(order, k)
                    /\ walks' = Disturbed(n)
    /\ UNCHANGED defining

(***************************************************************************)
(* define_property of C++, which asks no one, as class methods and native  *)
(* objects use it.                                                         *)
(***************************************************************************)
Define(n, p) ==
    IF sealed THEN Throws
    ELSE failed' = FALSE /\ Put(n, p) /\ UNCHANGED <<sealed, iters>>

define_property(n, flags) ==
    /\ defining = <<>>
    /\ Define(n, [attrs |-> Attributes(flags), get |-> FALSE, set |-> FALSE, val |-> "v"])
    /\ UNCHANGED defining

seal ==
    /\ ScriptRuns
    /\ sealed' = TRUE /\ failed' = FALSE
    /\ UNCHANGED <<props, order, defining, iteration>>

-----------------------------------------------------------------------------
(***************************************************************************)
(* ecma_define_own_property. It begins with what the property is at that   *)
(* time; then it reads the descriptor. Bound: script runs there only while *)
(* nothing is iterated.                                                    *)
(***************************************************************************)
MayBegin(desc) == ScriptRuns /\ Len(defining) < MaxDefining /\ (desc.live => walks = <<>>)

\* Mutant of DefineBegin: a permanent property is not refused.
DefineBeginUnasked(n, desc) ==
    /\ MayBegin(desc)
    /\ defining' = <<[name |-> n, desc |-> desc,
                      flags |-> IF Has(n) THEN get_property_attributes(props[n]) ELSE {"dont_enumerate"},
                      current |-> Has(n)]>> \o defining
    /\ failed' = FALSE /\ UNCHANGED <<object, iteration>>

DefineBegin(n, desc) ==
    /\ MayBegin(desc)
    /\ IF Permanent(n) THEN Throws /\ UNCHANGED defining
       ELSE /\ defining' = <<[name |-> n, desc |-> desc,
                              flags |-> IF Has(n) THEN get_property_attributes(props[n])
                                        ELSE {"dont_enumerate"},
                              current |-> Has(n)]>> \o defining
            /\ failed' = FALSE /\ UNCHANGED <<object, iteration>>

(***************************************************************************)
(* Enumerable stays as it was unless the descriptor says otherwise; not to *)
(* say configurable or writable is to say no, but for a setter.            *)
(***************************************************************************)
NewFlags(flags, desc) ==
    (IF desc.enumerable = "none" THEN flags \cap {"dont_enumerate"}
     ELSE IF desc.enumerable = "no" THEN {"dont_enumerate"} ELSE {})
    \cup (IF desc.configurable = "yes" THEN {} ELSE {"permanent_property"})
    \cup (IF desc.writable = "yes" \/ desc.setter = "function" THEN {} ELSE {"read_only_property"})

IsAccessor(desc) == "function" \in {desc.getter, desc.setter}
IsData(desc) == desc.writable # "none" \/ desc.value

Rejected(desc) == "bad" \in {desc.getter, desc.setter} \/ (IsAccessor(desc) /\ IsData(desc))

NewProp(d) ==
    [attrs |-> Attributes(NewFlags(d.flags, d.desc)),
     get |-> d.desc.getter = "function", set |-> d.desc.setter = "function",
     val |-> IF d.desc.value THEN "w"
             ELSE IF d.current /\ ~IsAccessor(d.desc) /\ Has(d.name) /\ ~Accessor(d.name)
             THEN props[d.name].val
             ELSE "undefined"]

\* Mutant of DefineEnd: the property is set before the descriptor is checked.
DefineEndFirst ==
    /\ defining # <<>>
    /\ failed' = Rejected(defining[1].desc)
    /\ Put(defining[1].name, NewProp(defining[1])) /\ UNCHANGED <<sealed, iters>>
    /\ defining' = Tail(defining)

DefineEnd ==
    /\ defining # <<>>
    /\ IF Rejected(defining[1].desc) THEN Throws
       ELSE Define(defining[1].name, NewProp(defining[1]))
    /\ defining' = Tail(defining)

(***************************************************************************)
(* A getter of the descriptor throws.                                      *)
(***************************************************************************)
DefineThrows ==
    /\ defining # <<>> /\ defining[1].desc.live
    /\ Throws
    /\ defining' = Tail(defining)

-----------------------------------------------------------------------------
\* Mutant of Step: what has been visited is not taken off the walk.
StepAgain(i, w, ws) ==
    LET walk == ws[w]
        left == walk.left
        unsure(k) == left[k] \in walk.unsure
        surely(k) == Enumerable(left[k]) /\ ~unsure(k)
    IN \/ \E k \in 1 .. Len(left) :
            /\ surely(k) \/ unsure(k)
            /\ \A j \in 1 .. k - 1 : ~surely(j)
            /\ walks' = [ws EXCEPT ![w] = [walk EXCEPT !.left = SubSeq(left, k, Len(left)),
                                                      !.visited = Append(walk.visited, left[k])]]
            /\ iters' = [iters EXCEPT ![i] = <<[walk |-> w, id |-> left[k]]>>]
       \/ /\ \A j \in 1 .. Len(left) : ~surely(j)
          /\ walks' = [ws EXCEPT ![w] = [walk EXCEPT !.left = <<>>, !.ended = TRUE]]
          /\ iters' = [iters EXCEPT ![i] = <<>>]

(***************************************************************************)
(* property_iterator. The engine's iterator, a walk, goes through what are *)
(* properties when it is made, and gives those that are enumerable and     *)
(* still there. increment of the iterator i, which has walk w of the walks *)
(* ws: the next property is the k-th of what is left. At the end i becomes *)
(* the end, and no copy of it does. Bound: iterators stand still during    *)
(* defineProperty.                                                         *)
(***************************************************************************)
Step(i, w, ws) ==
    LET walk == ws[w]
        left == walk.left
        unsure(k) == left[k] \in walk.unsure
        surely(k) == Enumerable(left[k]) /\ ~unsure(k)
    IN \/ \E k \in 1 .. Len(left) :
            /\ surely(k) \/ unsure(k)
            /\ \A j \in 1 .. k - 1 : ~surely(j)
            /\ walks' = [ws EXCEPT ![w] = [walk EXCEPT !.left = SubSeq(left, k + 1, Len(left)),
                                                      !.visited = Append(walk.visited, left[k])]]
            /\ iters' = [iters EXCEPT ![i] = <<[walk |-> w, id |-> left[k]]>>]
       \/ /\ \A j \in 1 .. Len(left) : ~surely(j)
          /\ walks' = [ws EXCEPT ![w] = [walk EXCEPT !.left = <<>>, !.ended = TRUE]]
          /\ iters' = [iters EXCEPT ![i] = <<>>]

begin(i) ==
    /\ defining = <<>> /\ Len(walks) < MaxWalks
    /\ Step(i, Len(walks) + 1,
            Append(walks, [left |-> order, visited |-> <<>>, unsure |-> {}, ended |-> FALSE,
                           first |-> {n \in Names : Enumerable(n)}]))
    /\ failed' = FALSE
    /\ UNCHANGED <<object, defining>>

increment(i) ==
    /\ defining = <<>> /\ iters[i] # <<>>
    /\ Step(i, iters[i][1].walk, walks)
    /\ failed' = FALSE
    /\ UNCHANGED <<object, defining>>

(***************************************************************************)
(* The engine's iterator is collected when no iterator has it.             *)
(***************************************************************************)
Collect ==
    /\ walks # <<>> /\ \A i \in Iterators : iters[i] = <<>>
    /\ walks' = <<>> /\ failed' = FALSE
    /\ UNCHANGED <<object, defining, iters>>

copy(i, j) ==
    /\ defining = <<>> /\ i # j
    /\ iters' = [iters EXCEPT ![j] = iters[i]]
    /\ failed' = FALSE
    /\ UNCHANGED <<object, walks, defining>>
-----------------------------------------------------------------------------
PropNext ==
    \/ \E n \in Names :
         \/ set_property(n, "v")
         \/ delete_property(n)
         \/ define_property(n, {"dont_enumerate"})
         \/ define_property(n, {"permanent_property", "read_only_property"})
         \/ \E desc \in Descriptors : DefineBegin(n, desc)
    \/ DefineEnd
    \/ DefineThrows
    \/ Collect
    \/ seal
    \/ \E i \in Iterators :
         \/ begin(i)
         \/ increment(i)
         \/ \E j \in Iterators : copy(i, j)

PropSpec == PropInit /\ [][PropNext]_propVars

-----------------------------------------------------------------------------
PropTypeOK ==
    /\ props \in [Names -> Property \cup {NoProp}]
    /\ \A n \in Names : Accessor(n) => props[n].val = "undefined"
    /\ ToSet(order) = {n \in Names : Has(n)} /\ Len(order) = Cardinality(ToSet(order))
    /\ {sealed, failed} \subseteq BOOLEAN
    /\ Len(defining) <= MaxDefining /\ Len(walks) <= MaxWalks
    /\ \A i \in Iterators : iters[i] # <<>> => iters[i][1].walk \in DOMAIN walks

(***************************************************************************)
(* A permanent property keeps its attributes and stays, and keeps its      *)
(* value if it is read-only, whatever script assigns, deletes or defines   *)
(* (object.jsdoc: "any further attempts to call defineProperty on that     *)
(* property will result in an exception"). C++ may define it again, and so *)
(* does a defineProperty that began before the property became permanent,  *)
(* in a getter of its own descriptor. Nothing changes a sealed object.     *)
(***************************************************************************)
Overtaken(n) ==
    /\ defining # <<>> /\ defining[1].name = n /\ Len(defining') < Len(defining)
    /\ "permanent_property" \notin defining[1].flags

HostDefines(n) == \E flags \in SUBSET Flags : define_property(n, flags)

Stays(n) ==
    /\ Permanent(n)' /\ props'[n].attrs = props[n].attrs
    /\ props'[n].get = props[n].get /\ props'[n].set = props[n].set
    /\ "READONLY" \in props[n].attrs => props'[n] = props[n]

PermanentStays ==
    /\ \A n \in Names : Permanent(n) => Stays(n) \/ HostDefines(n) \/ Overtaken(n)
    /\ sealed => UNCHANGED object

(***************************************************************************)
(* An operation that throws has changed nothing; a defineProperty that     *)
(* rejects its descriptor leaves the property as the getters of the        *)
(* descriptor have left it.                                                *)
(***************************************************************************)
FailureChangesNothing == failed' => UNCHANGED <<object, iteration>>

(***************************************************************************)
(* Both: what has been promised of a property is kept, by what succeeds    *)
(* and by what throws.                                                     *)
(***************************************************************************)
DefinitionsKeep == [][PermanentStays /\ FailureChangesNothing]_propVars

(***************************************************************************)
(* An iterator and its copies share one walk: together they visit each     *)
(* enumerable property once, whichever of them is incremented, and what    *)
(* was neither deleted nor defined again meanwhile they have all visited   *)
(* when the first of them is at the end.                                   *)
(***************************************************************************)
VisitsOnce ==
    \A w \in DOMAIN walks :
        LET seen == walks[w].visited IN
        /\ Cardinality(ToSet(seen)) = Len(seen)
        /\ ToSet(seen) \subseteq walks[w].first \cup walks[w].unsure
        /\ walks[w].ended => walks[w].first \ walks[w].unsure \subseteq ToSet(seen)
        /\ \A i \in Iterators : (iters[i] # <<>> /\ iters[i][1].walk = w)
              => iters[i][1].id \in ToSet(seen)

\* All of the above: what iterators (property_iterator.cpp) and the setters
\* of properties say of an object is true of it.
PropertiesSound == PropTypeOK /\ VisitsOnce
=============================================================================
