------------------------------- MODULE Equiv -------------------------------
(***************************************************************************)
(* equiv of js/test/equiv.js: the comparison of values of the test         *)
(* framework. A value is a record with the field is, its hoozit: numbers,  *)
(* strings, booleans, null, undefined, dates and regexps have a val (a     *)
(* date its time, a regexp its source and flags), a function is known by   *)
(* its val, its identity, an array has items, some of them holes, and an   *)
(* object a constructor, ctor, and props. A property may be a loop, which  *)
(* leads back to the object that has it, or a getter that throws; the val  *)
(* of these is the identity of the object. Any other value that is         *)
(* compared with itself equals itself either way, so that it needs no      *)
(* identity. Bound: loops lead to the next object, getters are no items.   *)
(***************************************************************************)
EXTENDS Sequences, Integers, FiniteSets

Undefined == [is |-> "undefined", val |-> 0]
Nan == [is |-> "nan", val |-> 0]

TypeOf(v) ==
  CASE v.is \in {"null", "date", "regexp", "array", "object"} -> "object"
    [] v.is = "nan" -> "number"
    [] OTHER -> v.is

\* o[i] of a property that an object has not is undefined, and so is a hole.
Has(o, i, what) == i \in DOMAIN o.props /\ o.props[i].is = what
PropOf(o, i) ==
  IF Has(o, i, "loop") THEN o ELSE IF i \in DOMAIN o.props THEN o.props[i] ELSE Undefined
ItemOf(o, i) == IF o.items[i].is = "hole" THEN Undefined ELSE o.items[i]

\* innerEquiv answers at once: the values are identical, or too different.
AtOnce(a, b) ==
  a = b \/ TypeOf(a) # TypeOf(b) \/ {a.is, b.is} \cap {"null", "undefined"} # {}


\* The innermost constructor that is being compared, "none" outside of
\* objects: only the methods of an instance of a class are not compared.
Skipped(caller) == caller \notin {"Object", "none"}

\* "Ensures identical properties name".
SameNames(a, b) == DOMAIN a.props = DOMAIN b.props

RECURSIVE InnerEquiv(_, _, _)
EquivArrays(a, b, caller) ==
  /\ b.is = "array"
  /\ Len(a.items) = Len(b.items)
  /\ \A i \in 1 .. Len(a.items) : InnerEquiv(ItemOf(a, i), ItemOf(b, i), caller)
EquivObjects(a, b) ==
  /\ b.is = "object"
  /\ a.ctor = b.ctor
  /\ \A i \in DOMAIN a.props : InnerEquiv(PropOf(a, i), PropOf(b, i), a.ctor)
  /\ SameNames(a, b)

InnerEquiv(a, b, caller) ==
  IF AtOnce(a, b) THEN a = b
  ELSE CASE a.is = "function" -> Skipped(caller)
         [] a.is = "array" -> EquivArrays(a, b, caller)
         [] a.is = "object" -> EquivObjects(a, b)
         [] a.is = "nan" -> b.is = "nan"
         [] a.is \in {"date", "regexp"} -> b.is = a.is /\ a.val = b.val
         [] OTHER -> FALSE

(***************************************************************************)
(* The constructors in whose objects the comparison of a and b may throw:  *)
(* where a getter does, or where both lead back to themselves, so that the *)
(* engine runs out of stack. An array is left at the first difference, an  *)
(* object is not.                                                          *)
(***************************************************************************)
RECURSIVE LeftAt(_, _, _)
LeftInArrays(a, b, caller) ==
  IF ~(b.is = "array" /\ Len(a.items) = Len(b.items)) THEN {}
  ELSE UNION {IF \A j \in 1 .. i - 1 : /\ LeftAt(ItemOf(a, j), ItemOf(b, j), caller) = {}
                                       /\ InnerEquiv(ItemOf(a, j), ItemOf(b, j), caller)
              THEN LeftAt(ItemOf(a, i), ItemOf(b, i), caller) ELSE {} : i \in 1 .. Len(a.items)}

LeftInObjects(a, b) ==
  IF ~(b.is = "object" /\ a.ctor = b.ctor) THEN {}
  ELSE UNION {IF \/ Has(a, i, "getter") \/ Has(b, i, "getter")
                 \/ Has(a, i, "loop") /\ Has(b, i, "loop")
              THEN {a.ctor} ELSE LeftAt(PropOf(a, i), PropOf(b, i), a.ctor) : i \in DOMAIN a.props}

LeftAt(a, b, caller) ==
  CASE AtOnce(a, b) -> {}
    [] ~AtOnce(a, b) /\ a.is = "array" -> LeftInArrays(a, b, caller)
    [] ~AtOnce(a, b) /\ a.is = "object" -> LeftInObjects(a, b)
    [] OTHER -> {}

(***************************************************************************)
(* What is compared, for reference: a value in which every method of an    *)
(* instance is the same one, and a hole is undefined.                      *)
(***************************************************************************)
RECURSIVE Compared(_, _)
Compared(v, class) ==
  CASE v.is = "function" /\ class \notin {"Object", "none"} ->
         [is |-> "function", val |-> 0]
    [] v.is = "array" ->
         [is |-> "array",
          items |-> [i \in 1 .. Len(v.items) |-> Compared(ItemOf(v, i), class)]]
    [] v.is = "object" ->
         [is |-> "object", ctor |-> v.ctor,
          props |-> [i \in DOMAIN v.props |-> Compared(v.props[i], v.ctor)]]
    [] OTHER -> v
=============================================================================
