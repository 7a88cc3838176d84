---------------------------- MODULE Conversions ----------------------------
(***************************************************************************)
(* The call of a C++ function by script through a function adapter: every  *)
(* argument is converted to what the parameter asks for, in an order that  *)
(* C++ leaves open, by a converter that may run script and that keeps what *)
(* it has made until the function has returned.                            *)
(***************************************************************************)
EXTENDS Integers, Sequences, SequencesExt

CONSTANTS
  Lowest, Highest, \* the limits of the integral type
  Numbers,         \* numbers in and around them
  Signatures,      \* the functions: adapter and the types of the parameters
  MaxArgs,         \* bound: arguments of a call, elements of an array
  Widths           \* bound: bits of an integral number

\* The types of parameters that there are converters for.
ParamType == {"int", "optional", "bool", "double", "string", "text", "object", "native", "value", "bytes"}

ASSUME LimitAssumption ==
  /\ {Lowest, Highest} \cup Numbers \subseteq Int
  /\ Lowest <= 0 /\ 0 <= Highest
ASSUME SignatureAssumption ==
  Signatures \subseteq
    [adapter : {"plain", "native", "object", "member"}, types : Seq(ParamType), void : BOOLEAN]
ASSUME ArgsAssumption == MaxArgs \in Nat

\* There is a bit at least, so that the range has two halves.
ASSUME WidthAssumption ==
  Widths \subseteq Nat /\ \A b \in Widths : 2 ^ b \in Nat \ {0} /\ (2 ^ b) % 2 = 0

VARIABLES
  stage,    \* "idle", "converting", "running"
  callee,   \* what is called
  args,     \* x.arg
  self,     \* x.self
  given,    \* the parameters that have been converted, "this" among them at 0
  guards,   \* the values that the converters keep as roots
  living,   \* the values made by conversions that are not collected
  array,    \* the elements of the array that is an argument
  taking,   \* the conversion of an array under way
  result,   \* the slot of the result
  integral  \* the last answer of to_integral_number

convVars == <<stage, callee, args, self, given, guards, living, array, taking, result, integral>>

\* What script passes: a number, one that is none, a string, an object whose
\* conversions run script, one of the native class, one of another, an array.
Number(x) == [kind |-> "number", num |-> x]
OfKind(k) == [kind |-> k, num |-> 0]
Value == {Number(x) : x \in Numbers}
           \cup {OfKind(k) : k \in {"nan", "undefined", "string", "object", "native", "foreign", "array"}}
IsObject(v) == v.kind \in {"object", "native", "foreign", "array"}

Pending == {i \in DOMAIN given : given[i].kind = "pending"}

\* operator[]: an argument that is missing is undefined.
Arg(i) == IF i \in DOMAIN args THEN args[i] ELSE OfKind("undefined")

\* What a conversion comes to: a C++ thing, with the script value it depends
\* on, one that came with the call or a new one; or an exception.
Done(kind, num, cell) == [kind |-> kind, num |-> num, cell |-> cell]
Thrown == Done("thrown", 0, "none")

-----------------------------------------------------------------------------
(* convert<T>::from_value *)

\* to_number: an object is asked, and may answer with what it likes or throw.
ToNumber(v) ==
  IF v.kind = "number" THEN {v}
  ELSE IF IsObject(v) THEN {Number(x) : x \in Numbers} \cup {OfKind("nan"), OfKind("thrown")}
  ELSE {OfKind("nan")}

\* Mutant of Integer: the highest value is not looked at.
IntegerOneSided(n) ==
  CASE n.kind = "thrown" -> {Thrown}
    [] n.kind = "nan" -> {Done("int", x, "none") : x \in Lowest .. Highest}
    [] OTHER -> {IF n.num < Lowest THEN Thrown ELSE Done("int", n.num, "none")}

\* RangeError outside of the limits; what is no number compares as inside,
\* and becomes any integer.
Integer(n) ==
  CASE n.kind = "thrown" -> {Thrown}
    [] n.kind = "nan" -> {Done("int", x, "none") : x \in Lowest .. Highest}
    [] OTHER -> {IF n.num < Lowest \/ n.num > Highest THEN Thrown ELSE Done("int", n.num, "none")}

FromInt(v) == UNION {Integer(n) : n \in ToNumber(v)}

\* bool: to_boolean asks nobody.
FromBool(v) == {Done("bool", 0, "none")}

\* double and float
FromDouble(v) ==
  {IF n.kind = "thrown" THEN Thrown ELSE Done("double", n.num, "none") : n \in ToNumber(v)}

FromOptional(v) == IF v.kind = "undefined" THEN {Done("absent", 0, "none")} ELSE FromInt(v)

FromString(v) ==
  IF v.kind = "string" THEN {Done("string", 0, "came")}
  ELSE {Done("string", 0, "new")} \cup (IF IsObject(v) THEN {Thrown} ELSE {})

\* std::string: a copy of the characters, that depends on no script value.
FromText(v) ==
  {Done("text", 0, "none")} \cup (IF IsObject(v) THEN {Thrown} ELSE {})

\* to_object: undefined is the null object, a primitive gets a new one.
FromObject(v) ==
  IF IsObject(v) THEN {Done("object", 0, "came")}
  ELSE IF v.kind = "undefined" THEN {Done("null", 0, "none")}
  ELSE {Done("object", 0, "new")}

\* get_native and the cast to the class.
FromNative(v) == {IF v.kind = "native" THEN Done("native", 0, "came") ELSE Thrown}

\* get_native_object_parameter: the native object that the engine has called
\* a hook of, or that "this" belongs to; it must be of the class.
FromThis(v) == FromNative(v)

\* The value itself, still bound to its slot.
FromValue(v) == {Done("value", 0, "came")}

Conversion(type, v) ==
  CASE type = "int" -> FromInt(v)
    [] type = "optional" -> FromOptional(v)
    [] type = "bool" -> FromBool(v)
    [] type = "double" -> FromDouble(v)
    [] type = "string" -> FromString(v)
    [] type = "text" -> FromText(v)
    [] type = "object" -> FromObject(v)
    [] type = "native" -> FromNative(v)
    [] type = "value" -> FromValue(v)
    [] type = "this" -> FromThis(v)

-----------------------------------------------------------------------------
(* Adapters: which parameters there are, and what each is made of: "this"  *)
(* (from 0) or the argument of that number.                                *)

Param(type, from) == [type |-> type, from |-> from]

\* A plain function takes the arguments.
PlainParams(types) == [i \in DOMAIN types |-> Param(types[i], i)]

\* Mutant of NativeParams: the arguments are counted with "this".
NativeParamsShifted(types) ==
  [i \in 1 .. Len(types) + 1 |-> IF i = 1 THEN Param("this", 0) ELSE Param(types[i - 1], i)]

\* A function that takes a native object first gets "this" for it.
NativeParams(types) ==
  [i \in 1 .. Len(types) + 1 |-> IF i = 1 THEN Param("this", 0) ELSE Param(types[i - 1], i - 1)]

\* One that takes an object first gets "this" as it is.
ObjectParams(types) ==
  [i \in 1 .. Len(types) + 1 |-> IF i = 1 THEN Param("value", 0) ELSE Param(types[i - 1], i - 1)]

\* A member function is called on "this" and takes the arguments.
MemberParams(types) ==
  [i \in 0 .. Len(types) |-> IF i = 0 THEN Param("this", 0) ELSE Param(types[i], i)]

Params(f) ==
  CASE f.adapter = "plain" -> PlainParams(f.types)
    [] f.adapter = "native" -> NativeParams(f.types)
    [] f.adapter = "object" -> ObjectParams(f.types)
    [] f.adapter = "member" -> MemberParams(f.types)

TypeOf(i) == Params(callee)[i].type
Wanted(i) == IF Params(callee)[i].from = 0 THEN self ELSE Arg(Params(callee)[i].from)

-----------------------------------------------------------------------------
Nobody == [adapter |-> "plain", types |-> <<>>, void |-> TRUE]
NoTaking == [i |-> 0, length |-> 0, taken |-> <<>>, start |-> <<>>, touched |-> FALSE]
NotAsked == [half |-> 0, bits |-> 1, signed |-> FALSE, answer |-> 0]

ConvInit ==
  /\ stage = "idle" /\ callee = Nobody /\ args = <<>> /\ self = OfKind("undefined")
  /\ given = <<>> /\ guards = {} /\ living = {} /\ array = <<>>
  /\ taking = NoTaking /\ result = "undefined" /\ integral = NotAsked

\* native_function::call makes an adapter with a converter per parameter.
BeginCall(f, as, s, elements) ==
  /\ stage = "idle"
  /\ stage' = "converting" /\ callee' = f /\ args' = as /\ self' = s /\ array' = elements
  /\ given' = [i \in DOMAIN Params(f) |-> Done("pending", 0, "none")]
  /\ guards' = {} /\ living' = {} /\ taking' = NoTaking /\ result' = "undefined"
  /\ UNCHANGED integral

\* The call is over: the converters are gone, and their roots.
Over ==
  /\ stage' = "idle" /\ callee' = Nobody /\ args' = <<>> /\ self' = OfKind("undefined")
  /\ given' = <<>> /\ guards' = {} /\ living' = {} /\ array' = <<>> /\ taking' = NoTaking
  /\ UNCHANGED integral

\* An exception leaves the call, before the function has been reached.
ThrowsOut == Over /\ UNCHANGED result

\* Mutant of Kept: only objects are kept.
KeptObjects(i, d) == IF d.kind = "object" THEN guards \cup {i} ELSE guards

\* The converters of strings and objects hold what they have made in a root.
Kept(i, d) == IF d.kind \in {"string", "object"} THEN guards \cup {i} ELSE guards

Convert(i) ==
  /\ stage = "converting" /\ taking = NoTaking
  /\ i \in Pending /\ TypeOf(i) # "bytes"
  /\ \E d \in Conversion(TypeOf(i), Wanted(i)) :
       \/ d = Thrown /\ ThrowsOut
       \/ /\ d # Thrown
          /\ given' = [given EXCEPT ![i] = d]
          /\ living' = IF d.cell = "new" THEN living \cup {i} ELSE living
          /\ guards' = Kept(i, d)
          /\ UNCHANGED <<stage, callee, args, self, array, taking, result, integral>>

\* A list of bytes: what is no array is refused, and the length is read once.
TakeBegin(i) ==
  /\ stage = "converting" /\ taking = NoTaking
  /\ i \in Pending /\ TypeOf(i) = "bytes"
  /\ IF Wanted(i).kind # "array" THEN ThrowsOut
     ELSE /\ taking' = [NoTaking EXCEPT !.i = i, !.length = Len(array), !.start = array]
          /\ UNCHANGED <<stage, callee, args, self, given, guards, living, array, result, integral>>

Taking == stage = "converting" /\ taking # NoTaking
ElementAt(j) == IF j \in DOMAIN array THEN array[j] ELSE OfKind("undefined")
Arrays == SeqOf({Number(x) : x \in Numbers} \cup {OfKind("object")}, MaxArgs)

\* One element is read and converted; if that runs script the array may be
\* another one afterwards.
TakeElement ==
  /\ Taking /\ Len(taking.taken) < taking.length
  /\ LET v == ElementAt(Len(taking.taken) + 1)
     IN  \E d \in FromInt(v) :
           \/ d = Thrown /\ ThrowsOut
           \/ /\ d # Thrown
              /\ array' \in IF IsObject(v) THEN Arrays ELSE {array}
              /\ taking' = [taking EXCEPT !.taken = Append(@, d.num),
                                          !.touched = @ \/ array' # array]
              /\ UNCHANGED <<stage, callee, args, self, given, guards, living, result, integral>>

TakeEnd ==
  /\ Taking /\ Len(taking.taken) = taking.length
  /\ given' = [given EXCEPT ![taking.i] = Done("bytes", taking.length, "none")]
  /\ taking' = NoTaking
  /\ UNCHANGED <<stage, callee, args, self, guards, living, array, result, integral>>

\* The function is reached when all its parameters are there.
Run ==
  /\ stage = "converting" /\ taking = NoTaking /\ Pending = {}
  /\ stage' = "running"
  /\ UNCHANGED <<callee, args, self, given, guards, living, array, taking, result, integral>>

\* It returns, and what it returns, if anything, is written to the result;
\* or it throws.
Return ==
  /\ stage = "running"
  /\ Over
  /\ result' = IF callee.void THEN result ELSE "returned"

Throw == stage = "running" /\ ThrowsOut

\* External: a collection, between two conversions or while the function
\* runs.
GcConverted ==
  /\ stage # "idle" /\ living \ guards # {}
  /\ living' = living \cap guards
  /\ UNCHANGED <<stage, callee, args, self, given, guards, array, taking, result, integral>>

-----------------------------------------------------------------------------
(* value::to_integral_number *)

\* Numbers come in halves; fmod keeps the sign of the number.
Truncated(half) == IF half < 0 THEN -((-half) \div 2) ELSE half \div 2
Remainder(x, m) == IF x < 0 THEN -((-x) % m) ELSE x % m

\* Mutant of to_integral_number: negative remainders stay negative.
to_integral_number_signed(half, bits, signed) ==
  LET maxU == 2 ^ bits
      x == Remainder(Truncated(half), maxU)
  IN  IF signed /\ x > maxU \div 2 THEN x - maxU ELSE x

to_integral_number(half, bits, signed) ==
  LET maxU == 2 ^ bits
      r == Remainder(Truncated(half), maxU)
      x == IF r < 0 THEN r + maxU ELSE r
  IN  IF signed /\ x > maxU \div 2 THEN x - maxU ELSE x

AskIntegral(half, bits, signed) ==
  /\ stage = "idle"
  /\ integral' = [half |-> half, bits |-> bits, signed |-> signed,
                  answer |-> to_integral_number(half, bits, signed)]
  /\ UNCHANGED <<stage, callee, args, self, given, guards, living, array, taking, result>>

-----------------------------------------------------------------------------
ArgLists == SeqOf(Value, MaxArgs)
Halves == -34 .. 35

ConvNext ==
  \/ /\ stage = "idle" /\ integral = NotAsked
     /\ \E f \in Signatures, as \in ArgLists :
          \E s \in IF f.adapter = "plain" THEN {OfKind("foreign")} ELSE {OfKind("native"), OfKind("foreign")},
             elements \in IF OfKind("array") \in ToSet(as) THEN Arrays ELSE {<<>>} :
               BeginCall(f, as, s, elements)
  \/ \E i \in DOMAIN given : Convert(i) \/ TakeBegin(i)
  \/ TakeElement \/ TakeEnd \/ Run \/ Return \/ Throw \/ GcConverted
  \/ \E half \in Halves, bits \in Widths, signed \in BOOLEAN : AskIntegral(half, bits, signed)

ConvSpec == ConvInit /\ [][ConvNext]_convVars

-----------------------------------------------------------------------------
(* Properties *)

ConvTypeOK ==
  /\ stage \in {"idle", "converting", "running"}
  /\ guards \subseteq DOMAIN given /\ living \subseteq DOMAIN given
  /\ stage = "idle" => given = <<>> /\ guards = {}
  /\ stage = "running" => Pending = {}

\* What has been made of one argument is alive when the others have been
\* converted, and as long as the function runs, whatever script has run and
\* whatever has been collected in between.
GivenAlive == \A i \in DOMAIN given : given[i].cell = "new" => i \in living

\* Every parameter is made of the argument in its place, also where a method
\* has "this" before them: the n-th argument is never taken for another one,
\* and a missing one is undefined.
InPlace ==
  \A n \in DOMAIN callee.types :
    LET i == IF callee.adapter \in {"native", "object"} THEN n + 1 ELSE n
    IN  given[i].kind \notin {"pending", "bytes"} =>
          given[i] \in Conversion(callee.types[n], IF n <= Len(args) THEN args[n] ELSE OfKind("undefined"))

\* No integer outside of its type's limits is given to a function, alone or
\* in a list.
InLimits ==
  /\ \A i \in DOMAIN given : given[i].kind = "int" => given[i].num \in Lowest .. Highest
  /\ \A j \in DOMAIN taking.taken : taking.taken[j] \in Lowest .. Highest

\* A list has as many elements as the array had when its conversion began,
\* and, if script has left the array alone, these.
TakenInOrder ==
  Taking =>
    /\ Len(taking.taken) <= taking.length
    /\ ~taking.touched =>
         \A j \in DOMAIN taking.taken :
           taking.start[j].kind = "number" => taking.taken[j] = taking.start[j].num

\* to_integral_number gives the number of that width that is congruent to
\* the truncated number, but that a signed one of half the range, which has
\* none, stays positive.
IntegralCongruent ==
  LET i == integral
      m == 2 ^ i.bits
  IN  /\ (i.answer - Truncated(i.half)) % m = 0
      /\ IF i.signed THEN i.answer \in -(m \div 2) + 1 .. m \div 2 ELSE i.answer \in 0 .. m - 1

\* All of the above: a C++ function is given what script has passed, within
\* the limits of its types (function_adapter.hpp, convert.hpp).
ConversionsSound ==
  ConvTypeOK /\ GivenAlive /\ InPlace /\ InLimits /\ TakenInOrder /\ IntegralCongruent
=============================================================================
