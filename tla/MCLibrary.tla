----------------------------- MODULE MCLibrary -----------------------------
(***************************************************************************)
(* The parts of the library: the loader of modules, the names of modules,  *)
(* the test framework, a ByteArray over two bytes, a Transcoder.  They     *)
(* share no state; each behaviour is of one of them.                       *)
(***************************************************************************)
EXTENDS Require, MCModuleName, Tests, ByteArray, Transcoder

(***************************************************************************)
(* A few modules: two scripts that can require each other by absolute and  *)
(* by relative names, one of them in a directory; a shared object with a   *)
(* script of the same name; a preload function and a null preload entry; a *)
(* shared object that cannot be loaded.  What "./b" means outside the      *)
(* directory is an alias of the script in it.                              *)
(***************************************************************************)
MCNames == {"a", "./b", "../a", "system", "native", "null", "broken"}
MCKeys == {"", "a", "dir/b", "/b", "system", "native", "null", "broken"}
MCEmpty == ""
MCAlias == "/b" :> "dir/b"
MCLoader == {"system"}
MCNull == {"null"}
MCScripts == {"a", "dir/b", "native"}
MCShared == {"native", "broken"}
MCBroken == {"broken"}

\* process_name and the file of a key, written out for these names...
MCKeyOf(nm, key) ==
  CASE nm = "./b" -> IF key = "dir/b" THEN "dir/b" ELSE "/b"
    [] nm = "../a" -> "a"
    [] OTHER -> nm
MCFile(key) == IF key = "/b" THEN "b" ELSE key

\* ... which is what ModuleName computes.
MCSplit(string) ==
  CASE string = "./b" -> <<".", "b">>
    [] string = "../a" -> <<"..", "a">>
    [] string = "dir/b" -> <<"dir", "b">>
    [] string = "/b" -> <<"", "b">>
    [] OTHER -> <<string>>
ASSUME TablesAssumption ==
  /\ \A key \in MCKeys, nm \in MCNames \cup {"dir/b"} :
       MCSplit(MCKeyOf(nm, key)) = ProcessName(MCSplit(nm), MCSplit(key))
  /\ \A key \in MCKeys : MCSplit(MCFile(key)) = SelectedFile(MCSplit(key))

(***************************************************************************)
(* Values of each kind, functions and NaN also as properties of an object  *)
(* and of an instance of a class, in arrays there, a property that is      *)
(* undefined against one that is missing, a hole in an array, and, of each *)
(* class, two objects that lead back to themselves and two with a getter.  *)
(***************************************************************************)
MCFunction == {[is |-> "function", val |-> 1], [is |-> "function", val |-> 2]}
MCSimple == MCFunction \union
  {Undefined, Nan, [is |-> "null", val |-> 0], [is |-> "number", val |-> 1],
   [is |-> "date", val |-> 1], [is |-> "date", val |-> 2],
   [is |-> "regexp", val |-> 1], [is |-> "regexp", val |-> 2]}
MCArray(items) == [is |-> "array", items |-> items]
MCObject(class, props) == [is |-> "object", ctor |-> class, props |-> props]
MCNoProps == [i \in {} |-> Undefined]
MCInner == MCSimple \union {MCArray(<<f>>) : f \in MCFunction}
MCHole == [is |-> "hole"]
MCThrowing ==
  {MCObject(class, "x" :> [is |-> what, val |-> k]) :
     class \in {"Object", "C"}, what \in {"loop", "getter"}, k \in 1 .. 2}
MCNested == {MCObject(class, "x" :> v) : class \in {"Object", "C"}, v \in MCInner}
MCValue ==
  MCInner \union MCNested \union MCThrowing
    \union {MCArray(<<MCHole>>), MCArray(<<Undefined>>), MCArray(<<Nan, MCHole>>)}
    \union {MCArray(<<Nan, o>>) : o \in MCThrowing}
    \union {MCArray(<<>>), MCObject("Object", MCNoProps), MCObject("C", MCNoProps)}
    \union {MCObject("C", ("x" :> f) @@ ("y" :> Undefined)) : f \in MCFunction}
    \union {MCObject("C", "y" :> MCObject("Object", "x" :> f)) : f \in MCFunction}

\* One delimiter; a delimiter that ends with the other; one that begins with
\* the other; one that overlaps itself; an empty one, alone and with another;
\* one that is none.
MCDelims ==
  {<<<<1>>>>, <<<<0>>, <<1, 0>>>>, <<<<1>>, <<1, 0>>>>, <<<<1, 1>>>>,
   <<<<>>>>, <<<<>>, <<0>>>>, <<<<0, Bad>>>>}

\* Whole characters of both kinds, nothing, a cut one, an invalid one, and
\* a chunk whose conversion is longer than the estimate.
MCChunks == {<<>>, <<"a">>, <<"L", "T">>, <<"a", "L">>, <<"T">>, <<"L", "T", "a", "L", "T", "a">>}

\* Everything short.
MCTexts == SeqOf({"a", "L", "T", "0"}, 5)

MCSymmetry == Permutations(Suite)

VARIABLE side \* what this behaviour works with

MCInit ==
  /\ side \in {"require", "names", "tests", "array", "coder"}
  /\ Init /\ NameInit /\ TestInit /\ CoderInit
  /\ IF side = "array" THEN ArrayInit ELSE data = <<>> /\ call = None /\ loop = None

MCNext ==
  /\ UNCHANGED side
  /\ \/ side = "require" /\ Next /\ UNCHANGED <<nameVars, testVars, arrayVars, coderVars>>
     \/ side = "names" /\ NameNext /\ UNCHANGED <<vars, testVars, arrayVars, coderVars>>
     \/ side = "tests" /\ TestNext /\ UNCHANGED <<vars, nameVars, arrayVars, coderVars>>
     \/ side = "array" /\ ArrayNext /\ UNCHANGED <<vars, nameVars, testVars, coderVars>>
     \/ side = "coder" /\ CoderNext /\ UNCHANGED <<vars, nameVars, testVars, arrayVars>>

MCSpec == MCInit /\ [][MCNext]_<<side, vars, nameVars, testVars, arrayVars, coderVars>>
=============================================================================
