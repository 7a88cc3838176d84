---------------------------- MODULE MCModuleName ----------------------------
(***************************************************************************)
(* Chains of require calls, each from the module that the one before it    *)
(* has loaded, with every name of a few segments: process_name compared    *)
(* with the plain reading of such a name as a path.                        *)
(***************************************************************************)
EXTENDS ModuleName

CONSTANTS
  Segment,     \* what stands between slashes
  MaxSegments, \* bound: segments of a name
  MaxKey       \* bound: segments of a key that other names are resolved against

ASSUME SegmentAssumption == {".", "..", ""} \subseteq Segment
ASSUME SizeAssumption == MaxSegments \in Nat /\ MaxKey \in Nat

VARIABLES
  asker,   \* require.id
  name  \* the argument of a require call, NoName between calls

nameVars == <<asker, name>>

NoName == <<>>
Names == UNION {[1 .. n -> Segment] : n \in 1 .. MaxSegments}

\* Not asked for, as undefined behaviour: "." alone leaves process_name with
\* an empty list of elements, whose first one it then steps over, and a name
\* that cancels itself out, such as "a/..", with no last element.
Defined(n) == n # <<".">> /\ ProcessName(n, asker) # <<>>

NameInit == asker = EmptyName /\ name = NoName

AskFor(n) ==
  /\ name = NoName
  /\ Len(asker) <= MaxKey
  /\ Defined(n)
  /\ name' = n
  /\ UNCHANGED asker

Load ==
  /\ name # NoName
  /\ asker' = ProcessName(name, asker)
  /\ name' = NoName

NameNext == Load \/ \E n \in Names : AskFor(n)

NameSpec == NameInit /\ [][NameNext]_nameVars

-----------------------------------------------------------------------------
\* A path from the root as its directories and file, one segment at a time;
\* above the root there is nothing to name.
Above == "above the root"
Step(path, segment) ==
  CASE segment \in {"", "."} -> path
    [] segment = ".." -> IF path = <<>> THEN <<Above>> ELSE Front(path)
    [] OTHER -> Append(path, segment)

Path(base, segments) == FoldLeft(Step, base, segments)

\* The directory of the requiring module, and the path the name stands for.
Base == IF IsRelative(name) THEN Path(<<>>, Front(asker)) ELSE <<>>
Denoted == Path(Base, name)

\* A name whose ".." climb above the root on the way has no such reading.
Climbs ==
  \E n \in DOMAIN name : Contains(Path(Base, SubSeq(name, 1, n)), Above)

\* require(name) looks for the file that name denotes, relative to the
\* directory of the requiring module if it starts with "./" or "../" and to
\* the search path otherwise: the key, which goes through process_name twice
\* on its way to the file system, loses and confuses nothing.
FindsFile ==
  name # NoName /\ ~Contains(asker, "..") /\ ~Climbs =>
    Visible(SelectedFile(ProcessName(name, asker))) = Denoted
=============================================================================
