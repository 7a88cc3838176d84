----------------------------- MODULE ModuleName -----------------------------
(***************************************************************************)
(* The names require() is called with and the keys process_name makes of   *)
(* them.  A string is the sequence of what stands between its slashes:     *)
(* "./x" is <<".", "x">>, "/x" is <<"", "x">>, the empty string is <<"">>, *)
(* and joining two strings with a slash is concatenation.                  *)
(***************************************************************************)
EXTENDS Naturals, Sequences, SequencesExt

EmptyName == <<"">>

IsRelative(name) == Len(name) > 1 /\ Head(name) \in {".", ".."}

\* What is left of module after erasing all that follows its last slash.
Directory(module) ==
  IF Len(module) = 1 THEN EmptyName ELSE Append(Front(module), "")

\* What is left of a sequence without its empty elements...
KeepNamed(kept, element) == IF element = "" THEN kept ELSE Append(kept, element)
Visible(name) == FoldLeft(KeepNamed, <<>>, name)

\* ... and without its dots.
KeepMoving(kept, element) == IF element = "." THEN kept ELSE Append(kept, element)
\* Mutant of Moving: the first dot is found and erased, the others stay.
MovingAfterOne(name) == RemoveFirst(name, ".")
Moving(name) == FoldLeft(KeepMoving, <<>>, name)

\* boost::split with token_compress_on: neighbouring slashes count as one,
\* a leading or trailing one leaves an empty element at that end.
Compress(name) ==
  IF Len(name) = 1 THEN name
  ELSE <<Head(name)>> \o Visible(Front(Tail(name))) \o <<Last(name)>>

\* The loop over the elements starts at the second one, and ".." cancels
\* whatever stands before it, be it the empty element of a leading slash or
\* another "..".
Cancel(before, element) ==
  IF element = ".." /\ before # <<>> THEN Front(before) ELSE Append(before, element)

\* The elements of a name from the first to the last.
Walked(name) ==
  LET elements == Moving(Compress(name))
  IN  FoldLeft(Cancel, <<Head(elements)>>, Tail(elements))

\* The name, in the directory of the module that requires it.
Located(name, module) == IF IsRelative(name) THEN Directory(module) \o name ELSE name

\* process_name(name, module) with separator '/', no prefix and no suffix.
ProcessName(name, module) == Walked(Located(name, module))

\* The file, relative to a search path, that js_name and so_name select for
\* a key.  They start with a slash of their own, so that a leading slash of
\* the key makes no difference to the file system.
SelectedFile(key) ==
  LET name == ProcessName(key, EmptyName)
  IN  IF Len(name) > 1 /\ Head(name) = "" THEN Tail(name) ELSE name
=============================================================================
