----------------------------- MODULE ByteArray -----------------------------
(***************************************************************************)
(* One ByteArray of the binary module: its bytes, the methods that search, *)
(* cut and change them, with the positions they take from either end, and  *)
(* the methods that call a function for each byte while that function may  *)
(* change the array.                                                       *)
(*                                                                         *)
(* A call is made, leaves what it did in "call", and is returned from.     *)
(* Positions that lie further back than the start of the data are left     *)
(* out where range() would take them for huge ones, and so are functions   *)
(* for sort that are no order or that change the length of the array,      *)
(* which std::sort does not allow.                                         *)
(***************************************************************************)
EXTENDS Integers, Sequences, SequencesExt, FiniteSetsExt

CONSTANTS
  Byte,      \* bytes, numbers
  Bad,       \* an argument, or an element of one, that is no byte
  Self,      \* an argument that is the array itself
  None,      \* an argument that is not given; no call; no loop
  Delims,    \* lists of delimiters: bytes, some of which may be Bad
  MaxLength, \* bound: length of the array
  Reach      \* bound: positions are given from -Reach to Reach

ASSUME ByteAssumption == 0 \in Byte /\ Byte \subseteq Nat /\ {Bad, Self, None} \cap Byte = {} /\ None \notin Int
ASSUME DelimAssumption == Delims \subseteq Seq(Seq(Byte \cup {Bad}))
ASSUME BoundAssumption == MaxLength \in Nat /\ Reach \in Nat

VARIABLES
  data, \* v_data
  call, \* the call that has just ended
  loop  \* the method that is calling a function for each byte

arrayVars == <<data, call, loop>>

Arrays == SeqOf(Byte, MaxLength)
Position == -Reach .. Reach
Optional == Position \cup {None}

\* What arguments stand for, in order: each is a byte, or several.
Arguments == SeqOf(Byte \cup {Bad, Self}, 2)

n == Len(data)
Least(a, b) == Min({a, b})
Greatest(a, b) == Max({a, b})
Given(x, default) == IF x = None THEN default ELSE x

\* The bytes at positions first, first + 1, ... before last.
Part(s, r) == SubSeq(s, r.first + 1, r.last)
Before(r) == SubSeq(data, 1, r.first)
Behind(r) == SubSeq(data, r.last + 1, n)

-----------------------------------------------------------------------------
(* Ranges *)

\* Mutant of BeginEnd: the end is not counted from the back.
BeginEndForward(begin, end) ==
  LET first == Least(IF begin < 0 THEN n + begin ELSE begin, n)
  IN  [first |-> first, last |-> Greatest(Least(Given(end, n), n), first)]

\* range
BeginEnd(begin, end) ==
  LET e == Given(end, n)
      first == Least(IF begin < 0 THEN n + begin ELSE begin, n)
      last == Least(IF e < 0 THEN n + e ELSE e, n)
  IN  [first |-> first, last |-> Greatest(last, first)]

\* length_range
StartLength(start, length) ==
  LET first == Least(Greatest(IF start < 0 THEN n + start ELSE start, 0), n)
      count == Greatest(Given(length, n - first), 0)
  IN  [first |-> first, last |-> first + Least(count, n - first)]

\* substring
FirstLast(a, b) ==
  LET Clamp(x) == Least(Greatest(x, 0), n)
      first == Clamp(a)
      last == Clamp(Given(b, n))
  IN  [first |-> Least(first, last), last |-> Greatest(first, last)]

\* Where a search starts and stops.
SearchedPart(start, stop) ==
  LET s == Given(stop, n - 1)
  IN  Greatest(Given(start, 0), 0) .. (IF s < 0 \/ s >= n THEN n - 1 ELSE s)

-----------------------------------------------------------------------------
(* Appending *)

\* Mutant of AppendOne: what is no byte is taken for one.
AppendOneUnchecked(r, a) ==
  IF a = Self THEN [r EXCEPT !.bytes = r.bytes \o r.bytes]
  ELSE [r EXCEPT !.bytes = Append(r.bytes, a)]

\* One byte, or all that have come together so far: the array is empty or
\* shortened while it is being put together again.
AppendOne(r, a) ==
  IF ~r.ok THEN r
  ELSE IF a = Bad THEN [r EXCEPT !.ok = FALSE]
  ELSE IF a = Self THEN [r EXCEPT !.bytes = r.bytes \o r.bytes]
  ELSE [r EXCEPT !.bytes = Append(r.bytes, a)]

\* do_append on a Binary with these bytes: at the first value that is no
\* byte it throws, and what comes before has been appended.
do_append(bytes, args) == FoldLeft(AppendOne, [bytes |-> bytes, ok |-> TRUE], args)

\* The arguments, where the array that they name is another one.
Copied(args) == FlattenSeq([i \in DOMAIN args |-> IF args[i] = Self THEN data ELSE <<args[i]>>])

\* Mutant of Displaced: the bytes before the range are set aside too.
DisplacedAside(r, args) ==
  LET a == do_append(<<>>, args)
  IN  IF a.ok THEN [a EXCEPT !.bytes = Before(r) \o a.bytes \o Behind(r)] ELSE a

\* The bytes behind the range are set aside, and lost if appending fails.
Displaced(r, args) ==
  LET a == do_append(Before(r), args)
  IN  IF a.ok THEN [a EXCEPT !.bytes = a.bytes \o Behind(r)] ELSE a

-----------------------------------------------------------------------------
(* split and join *)

\* What is left of the delimiters that are named: empty ones do not count.
AddDelim(r, d) == IF d = <<>> THEN r ELSE Append(r, d)
Delimiters(delims) == FoldLeft(AddDelim, <<>>, delims)

\* A byte of a delimiter that is none, or no delimiter that counts.
BadDelims(delims) == Delimiters(delims) = <<>> \/ \E j \in DOMAIN delims : Bad \in ToSet(delims[j])

\* Where the delimiter starts in the data at or after pos.
Found(delim, pos) == {i \in pos .. n - Len(delim) : SubSeq(data, i + 1, i + Len(delim)) = delim}

\* Mutant of NextDelim: of two delimiters the one that is listed first.
NextDelimListed(delims, pos) ==
  LET d == Min({j \in DOMAIN delims : Found(delims[j], pos) # {}})
  IN  [at |-> Min(Found(delims[d], pos)), delim |-> delims[d]]

\* The delimiter that comes next, the one listed first of those at one place.
NextDelim(delims, pos) ==
  LET at == Min(UNION {Found(delims[j], pos) : j \in DOMAIN delims})
      d == Min({j \in DOMAIN delims : at \in Found(delims[j], pos)})
  IN  [at |-> at, delim |-> delims[d]]

\* One turn of the loop: the piece before the next delimiter, and that
\* delimiter if they are included.  Where none is left the loop ends.
Cut(r, delims, include) ==
  LET x == NextDelim(delims, r.pos)
      piece == SubSeq(data, r.pos + 1, x.at)
  IN  IF \A j \in DOMAIN delims : Found(delims[j], r.pos) = {} THEN r
      ELSE [pos |-> x.at + Len(x.delim),
            pieces |-> r.pieces \o IF include THEN <<piece, x.delim>> ELSE <<piece>>]

\* The pieces, at most "count" if that is given; the last is what is left.
Pieces(delims, count, include) ==
  LET cut[k \in 0 .. n] ==
        IF k = 0 THEN [pos |-> 0, pieces |-> <<>>] ELSE Cut(cut[k - 1], delims, include)
      r == cut[IF count = None THEN n ELSE Least(Greatest(count - 1, 0), n)]
  IN  Append(r.pieces, SubSeq(data, r.pos + 1, n))

\* ByteString.join: a delimiter comes before each element but the first.
Joined(elements, delim) ==
  do_append(<<>>, FlattenSeq([i \in DOMAIN elements |-> (IF i = 1 THEN <<>> ELSE delim) \o elements[i]]))

-----------------------------------------------------------------------------
ArrayInit == data \in Arrays /\ call = None /\ loop = None

Idle == call = None /\ loop = None

\* A method has been called with the input, and has thrown or returned the
\* result.
Called(op, input, after, result, ok) ==
  /\ Idle /\ Len(after) <= MaxLength
  /\ data' = after
  /\ call' = [op |-> op, input |-> input, before |-> data, result |-> result, ok |-> ok]
  /\ UNCHANGED loop

\* A method that changes the array to a.bytes, or throws, and returns result.
Changed(op, input, a, result) == Called(op, input, a.bytes, IF a.ok THEN result ELSE None, a.ok)

\* What is read at a position: any byte where there are no data.
ReadAt(s, i) == IF i < Len(s) THEN {s[i + 1]} ELSE Byte

\* Methods that change nothing.
Slice(b, e) == b >= -n /\ Called("slice", <<b, e>>, data, Part(data, BeginEnd(b, e)), TRUE)
Substr(s, l) == Called("substr", <<s, l>>, data, Part(data, StartLength(s, l)), TRUE)
Substring(a, b) == Called("substring", <<a, b>>, data, Part(data, FirstLast(a, b)), TRUE)
Concat(args) ==
  LET a == do_append(data, Copied(args))
  IN  Called("concat", args, data, IF a.ok THEN a.bytes ELSE None, a.ok)
Split(delims, count, include) ==
  LET d == Delimiters(delims)
  IN  Called("split", [delims |-> d, count |-> count, include |-> include], data,
             IF BadDelims(delims) THEN None ELSE Pieces(d, count, include), ~BadDelims(delims))

\* A search for one byte: a number, or a Binary of one byte.
Search(op, x, start, stop) ==
  LET at == {i \in SearchedPart(start, stop) : data[i + 1] = x}
      which == IF at = {} THEN -1 ELSE IF op = "indexOf" THEN Min(at) ELSE Max(at)
  IN  IF x = Bad THEN Called(op, <<x, start, stop>>, data, None, FALSE)
      ELSE Called(op, <<x, start, stop>>, data, which, TRUE)
IndexOf(x, start, stop) == Search("indexOf", x, start, stop)
LastIndexOf(x, start, stop) == Search("lastIndexOf", x, start, stop)

\* get, and byteAt, which makes a ByteString of the byte: the position of the
\* end is let through, and anything may be read there.
Get(i) ==
  IF i \notin 0 .. n THEN Called("get", <<i>>, data, None, FALSE)
  ELSE \E b \in ReadAt(data, i) : Called("get", <<i>>, data, b, TRUE)

\* toByteArray, toByteString and toArray: another object with these bytes.
Copy == Called("copy", <<>>, data, data, TRUE)

\* ByteString.join of this array, among other elements, with a delimiter.
Join(elements, delim) ==
  LET a == Joined([i \in DOMAIN elements |-> Copied(elements[i])], delim)
  IN  Called("join", <<elements, delim>>, data, IF a.ok THEN a.bytes ELSE None, a.ok)

\* A new array from a size, an array of numbers, another Binary, or a text,
\* whose conversion may fail.
NewOfSize(size) ==
  IF size < 0 THEN Called("new", <<size>>, data, None, FALSE)
  ELSE Called("new", <<size>>, data, [i \in 1 .. size |-> 0], TRUE)
NewOfBytes(args) ==
  LET a == do_append(<<>>, args)
  IN  Called("new", args, data, IF a.ok THEN a.bytes ELSE None, a.ok)
NewOfText(bytes) ==
  \/ Called("new", bytes, data, bytes, TRUE)
  \/ Called("new", bytes, data, None, FALSE)

\* Methods that change the array.
append(args) ==
  LET a == do_append(data, args) IN Changed("append", args, a, Len(a.bytes))
prepend(args) ==
  LET a == Displaced([first |-> 0, last |-> 0], args) IN Changed("prepend", args, a, Len(a.bytes))
erase(b, e) ==
  LET r == BeginEnd(b, e)
  IN  b >= -n /\ Called("erase", <<b, e>>, Before(r) \o Behind(r), n - (r.last - r.first), TRUE)
displace(b, e, args) ==
  LET a == Displaced(BeginEnd(b, e), args)
  IN  b >= -n /\ Changed("displace", <<b, e, args>>, a, Len(a.bytes))

\* Mutant of insert: the position is not doubled.
InsertOnce(b, args) ==
  LET a == Displaced(BeginEnd(b, None), args)
  IN  b >= -n /\ Changed("insert", <<b, args>>, a, Len(a.bytes))

insert(b, args) ==
  LET a == Displaced(BeginEnd(b, b), args)
  IN  b >= -n /\ Changed("insert", <<b, args>>, a, Len(a.bytes))
splice(s, l, args) ==
  LET r == StartLength(s, l)
      a == Displaced(BeginEnd(r.first, r.last), args)
  IN  Changed("splice", <<s, l, args>>, a, Part(data, r))
pop ==
  IF data = <<>> THEN Called("pop", <<>>, data, None, FALSE)
  ELSE Called("pop", <<>>, Front(data), Last(data), TRUE)
shift ==
  IF data = <<>> THEN Called("shift", <<>>, data, None, FALSE)
  ELSE Called("shift", <<>>, Tail(data), Head(data), TRUE)
reverse == Called("reverse", <<>>, Reverse(data), None, TRUE)

\* Bytes in their order: each is put behind those that are not greater.
PutInto(r, b) ==
  LET k == Cardinality({i \in DOMAIN r : r[i] <= b})
  IN  Append(SubSeq(r, 1, k), b) \o SubSeq(r, k + 1, Len(r))
Ordered(s) == FoldLeft(PutInto, <<>>, s)

sort == Called("sort", <<>>, Ordered(data), None, TRUE)

\* With a function, here the opposite order; if it throws, the array is left
\* as the sorting had it, with a byte that was being moved written twice or
\* not at all.
SortBy ==
  \/ Called("sort", <<>>, Reverse(Ordered(data)), None, TRUE)
  \/ \E after \in Arrays :
       /\ Len(after) = n /\ ToSet(after) \subseteq ToSet(data)
       /\ Called("sort", <<>>, after, None, FALSE)

set_length(l) ==
  Called("length", <<l>>, [i \in 1 .. l |-> IF i <= n THEN data[i] ELSE 0], None, TRUE)
SetElement(i, x) ==
  IF i \notin 0 .. n - 1 \/ x = Bad THEN Called("set", <<i, x>>, data, None, FALSE)
  ELSE Called("set", <<i, x>>, [data EXCEPT ![i + 1] = x], None, TRUE)

Return ==
  /\ call # None
  /\ call' = None
  /\ UNCHANGED <<data, loop>>

-----------------------------------------------------------------------------
(* Methods that call a function for each byte *)

\* "values" stands for the generators values and pairs, which script resumes
\* when it likes, and reduce for forEach, too.
LoopOp == {"values", "every", "some", "count", "filter", "map", "reduce", "reduceRight"}

\* at is the next position, got the result so far.  The rest is what the
\* properties speak of: whether the function has shortened the array, or
\* changed it, what it was given and what it answered while it had not, and
\* whether a read has missed the data.
Start(op) ==
  /\ Idle
  /\ loop' = [op |-> op, at |-> IF op = "reduceRight" THEN n - 1 ELSE 0,
              got |-> IF op = "count" THEN 0 ELSE <<>>,
              shortened |-> FALSE, same |-> TRUE, given |-> <<>>, answers |-> <<>>, stray |-> FALSE]
  /\ UNCHANGED <<data, call>>

\* Mutant of More: the last position is the length.
MoreOne == IF loop.op = "reduceRight" THEN loop.at >= 0 ELSE loop.at <= n

\* reduceRight looks at the length only once, when it starts.
More == IF loop.op = "reduceRight" THEN loop.at >= 0 ELSE loop.at < n

\* The loop after a turn: the function has left the array as "after" and
\* has answered; filter has read the byte again if rereads.
Turned(after, answer, got, rereads) ==
  LET same == loop.same /\ after = data
  IN  \E byte \in ReadAt(data, loop.at) :
        loop' = [loop EXCEPT
          !.at = IF loop.op = "reduceRight" THEN @ - 1 ELSE @ + 1,
          !.got = got,
          !.shortened = @ \/ Len(after) < n,
          !.same = same,
          !.given = IF same THEN Append(@, byte) ELSE <<>>,
          !.answers = IF same THEN Append(@, answer) ELSE <<>>,
          !.stray = @ \/ loop.at >= n \/ (rereads /\ loop.at >= Len(after))]

\* A turn with an answer that does not end the loop.  The function may do
\* with the array what script can do.
Turn(after, yes) ==
  /\ loop # None /\ More
  /\ loop.op # "map" /\ (loop.op = "some" => ~yes)
  /\ loop.op \in {"every", "values", "reduce", "reduceRight"} => yes
  /\ \/ loop.op = "filter" /\ yes
        /\ \E b \in ReadAt(after, loop.at) : Turned(after, yes, Append(loop.got, b), TRUE)
     \/ loop.op = "count" /\ yes /\ Turned(after, yes, loop.got + 1, FALSE)
     \/ ~(loop.op \in {"filter", "count"} /\ yes) /\ Turned(after, yes, loop.got, FALSE)
  /\ data' = after
  /\ UNCHANGED call

\* A turn of map: what the function returns is appended to the result.
TurnMap(after, args) ==
  /\ loop # None /\ More /\ loop.op = "map"
  /\ LET a == do_append(loop.got, args) IN a.ok /\ Turned(after, args, a.bytes, FALSE)
  /\ data' = after
  /\ UNCHANGED call

\* The method returns the result, or an exception leaves it.
Ended(after, result, ok) ==
  /\ data' = after
  /\ call' = [op |-> loop.op, input |-> loop, before |-> data, result |-> result, ok |-> ok]
  /\ loop' = None

\* Mutant of Stop: the other answer ends the loop.
StopOther(after) ==
  /\ loop # None /\ More /\ loop.op \in {"every", "some"}
  /\ Ended(after, loop.op = "every", TRUE)

\* every has been answered no, some yes.
Stop(after) ==
  /\ loop # None /\ More /\ loop.op \in {"every", "some"}
  /\ Ended(after, loop.op = "some", TRUE)

\* The function throws, or map cannot use what it returns.
Break(after) == loop # None /\ More /\ Ended(after, None, FALSE)

End ==
  /\ loop # None /\ ~More
  /\ Ended(data, CASE loop.op \in {"filter", "map", "count"} -> loop.got
                   [] loop.op = "every" -> TRUE
                   [] loop.op = "some" -> FALSE
                   [] OTHER -> None, TRUE)

-----------------------------------------------------------------------------
Inspect ==
  \/ \E b \in Position, e \in Optional : Slice(b, e) \/ Substr(b, e) \/ Substring(b, e)
  \/ \E x \in Byte \cup {Bad}, s \in Optional, e \in Optional : IndexOf(x, s, e) \/ LastIndexOf(x, s, e)
  \/ \E delims \in Delims, count \in {None, 0, 1, 2}, include \in BOOLEAN : Split(delims, count, include)
  \/ \E args \in Arguments : Concat(args)
  \/ \E i \in Position : Get(i) \/ NewOfSize(i)
  \/ \E args \in SeqOf(Byte \cup {Bad}, 2) : NewOfBytes(args)
  \/ \E bytes \in Arrays : NewOfText(bytes)
  \/ \E elements \in SeqOf(SeqOf(Byte \cup {Bad, Self}, 1), 2), b \in Byte : Join(elements, <<b>>)
  \/ Copy

Change ==
  \/ \E args \in Arguments : append(args) \/ prepend(args)
  \/ \E b \in Position, e \in Optional : erase(b, e)
  \/ \E b \in Position, args \in Arguments : insert(b, args)
  \/ \E b \in Position, e \in Optional, args \in Arguments : displace(b, e, args) \/ splice(b, e, args)
  \/ \E i \in Position, x \in Byte \cup {Bad} : SetElement(i, x)
  \/ \E l \in 0 .. MaxLength : set_length(l)
  \/ pop \/ shift \/ reverse \/ sort \/ SortBy

Loop ==
  \/ \E after \in Arrays :
       \/ \E yes \in BOOLEAN : Turn(after, yes)
       \/ \E args \in SeqOf(Byte, 1) : TurnMap(after, args)
       \/ Stop(after) \/ Break(after)
  \/ End

ArrayNext ==
  \/ Idle /\ (Inspect \/ Change \/ \E op \in LoopOp : Start(op))
  \/ loop # None /\ Loop
  \/ Return

ArraySpec == ArrayInit /\ [][ArrayNext]_arrayVars

-----------------------------------------------------------------------------
(* References *)

\* A position counted from either end, as JavaScript's arrays do.
Place(s, i) == IF i < 0 THEN Greatest(Len(s) + i, 0) ELSE Least(i, Len(s))
To(s, e) == IF e = None THEN Len(s) ELSE Place(s, e)

\* How many bytes behind first a count takes.
Count(s, first, c) == IF c = None THEN Len(s) - first ELSE Least(Greatest(c, 0), Len(s) - first)

Between(s, first, last) == [i \in 1 .. Greatest(last - first, 0) |-> s[first + i]]

\* The call has put new between what stood before first and behind last.
Replaced(first, last, new) ==
  LET s == call.before
  IN  Self \notin ToSet(new) =>
        data = Between(s, 0, first) \o new \o Between(s, Greatest(first, last), Len(s))

\* d starts in s behind at least first of its bytes, and before the last-th.
StartsIn(s, d, first, last) ==
  \E i \in first .. last - 1 : i + Len(d) <= Len(s) /\ SubSeq(s, i + 1, i + Len(d)) = d

\* The pieces among what split has returned.
PiecesOf(in, result) ==
  IF in.include THEN [i \in 1 .. (Len(result) + 1) \div 2 |-> result[2 * i - 1]] ELSE result

\* s is the pieces p, with the delimiters d behind all but the last; none
\* in E starts in these, and in the last only if that may hold some.
CutOut(s, p, d, E, whole) ==
  LET cut == [i \in DOMAIN d |-> p[i] \o d[i]]
      Offset(i) == Len(FlattenSeq(SubSeq(cut, 1, i - 1)))
  IN  /\ FlattenSeq(cut) \o p[Len(p)] = s
      /\ \A i \in DOMAIN d, e \in E : ~StartsIn(s, e, Offset(i), Offset(i) + Len(p[i]))
      /\ whole => \A e \in E : ~StartsIn(s, e, Offset(Len(p)), Len(s))

\* A byte is put to r if it is kept.
Kept(r, e) == IF e.kept THEN Append(r, e.byte) ELSE r

-----------------------------------------------------------------------------
(* Properties *)

\* The state has its types.
ArrayTypeOK ==
  /\ data \in Seq(Byte)
  /\ call # None => call.before \in Seq(Byte) /\ call.ok \in BOOLEAN
  /\ loop # None => loop.op \in LoopOp /\ loop.at \in -1 .. MaxLength

\* append, prepend, erase, displace, insert and splice that succeed put the
\* bytes they are given in the place of the range their positions mean in
\* JavaScript, keep all others in their order, and return the new length,
\* or what was there.  An array among its own arguments is doubled by
\* append, where it comes first; elsewhere it stands for a part of itself.
Splices ==
  call # None /\ call.ok =>
    LET s == call.before
        in == call.input
        first == Place(s, in[1])
        last == first + Count(s, first, in[2])
    IN  CASE call.op = "append" ->
               /\ Replaced(Len(s), Len(s), in)
               /\ in = <<Self>> => data = s \o s
               /\ call.result = Len(data)
          [] call.op = "prepend" -> Replaced(0, 0, in) /\ call.result = Len(data)
          [] call.op = "erase" -> Replaced(first, To(s, in[2]), <<>>) /\ call.result = Len(data)
          [] call.op = "insert" -> Replaced(first, first, in[2]) /\ call.result = Len(data)
          [] call.op = "displace" -> Replaced(first, To(s, in[2]), in[3]) /\ call.result = Len(data)
          [] call.op = "splice" -> Replaced(first, last, in[3]) /\ call.result = Between(s, first, last)
          [] OTHER -> TRUE

\* A call that throws leaves all bytes that stand before its place; append
\* has its place at the end and loses nothing.
FailureKeepsHead ==
  call # None /\ ~call.ok /\ call.op \notin LoopOp =>
    LET s == call.before
        kept == CASE call.op \in {"prepend", "sort"} -> 0
                  [] call.op \in {"displace", "insert", "splice"} -> Place(s, call.input[1])
                  [] OTHER -> Len(s)
    IN  IsPrefix(Between(s, 0, kept), data)

\* The positions of get, slice, substr, substring, indexOf and lastIndexOf
\* mean what they mean in JavaScript, but that a search from the back takes
\* the same range as one from the front, and that get does not throw for the
\* position of the end (binary.cpp:263).
Positions ==
  call # None /\ call.ok =>
    LET s == call.before
        in == call.input
        first == Place(s, in[1])
        a == Least(Greatest(in[1], 0), Len(s))
        b == IF in[2] = None THEN Len(s) ELSE Least(Greatest(in[2], 0), Len(s))
        stop == IF in[3] \in 0 .. Len(s) - 1 THEN in[3] + 1 ELSE Len(s)
        searched == Between(s, 0, stop)
        From(i) == i >= (IF in[2] = None THEN 0 ELSE in[2])
    IN  CASE call.op = "get" -> in[1] = Len(s) \/ (in[1] \in 0 .. Len(s) - 1 /\ call.result = s[in[1] + 1])
          [] call.op = "slice" -> call.result = Between(s, first, To(s, in[2]))
          [] call.op = "substr" -> call.result = Between(s, first, first + Count(s, first, in[2]))
          [] call.op = "substring" -> call.result = Between(s, Least(a, b), Greatest(a, b))
          [] call.op \in {"indexOf", "lastIndexOf"} ->
               LET hit(i) == i + 1 \in DOMAIN searched /\ searched[i + 1] = in[1] /\ From(i)
               IN  IF call.result = -1 THEN \A i \in 0 .. Len(s) : ~hit(i)
                   ELSE /\ hit(call.result)
                        /\ \A i \in 0 .. Len(s) :
                             hit(i) => IF call.op = "indexOf" THEN i >= call.result ELSE i <= call.result
          [] OTHER -> TRUE

\* split loses and invents nothing: its pieces with delimiters between them
\* are the data; no delimiter starts in a piece but the last, which has one
\* only if the count is reached.  join with a single delimiter undoes it.
SplitRejoins ==
  call # None /\ call.op = "split" /\ call.ok =>
    LET in == call.input
        p == PiecesOf(in, call.result)
        E == ToSet(in.delims)
    IN  /\ in.count # None => Len(p) <= Greatest(in.count, 1)
        /\ \E d \in [1 .. Len(p) - 1 -> E] :
             /\ in.include => \A i \in DOMAIN d : d[i] = call.result[2 * i]
             /\ CutOut(call.before, p, d, E, Len(p) # in.count /\ in.count # 0)
        /\ ~in.include /\ Len(in.delims) = 1 =>
             Joined(call.result, in.delims[1]) = [bytes |-> call.before, ok |-> TRUE]

\* reverse and sort move bytes and change none; a sort that is left by an
\* exception of its function makes no bytes of its own (binary.cpp:624-638).
HowOften(s, b) == Cardinality({i \in DOMAIN s : s[i] = b})
Rearranges ==
  call # None /\ call.op \in {"reverse", "sort"} =>
    /\ Len(data) = Len(call.before) /\ ToSet(data) \subseteq ToSet(call.before)
    /\ call.ok => \A b \in Byte : HowOften(data, b) = HowOften(call.before, b)

\* If the function leaves the array alone, it is given each byte once, in
\* order, until an answer decides, and the result is made of its answers.
Answers ==
  call # None /\ call.op \in LoopOp /\ call.ok /\ call.input.same =>
    LET l == call.input
        s == IF call.op = "reduceRight" THEN Reverse(call.before) ELSE call.before
        yes == {i \in DOMAIN l.answers : l.answers[i] = TRUE}
        all == Len(l.answers) = Len(s)
    IN  /\ l.given = SubSeq(s, 1, Len(l.answers))
        /\ CASE call.op = "every" -> call.result <=> all
             [] call.op = "some" -> call.result <=> ~all
             [] call.op = "count" -> all /\ call.result = Cardinality(yes)
             [] call.op = "filter" -> all /\ call.result = FoldLeft(Kept, <<>>, [i \in DOMAIN s |-> [byte |-> s[i], kept |-> i \in yes]])
             [] call.op = "map" -> all /\ call.result = FlattenSeq(l.answers)
             [] OTHER -> all

\* Whatever the function does, no loop reads behind the data unless the
\* function has shortened the array.
ReadsInside == loop # None /\ loop.stray => loop.shortened

\* All of the above.
ArraySound ==
  /\ ArrayTypeOK /\ Splices /\ FailureKeepsHead /\ Positions
  /\ SplitRejoins /\ Rearranges /\ Answers /\ ReadsInside
=============================================================================
