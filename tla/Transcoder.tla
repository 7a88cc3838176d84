----------------------------- MODULE Transcoder -----------------------------
(***************************************************************************)
(* encodings.Transcoder: one object, the chunks pushed through it, what it *)
(* accumulates, what it keeps of a character that a chunk cuts, and what   *)
(* script gets.  The converter, iconv, is external: it is one from an      *)
(* encoding with characters of one and of two bytes to an encoding with    *)
(* two character sets, which writes a shift sequence at each change, as    *)
(* from Shift_JIS to ISO-2022-JP.  convert, convertToString and            *)
(* convertFromString make a Transcoder of their own for one input.         *)
(*                                                                         *)
(* The input and the output of one push are different objects.             *)
(***************************************************************************)
EXTENDS Naturals, Sequences, SequencesExt

CONSTANTS
  Chunk,    \* the inputs of a push
  Texts,    \* the inputs of a conversion in one go
  Slack,    \* bytes by which the first estimate of the output exceeds the input
  MaxPushes \* bound: pushes

\* Bytes: of a character "a"; the two of another one; zero, a character too.
InByte == {"a", "L", "T", "0"}
\* Output: characters, shifts to the second set and back.
Out == {"a", "D", "0", "(", ")"}

ASSUME ChunkAssumption == Chunk \subseteq Seq(InByte \ {"0"}) /\ Texts \subseteq Seq(InByte)
ASSUME CoderBoundAssumption == Slack \in Nat \ {0} /\ MaxPushes \in Nat

VARIABLES
  conv,      \* the descriptor is open
  shifted,   \* external: the converter is in the second character set
  part,      \* multibyte_part
  acc,       \* accumulator
  received,  \* what script has got, in order
  fed,       \* the bytes of all pushes
  pushes,    \* how many pushes there were
  joined,    \* a push was made while part of a character was kept
  outgrown,  \* a push has started again with more space
  failed,    \* a push has thrown
  once       \* the conversion in one go that has just ended

coderVars == <<conv, shifted, part, acc, received, fed, pushes, joined, outgrown, failed, once>>

Zeros(k) == [i \in 1 .. k |-> "0"]

-----------------------------------------------------------------------------
(* External: iconv *)

\* One character goes to the output, after a shift if it needs one.
PutChar(r, char) ==
  LET new == IF r.shifted = (char = "D") THEN <<char>>
             ELSE IF r.shifted THEN <<")", char>> ELSE <<"(", char>>
  IN  IF Len(r.out) + Len(new) > r.room THEN [r EXCEPT !.code = "E2BIG"]
      ELSE [r EXCEPT !.out = r.out \o new, !.shifted = (char = "D"), !.lead = FALSE]

Feed(r, byte) ==
  CASE r.code # "ok" -> r
    [] r.code = "ok" /\ r.lead = (byte # "T") -> [r EXCEPT !.code = "EILSEQ"]
    [] r.code = "ok" /\ r.lead /\ byte = "T" -> PutChar(r, "D")
    [] r.code = "ok" /\ ~r.lead /\ byte = "L" -> [r EXCEPT !.lead = TRUE]
    [] r.code = "ok" /\ ~r.lead /\ byte \in {"a", "0"} -> PutChar(r, byte)

Iconv(in, from, room) ==
  LET r == FoldLeft(Feed, [out |-> <<>>, shifted |-> from, lead |-> FALSE,
                           room |-> room, code |-> "ok", again |-> FALSE], in)
  IN  IF r.code = "ok" /\ r.lead THEN [r EXCEPT !.code = "EINVAL"] ELSE r

\* The end of the output, back in the first set; also what becomes of an
\* empty input at a null pointer.
Closing(from) == IF from THEN <<")">> ELSE <<>>

-----------------------------------------------------------------------------
(* do_push *)

\* Mutant of Left: what is at the start of the output is taken.
LeftStart(r) == r.out

\* The space of the output that has not been written to.
Left(r) == Zeros(r.room - Len(r.out))

\* The output was too small: the whole input again, with twice the space.
Retry(in, r) == [Iconv(in, r.shifted, 2 * r.room) EXCEPT !.again = TRUE]
Retried(r, in) == IF r.code = "E2BIG" THEN Retry(in, r) ELSE r

\* Until there is space enough; there is after as many retries as bytes.
Converted(in, from) ==
  FoldLeft(Retried, Iconv(in, from, Len(in) + Slack), [i \in 1 .. Len(in) |-> in])

\* The outcomes of converting the chunk from a state of the Transcoder: what
\* is added to the output, what is kept, the state of the converter, and
\* whether an exception is thrown.  The kept bytes are extended in place, and
\* are taken from what is left of the output; an exception leaves all of the
\* space in it.
Outcomes(open, from, kept, chunk) ==
  LET in == kept \o chunk
      extended == IF kept = <<>> THEN <<>> ELSE in
      r == Converted(in, from)
      Outcome(out, keeps, to, throws) ==
        [out |-> out, part |-> keeps, shifted |-> to, throws |-> throws, again |-> r.again]
  IN  IF ~open THEN {Outcome(Zeros(Len(in) + Slack), extended, from, TRUE)}
      ELSE IF in = <<>> THEN {Outcome(<<>>, <<>>, from, FALSE), Outcome(Closing(from), <<>>, FALSE, FALSE)}
      ELSE CASE r.code = "ok" -> {Outcome(r.out, extended, r.shifted, FALSE)}
             [] r.code = "EINVAL" -> {Outcome(r.out, Left(r), r.shifted, FALSE)}
             [] OTHER -> {Outcome(r.out \o Left(r), extended, r.shifted, TRUE)}

-----------------------------------------------------------------------------
NotConverted == [in |-> <<>>, out |-> <<>>, ok |-> TRUE, again |-> FALSE, opened |-> TRUE]

CoderInit ==
  /\ conv = TRUE /\ shifted = FALSE
  /\ part = <<>> /\ acc = <<>>
  /\ received = <<>> /\ fed = <<>> /\ pushes = 0
  /\ joined = FALSE /\ outgrown = FALSE /\ failed = FALSE
  /\ once = NotConverted

\* What a push does to all but its output.
DoPush(chunk, o) ==
  /\ pushes < MaxPushes
  /\ pushes' = pushes + 1
  /\ part' = o.part /\ shifted' = o.shifted
  /\ fed' = fed \o chunk
  /\ joined' = (joined \/ part # <<>>)
  /\ outgrown' = (outgrown \/ o.again)
  /\ failed' = (failed \/ o.throws)
  /\ once' = NotConverted
  /\ UNCHANGED conv

\* append_accumulator
Accumulated(output) == output \o acc

\* Mutant of Push: what was accumulated comes after what is converted.
PushLate(chunk) ==
  \E o \in Outcomes(conv, shifted, part, chunk) :
    /\ DoPush(chunk, o)
    /\ acc' = <<>>
    /\ received' = received \o o.out \o acc

\* push(chunk, output): an output that was passed in keeps what was written
\* to it, one that was made for this push is lost by an exception, and what
\* had been accumulated with it.
Push(chunk) ==
  \E o \in Outcomes(conv, shifted, part, chunk) :
    /\ DoPush(chunk, o)
    /\ acc' = <<>>
    /\ \/ received' = Accumulated(received) \o o.out
       \/ o.throws /\ UNCHANGED received

PushAccumulate(chunk) ==
  \E o \in Outcomes(conv, shifted, part, chunk) :
    /\ DoPush(chunk, o)
    /\ acc' = acc \o o.out
    /\ UNCHANGED received

\* Mutant of Close: the converter is not asked for the end of its output.
CloseShifted ==
  /\ part = <<>>
  /\ received' = Accumulated(received)
  /\ acc' = <<>>
  /\ conv' = FALSE /\ shifted' = FALSE
  /\ once' = NotConverted
  /\ UNCHANGED <<part, fed, pushes, joined, outgrown, failed>>

\* close(), also a second time, when there is no converter any more; while
\* part of a character is kept it throws and does nothing.
Close ==
  /\ part = <<>>
  /\ received' = Accumulated(received) \o (IF conv THEN Closing(shifted) ELSE <<>>)
  /\ acc' = <<>>
  /\ conv' = FALSE /\ shifted' = FALSE
  /\ once' = NotConverted
  /\ UNCHANGED <<part, fed, pushes, joined, outgrown, failed>>

\* convert and convertToString: a new Transcoder, the input, and its end,
\* which throws if part of a character is kept.
ConvertOnce(in) ==
  /\ pushes = 0 /\ conv /\ once = NotConverted
  /\ \E o \in Outcomes(TRUE, FALSE, <<>>, in) :
       once' = [in |-> in, out |-> o.out \o Closing(o.shifted), opened |-> TRUE,
                ok |-> ~o.throws /\ o.part = <<>>, again |-> o.again]
  /\ UNCHANGED <<conv, shifted, part, acc, received, fed, pushes, joined, outgrown, failed>>

\* What c_str and strlen leave of a string.
BeforeZero(text) == SelectInSeq(text \o <<"0">>, LAMBDA b : b = "0") - 1

\* convertFromString.
ConvertFromString(text) == ConvertOnce(SubSeq(text, 1, BeforeZero(text)))

\* init throws: there is no such character set.
Unknown(in) ==
  /\ pushes = 0 /\ conv /\ once = NotConverted
  /\ once' = [NotConverted EXCEPT !.in = in, !.ok = FALSE, !.opened = FALSE]
  /\ UNCHANGED <<conv, shifted, part, acc, received, fed, pushes, joined, outgrown, failed>>

CoderNext ==
  \/ \E chunk \in Chunk : Push(chunk) \/ PushAccumulate(chunk)
  \/ Close
  \/ \E in \in Texts : ConvertOnce(in) \/ ConvertFromString(in) \/ Unknown(in)

CoderSpec == CoderInit /\ [][CoderNext]_coderVars

-----------------------------------------------------------------------------
(* What the bytes on both sides mean *)

\* The characters of the input, a cut one at its end left out.
ReadIn(s, b) == CASE b = "T" -> Append(s, "D") [] b = "L" -> s [] OTHER -> Append(s, b)
Chars(bytes) == FoldLeft(ReadIn, <<>>, bytes)

\* The characters of the output, read from the first set on; a character in
\* the wrong set is another one.
ReadOut(s, e) ==
  CASE e = "(" -> [s EXCEPT !.shifted = TRUE]
    [] e = ")" -> [s EXCEPT !.shifted = FALSE]
    [] OTHER -> [s EXCEPT !.chars = Append(s.chars, IF s.shifted = (e = "D") THEN e ELSE "wrong")]
Reading(out) == FoldLeft(ReadOut, [chars |-> <<>>, shifted |-> FALSE], out)

-----------------------------------------------------------------------------
(* Properties *)

\* Whole characters, and perhaps a cut one at the end.
Valid(bytes) ==
  \A i \in DOMAIN bytes :
    /\ bytes[i] = "T" => i > 1 /\ bytes[i - 1] = "L"
    /\ bytes[i] = "L" /\ i < Len(bytes) => bytes[i + 1] = "T"

\* The state has its types.
CoderTypeOK ==
  /\ conv \in BOOLEAN /\ shifted \in BOOLEAN
  /\ part \in Seq(InByte)
  /\ acc \in Seq(Out) /\ received \in Seq(Out)
  /\ fed \in Seq(InByte) /\ pushes \in 0 .. MaxPushes
  /\ joined \in BOOLEAN /\ outgrown \in BOOLEAN /\ failed \in BOOLEAN

\* However the input is cut into chunks of whole characters, pushed or
\* accumulated, the outputs one after the other, and what is still
\* accumulated, are its conversion, as long as no push throws and none has
\* had to start again.  What becomes of the input in the other cases is
\* said by ThrowsInvalid and CorrectOpening, which do not hold.
Converts ==
  ~failed /\ ~joined /\ ~outgrown => Reading(received \o acc).chars = Chars(fed)

\* After close nothing is accumulated and the output is back in the first
\* character set, so that other output can follow it: close appends the
\* sequence that ends it (encodings.cpp:193-202).  The repository's test
\* expects the opposite of close ("ISO-2022-JP->ascii not yet sent",
\* test/js/encodings.js:110-116).
ClosesInFirstSet ==
  ~conv /\ ~failed => acc = <<>> /\ ~Reading(received).shifted

\* A conversion in one go that succeeds gives the characters of its input and
\* ends in the first set, if it has not had to start again; one that throws
\* had no such character set or an input that is invalid or ends within a
\* character (encodings.cpp:60-102).
ConvertsWhole ==
  /\ once.ok /\ ~once.again => Reading(once.out) = [chars |-> Chars(once.in), shifted |-> FALSE]
  /\ ~once.ok /\ once.opened => ~Valid(once.in) \/ Last(once.in) = "L"

\* All of the above.
Transcodes == CoderTypeOK /\ Converts /\ ClosesInFirstSet /\ ConvertsWhole

\* "Invalid multi-byte sequence in input", thrown by do_push: it is thrown
\* for no input that consists of whole characters, and a cut one at its end,
\* however it is split between the pushes.
ThrowsInvalid == [][failed' /\ ~failed /\ conv => ~Valid(fed')]_coderVars

\* "correct ISO-2022-JP opening" (test/js/encodings.js:104-108): what comes out
\* before a character of the second set is the sequence that opens it, in
\* every output of whole characters that were pushed without an exception.
CorrectOpening ==
  ~failed /\ ~joined =>
    \A i \in DOMAIN Reading(received).chars : Reading(received).chars[i] # "wrong"
=============================================================================
