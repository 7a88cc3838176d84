------------------------------- MODULE Stream -------------------------------
(***************************************************************************)
(* A stream of class IO.Stream over what holds its bytes: the array of a   *)
(* BinaryStream, which script and the stream may both change, or a file    *)
(* that is opened and closed (stream, binary_stream, file). A file has one *)
(* position for reading and writing, posRead.                              *)
(***************************************************************************)
EXTENDS Integers, Sequences, SequencesExt, FiniteSets

CONSTANTS
    Bytes,     \* the bytes that data are made of
    Nul,       \* the zero byte
    Chunk,     \* how much is read at a time: 4096 in the code
    InitLen, MaxLen,   \* bounds: the length of the data at first and later
    Lists,     \* the arguments that print is given
    Unset,     \* the value undefined
    NameA, NameB  \* two names of files, the first of which exists

\* Bound: the separators have no zero in them.
ASSUME NulAssumption == Nul \in Bytes \ {"f", "r"}
ASSUME ChunkAssumption == Chunk \in Nat \ {0} /\ {InitLen, MaxLen} \subseteq Nat

(***************************************************************************)
(* The arguments of print, by what their toString does: gives a text,      *)
(* throws, or assigns to recordSeparator. Bound: an array among them has   *)
(* no array in it.                                                         *)
(***************************************************************************)
Single == [text : Seq(Bytes)] \cup [throws : {TRUE}] \cup [assigns : {<<"r">>, <<"f">>}]
Argument == Single \cup [list : Seq(Single)]
ASSUME ListsAssumption == Lists \subseteq Seq(Argument)

VARIABLES
    data,      \* the bytes of the array or the file
    kind,      \* "array", "string" (a ByteString) or "file"
    posRead, posWrite, \* a file has only the first
    fileOpen,  \* the file that the stream buffer has open, or Unset
    fileName,  \* the property fileName
    field, record,   \* the properties fieldSeparator and recordSeparator
    whole,     \* the call of readWholeBinary under way
    prints,    \* the calls of print under way, the innermost first
    got,       \* what script has been given since the beginning of the data
    straight,  \* whether got is all, in order, of data that have not changed
    set,       \* what script last assigned to recordSeparator
    undone,    \* whether it was assigned to, or thrown from, in a nested print
    printed    \* the last print: what it wrote and what it should write

vars == <<data, kind, posRead, posWrite, fileOpen, fileName, field, record,
          whole, prints, got, straight, set, undone, printed>>

device == <<data, posWrite>>
file == <<kind, fileOpen, fileName>>
reading == <<posRead, got, straight>>
printing == <<prints, record, set, undone, printed>>

Idle == whole = <<>> /\ prints = <<>>

-----------------------------------------------------------------------------
(***************************************************************************)
(* binary_device and the file buffer: what can be read, and what a write   *)
(* makes of the array. A write beyond the end fills the gap with zeros; a  *)
(* ByteString takes nothing.                                               *)
(***************************************************************************)
Readable == kind = "file" => fileOpen # Unset

Left == IF Readable /\ posRead <= Len(data) THEN Len(data) - posRead ELSE 0

Take(n) == SubSeq(data, posRead + 1, posRead + (IF n < Left THEN n ELSE Left))

Zeros(n) == [i \in 1..n |-> Nul]

Written(pos, s) ==
    LET grown == IF pos + Len(s) > Len(data)
                 THEN data \o Zeros(pos + Len(s) - Len(data)) ELSE data
    IN [i \in DOMAIN grown |-> IF i \in pos + 1 .. pos + Len(s) THEN s[i - pos] ELSE grown[i]]

\* Mutant of DeviceWrite: not only an array is written to.
DeviceWriteAll(s) ==
    /\ data' = Written(posWrite, s)
    /\ posWrite' = posWrite + Len(s)
    /\ straight' = (straight /\ posWrite >= posRead)
    /\ UNCHANGED <<posRead, got>>

ArrayWrite(s) ==
    /\ data' = Written(posWrite, s)
    /\ posWrite' = posWrite + Len(s)
    /\ straight' = (straight /\ posWrite >= posRead)
    /\ UNCHANGED <<posRead, got>>

\* What is written to a file is not read until it is opened again.
FileWrite(s) ==
    /\ data' = Written(posRead, s)
    /\ posRead' = posRead + Len(s)
    /\ straight' = FALSE /\ got' = <<>>
    /\ UNCHANGED posWrite

Writable == kind = "array" \/ (kind = "file" /\ fileOpen # Unset)

DeviceWrite(s) ==
    \/ kind = "array" /\ ArrayWrite(s)
    \/ kind = "file" /\ Writable /\ FileWrite(s)
    \/ ~Writable /\ UNCHANGED <<device, reading>>

-----------------------------------------------------------------------------
Init ==
    /\ data \in SeqOf(Bytes, InitLen)
    /\ kind \in {"array", "string", "file"}
    /\ posRead = 0 /\ posWrite = 0
    /\ fileOpen = Unset /\ fileName = Unset
    /\ field = <<"f">> /\ record = <<"r">> /\ set = <<"r">>
    /\ whole = <<>> /\ prints = <<>>
    /\ got = <<>> /\ straight = TRUE /\ undone = FALSE
    /\ printed = [want |-> <<>>, have |-> <<>>]

(***************************************************************************)
(* Script gets s, for which n bytes have been taken; cut, if not all of    *)
(* what was taken can be given.                                            *)
(***************************************************************************)
Gives(s, n, cut) ==
    /\ posRead' = posRead + n
    /\ straight' = (straight /\ ~cut)
    /\ got' = IF straight' THEN got \o s ELSE <<>>

(***************************************************************************)
(* The characters before the first zero: string(buf.get()).                *)
(***************************************************************************)
Text(s) == SubSeq(s, 1, SelectInSeq(s \o <<Nul>>, LAMBDA b : b = Nul) - 1)

read(n) ==
    /\ Idle
    /\ LET s == Take(IF n = 0 THEN Chunk ELSE n) IN Gives(Text(s), Len(s), Nul \in ToSet(s))
    /\ UNCHANGED <<device, file, field, whole, printing>>

(***************************************************************************)
(* One byte after the other, up to the separator or the end.               *)
(***************************************************************************)
Consumed(sep) ==
    LET rest == Take(Left)
    IN IF sep \in ToSet(rest) THEN SelectInSeq(rest, LAMBDA b : b = sep) ELSE Left

\* Mutant of Line: the separator is taken off.
LineWithout(sep) == SelectSeq(Take(Consumed(sep)), LAMBDA b : b # sep)

Line(sep) == Take(Consumed(sep))

read_line(sep) ==
    /\ Idle
    /\ Gives(Line(sep), Consumed(sep), FALSE)
    /\ UNCHANGED <<device, file, field, whole, printing>>

read_whole ==
    /\ Idle
    /\ Gives(Take(Left), Left, FALSE)
    /\ UNCHANGED <<device, file, field, whole, printing>>

-----------------------------------------------------------------------------
(***************************************************************************)
(* The binary readers append n bytes to the output, read into them, and    *)
(* cut what was not read. The output may be the array that is read: then   *)
(* the bytes appended can be read, too, while they are being overwritten   *)
(* (memcpy), and what they are read as is anything.                        *)
(***************************************************************************)
ReadsItself(n) ==
    LET old == Len(data)
        m == IF posRead > old + n THEN 0 ELSE IF posRead > old THEN old + n - posRead ELSE n
    IN
    /\ kind = "array" /\ old + m <= MaxLen
    /\ \E s \in [1..m -> Bytes] :
          /\ \A i \in 1..m : posRead + i <= old => s[i] = data[posRead + i]
          /\ data' = data \o s
    /\ posRead' = posRead + m
    /\ straight' = (straight /\ m = 0)
    /\ UNCHANGED <<got, posWrite>>

read_binary(n, itself) ==
    LET size == IF n = 0 THEN Chunk ELSE n IN
    /\ Idle
    /\ \/ /\ ~itself
          /\ Gives(Take(size), Len(Take(size)), FALSE)
          /\ UNCHANGED device
       \/ itself /\ ReadsItself(size)
    /\ UNCHANGED <<file, field, whole, printing>>

(***************************************************************************)
(* readWholeBinary, a loop that ends when nothing has been read.           *)
(***************************************************************************)
read_whole_binary(itself) ==
    /\ Idle /\ (itself => kind = "array")
    /\ whole' = <<itself>>
    /\ UNCHANGED <<device, file, reading, field, printing>>

\* Mutant of NextChunk: an empty chunk does not end the loop.
NextChunkUntilNegative ==
    /\ whole = <<FALSE>>
    /\ Gives(Take(Chunk), Len(Take(Chunk)), FALSE)
    /\ whole' = IF Len(Take(Chunk)) >= 0 THEN whole ELSE <<>>
    /\ UNCHANGED <<device, file, field, printing>>

NextChunk ==
    /\ whole = <<FALSE>>
    /\ Gives(Take(Chunk), Len(Take(Chunk)), FALSE)
    /\ whole' = IF Left > 0 THEN whole ELSE <<>>
    /\ UNCHANGED <<device, file, field, printing>>

NextChunkOfItself ==
    /\ whole = <<TRUE>>
    /\ ReadsItself(Chunk)
    /\ whole' = IF posRead' = posRead THEN <<>> ELSE whole
    /\ UNCHANGED <<file, field, printing>>

-----------------------------------------------------------------------------
(***************************************************************************)
(* write: a string up to its first zero, or a Binary. A file that has been *)
(* read from may refuse what is written (std::filebuf asks for a seek      *)
(* between the two). The array itself may move while it is being written   *)
(* to: what is then read from its old place is anything.                   *)
(***************************************************************************)
write(s) ==
    /\ Idle /\ posWrite + Len(s) <= MaxLen /\ (kind = "file" => posRead + Len(s) <= MaxLen)
    /\ \/ DeviceWrite(s)
       \/ kind = "file" /\ UNCHANGED <<device, reading>>
    /\ UNCHANGED <<file, field, whole, printing>>

WriteItself ==
    /\ Idle /\ kind = "array" /\ posWrite + Len(data) <= MaxLen
    /\ \E s \in {data} \cup (IF posWrite = 0 THEN {} ELSE [DOMAIN data -> Bytes]) : DeviceWrite(s)
    /\ UNCHANGED <<file, field, whole, printing>>

(***************************************************************************)
(* Script cuts the array behind the stream's back.                         *)
(***************************************************************************)
Resize(n) ==
    /\ Idle /\ kind = "array" /\ n < Len(data)
    /\ data' = SubSeq(data, 1, n)
    /\ straight' = (straight /\ posRead <= n)
    /\ UNCHANGED <<posWrite, file, posRead, got, field, whole, printing>>

-----------------------------------------------------------------------------
(***************************************************************************)
(* file: opening an open one fails, but names it; closing does not take    *)
(* the permanent property away.                                            *)
(***************************************************************************)
open(name) ==
    /\ Idle /\ kind = "file"
    /\ fileName' = name
    /\ IF fileOpen = Unset /\ name = NameA
       THEN /\ fileOpen' = name
            /\ posRead' = 0 /\ got' = <<>> /\ straight' = TRUE
       ELSE UNCHANGED <<fileOpen, reading>>
    /\ UNCHANGED <<device, kind, field, whole, printing>>

close ==
    /\ Idle /\ kind = "file"
    /\ fileOpen' = Unset
    /\ UNCHANGED <<device, kind, fileName, reading, field, whole, printing>>

-----------------------------------------------------------------------------
(***************************************************************************)
(* print. A call has its arguments, the next of them, the delimiter it     *)
(* read at its beginning, and, while it prints an array by calling print   *)
(* again, the recordSeparator that it will put back. Bound: it prints at   *)
(* the beginning of an empty array or of an empty file that is open.       *)
(***************************************************************************)
Call(args) == [args |-> args, next |-> 1, delim |-> IF field = Unset THEN <<>> ELSE field,
               saved |-> Unset, from |-> posWrite]

print(args) ==
    /\ Idle /\ Writable /\ data = <<>> /\ posWrite = 0 /\ (kind = "file" => posRead = 0)
    /\ prints' = <<Call(args)>>
    /\ UNCHANGED <<device, file, reading, field, whole, record, set, undone, printed>>

Item == prints[1].args[prints[1].next]
HasItem == prints # <<>> /\ prints[1].next <= Len(prints[1].args)
Is(what) == HasItem /\ what \in DOMAIN Item

\* Mutant of Delim: one follows the last argument, too.
DelimAlways(call) == call.delim

(***************************************************************************)
(* The delimiter follows every argument but the last.                      *)
(***************************************************************************)
Delim(call) == IF call.next < Len(call.args) THEN call.delim ELSE <<>>

After(call) == [call EXCEPT !.next = @ + 1]

\* What is written of a text ends at its first zero.
PrintText ==
    /\ Is("text")
    /\ DeviceWrite(Text(Item.text) \o Delim(prints[1]))
    /\ prints' = [prints EXCEPT ![1] = After(@)]
    /\ UNCHANGED <<file, field, whole, record, set, undone, printed>>

(***************************************************************************)
(* The conversion of an argument assigns to recordSeparator. The print     *)
(* around it, if there is one, will put back what it has saved.            *)
(***************************************************************************)
PrintAssigns ==
    /\ Is("assigns")
    /\ record' = Item.assigns /\ set' = Item.assigns
    /\ undone' = (undone \/ Len(prints) > 1)
    /\ DeviceWrite(Delim(prints[1]))
    /\ prints' = [prints EXCEPT ![1] = After(@)]
    /\ UNCHANGED <<file, field, whole, printed>>

PrintThrows ==
    /\ Is("throws")
    /\ undone' = (undone \/ Len(prints) > 1)
    /\ prints' = <<>>
    /\ UNCHANGED <<device, file, reading, field, whole, record, set, printed>>

PrintList ==
    /\ Is("list")
    /\ record' = Unset
    /\ prints' = <<Call(Item.list)>> \o [prints EXCEPT ![1].saved = record]
    /\ UNCHANGED <<device, file, reading, field, whole, set, undone, printed>>

(***************************************************************************)
(* What print is meant to write: the arguments, an array's elements among  *)
(* them, each up to its first zero, each but the last followed by the      *)
(* delimiter, then the separator.                                          *)
(***************************************************************************)
Joint(s, part) == s \o part

Joined(parts, delim) ==
    FoldLeft(Joint, <<>>,
             [i \in DOMAIN parts |-> parts[i] \o (IF i < Len(parts) THEN delim ELSE <<>>)])

TextOf(a) == IF "text" \in DOMAIN a THEN Text(a.text) ELSE <<>>

PartOf(a, delim) ==
    IF "list" \in DOMAIN a
    THEN Joined([i \in DOMAIN a.list |-> TextOf(a.list[i])], delim)
    ELSE TextOf(a)

Meant(call, end) ==
    Joined([i \in DOMAIN call.args |-> PartOf(call.args[i], call.delim)], call.delim) \o end

(***************************************************************************)
(* The end of a print: the separator, if there is one. A print of an array *)
(* goes back to the one that has called it, which puts its own back and    *)
(* goes on with the next argument.                                         *)
(***************************************************************************)
End == IF record = Unset THEN <<>> ELSE record

\* Mutant of PutBack: the separator stays as the nested print has left it.
PutBackNothing(outer) == record' = record

PutBack(outer) == record' = outer.saved

PrintEnds ==
    /\ prints # <<>> /\ ~HasItem
    /\ IF Len(prints) = 1
       THEN /\ DeviceWrite(End)
            /\ printed' = IF undone THEN printed
                          ELSE [want |-> Meant(prints[1], IF set = Unset THEN <<>> ELSE set),
                                have |-> SubSeq(data', prints[1].from + 1, Len(data'))]
            /\ prints' = <<>>
            /\ UNCHANGED record
       ELSE /\ DeviceWrite(End \o Delim(prints[2]))
            /\ PutBack(prints[2])
            /\ prints' = [Tail(prints) EXCEPT ![1] = After(@)]
            /\ UNCHANGED printed
    /\ UNCHANGED <<file, field, whole, set, undone>>

(***************************************************************************)
(* Script assigns to a separator between two calls.                        *)
(***************************************************************************)
AssignRecord(r) ==
    /\ Idle
    /\ record' = r /\ set' = r /\ undone' = FALSE
    /\ UNCHANGED <<device, file, reading, field, whole, prints, printed>>

AssignField(f) ==
    /\ Idle
    /\ field' = f
    /\ UNCHANGED <<device, file, reading, whole, printing>>

-----------------------------------------------------------------------------
Next ==
    \/ \E n \in 0..2 : read(n) \/ read_binary(n, FALSE) \/ read_binary(n, TRUE)
    \/ \E b \in Bytes : read_line(b) \/ write(<<b>>) \/ write(Text(<<b>>))
    \/ read_whole
    \/ \E itself \in BOOLEAN : read_whole_binary(itself)
    \/ NextChunk
    \/ NextChunkOfItself
    \/ WriteItself
    \/ \E n \in 0..1 : Resize(n)
    \/ open(NameA)
    \/ open(NameB)
    \/ close
    \/ \E args \in Lists : print(args)
    \/ PrintText
    \/ PrintAssigns
    \/ PrintThrows
    \/ PrintList
    \/ PrintEnds
    \/ AssignRecord(Unset)
    \/ AssignRecord(<<"r">>)
    \/ AssignField(Unset)

(***************************************************************************)
(* A loop within one call goes on: it waits for nothing but the file.      *)
(***************************************************************************)
Spec == Init /\ [][Next]_vars /\ WF_vars(NextChunk) /\ WF_vars(NextChunkOfItself)

-----------------------------------------------------------------------------
TypeOK ==
    /\ data \in Seq(Bytes \cup {"f", "r"})
    /\ kind \in {"array", "string", "file"}
    /\ posRead \in Nat /\ posWrite \in Nat
    /\ fileOpen \in {Unset, NameA} /\ fileName \in {Unset, NameA, NameB}
    /\ field \in {Unset, <<"f">>} /\ {record, set} \subseteq {Unset, <<"r">>, <<"f">>}
    /\ whole \in {<<>>, <<TRUE>>, <<FALSE>>}
    /\ Len(prints) \in 0..2
    /\ straight \in BOOLEAN /\ undone \in BOOLEAN
    /\ kind # "array" => posWrite = 0

(***************************************************************************)
(* Whatever reads script mixes, of any size, by line, whole, text and      *)
(* binary, together they have given it the data from the beginning, each   *)
(* byte once; unless a text had a zero in it, which cuts it                *)
(* (stream.cpp:110), what had been read was changed afterwards, or a file  *)
(* was written to and has not been opened again: an array that is only     *)
(* written to at its end is a queue.                                       *)
(***************************************************************************)
ReadsInOrder ==
    straight => got = SubSeq(data, 1, posRead) /\ posRead <= Len(data)

(***************************************************************************)
(* print writes what its documentation says, an array like its elements    *)
(* but without the separator after them, and of each text what comes       *)
(* before its first zero (stream.cpp:143-147); as long as recordSeparator  *)
(* is what script has assigned, see SeparatorPrinted.                      *)
(***************************************************************************)
PrintsJoined == printed.have = printed.want

(***************************************************************************)
(* Between two calls recordSeparator is what script has assigned, unless a *)
(* nested print has thrown or its arguments have assigned to it            *)
(* (stream.cpp:184-186).                                                   *)
(***************************************************************************)
SeparatorKept == Idle /\ ~undone => record = set

(***************************************************************************)
(* "Printed at the end of each print call" (io.jsdoc:103-108): a print     *)
(* that returns has written, at the end, the recordSeparator that script   *)
(* has assigned.                                                           *)
(***************************************************************************)
SeparatorPrinted ==
    [][PrintEnds /\ prints' = <<>> /\ set # Unset => IsSuffix(set, data')]_vars

(***************************************************************************)
(* TypeOK, ReadsInOrder, PrintsJoined and SeparatorKept: under the         *)
(* conditions named there nothing that goes through the streams is lost,   *)
(* comes twice or is joined wrongly.                                       *)
(***************************************************************************)
StreamsSound == TypeOK /\ ReadsInOrder /\ PrintsJoined /\ SeparatorKept

(***************************************************************************)
(* readWholeBinary returns, unless its output is the array that is read,   *)
(* of which there is always more.                                          *)
(***************************************************************************)
WholeEnds == whole = <<FALSE>> ~> whole = <<>>
=============================================================================
