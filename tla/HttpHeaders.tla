---------------------------- MODULE HttpHeaders ----------------------------
(***************************************************************************)
(* The headers of an HTTP message (js/http/headers.js): reading them from  *)
(* lines and writing them again. A line is a field [name, val], the        *)
(* continuation of one [cont |-> text], a line without a colon             *)
(* [junk |-> text], or empty, each ended by CRLF; [unended |-> line] is    *)
(* one that is not. Names and values are sequences of texts, of which "_"  *)
(* and "-" are two.                                                        *)
(***************************************************************************)
EXTENDS Naturals, Sequences, SequencesExt, FiniteSets

CONSTANTS
    Known,      \* the known names, in the order in which they are written
    Canonical,  \* for every spelling of a known name, that name
    Inherited   \* the names of properties that every object has, toString and the like

Text == Seq(STRING)

ASSUME KnownAssumption ==
    /\ Known \in Seq(Text) /\ IsInjective(Known)
    /\ DOMAIN Canonical \subseteq Text /\ Canonical \in [DOMAIN Canonical -> ToSet(Known)]
    /\ \A h \in ToSet(Known) : h \in DOMAIN Canonical /\ Canonical[h] = h
    /\ \A h \in DOMAIN Canonical : \A i \in DOMAIN h : h[i] # "_"
    /\ Inherited \subseteq Text
    /\ {"", "-"} \subseteq STRING /\ {<<",">>, <<"native", ",">>} \subseteq Text

Line == [name : Text, val : Text] \cup [cont : STRING] \cup [junk : STRING]
EmptyLine == [empty |-> TRUE]

IsField(l) == "name" \in DOMAIN l
IsCont(l) == "cont" \in DOMAIN l
TextOf(l) == IF IsCont(l) THEN l.cont ELSE IF "junk" \in DOMAIN l THEN l.junk ELSE ""

(***************************************************************************)
(* The constructor makes the first "_" of a name a "-", and gives the name *)
(* its canonical spelling; of two names that are then the same, the later  *)
(* one's value is kept. (The setters that headers inherit, contentType and *)
(* the like, are spellings of the names that they set.)                    *)
(***************************************************************************)
Dashed(h) ==
    IF \A i \in DOMAIN h : h[i] # "_" THEN h ELSE [h EXCEPT ![SelectInSeq(h, LAMBDA c : c = "_")] = "-"]

NameOf(h) == IF Dashed(h) \in DOMAIN Canonical THEN Canonical[Dashed(h)] ELSE Dashed(h)

Headers(pairs) ==
    [h \in {NameOf(pairs[i][1]) : i \in DOMAIN pairs} |->
        pairs[SelectLastInSeq(pairs, LAMBDA pair : NameOf(pair[1]) = h)][2]]

(***************************************************************************)
(* hdrs.parse, a fold over the lines: the pairs so far, the one that a     *)
(* continuation belongs to, what has been taken for the beginning of a     *)
(* name, which goes on over the end of a line to the next colon, and       *)
(* whether an empty line has just been passed over.                        *)
(***************************************************************************)
PairOf(pairs, name) == SelectInSeq(pairs, LAMBDA pair : pair[1] = name)

Start == [pairs |-> <<>>, open |-> 0, name |-> <<>>, skipped |-> FALSE]

\* A name that is in every object is found there, and its text is added to.
FirstText(name, val) == IF name \in Inherited THEN <<"native", ",">> \o val ELSE val

\* Mutant of Add: a second value replaces the first.
AddOver(p, name, val) ==
    LET i == PairOf(p.pairs, name) IN
    [Start EXCEPT
        !.pairs = IF i = 0 THEN Append(p.pairs, <<name, FirstText(name, val)>>)
                  ELSE [p.pairs EXCEPT ![i][2] = val],
        !.open = IF i = 0 THEN Len(p.pairs) + 1 ELSE i]

Add(p, name, val) ==
    LET i == PairOf(p.pairs, name) IN
    [Start EXCEPT
        !.pairs = IF i = 0 THEN Append(p.pairs, <<name, FirstText(name, val)>>)
                  ELSE [p.pairs EXCEPT ![i][2] = @ \o <<",">> \o val],
        !.open = IF i = 0 THEN Len(p.pairs) + 1 ELSE i]

ReadLine(p, l) ==
    CASE p.open # 0 /\ IsCont(l) -> [p EXCEPT !.pairs[p.open][2] = Append(@, l.cont)]
      [] IsField(l) -> Add(p, p.name \o l.name, l.val)
      [] p.name = <<>> /\ ~p.skipped /\ l = EmptyLine -> [p EXCEPT !.skipped = TRUE, !.open = 0]
      [] OTHER -> [p EXCEPT !.name = Append(@, TextOf(l)), !.open = 0]

Scan(lines) == FoldLeft(ReadLine, Start, lines)
Throws(lines) == Scan(lines).name # <<>> \/ Scan(lines).skipped
parse(lines) == Headers(Scan(lines).pairs)   \* of lines for which it does not throw

(***************************************************************************)
(* toString: the known headers in their order, then the others, joined by  *)
(* CRLF, so that the last line is not ended.                               *)
(***************************************************************************)
PickKnown(p, h) == IF h \in DOMAIN p.of THEN [p EXCEPT !.names = Append(@, h)] ELSE p
Picked(hs) == FoldLeft(PickKnown, [of |-> hs, names |-> <<>>], Known).names

Written(hs) ==
    LET names == Picked(hs) \o SetToSeq({h \in DOMAIN hs : h \notin DOMAIN Canonical})
    IN [i \in DOMAIN names |-> [name |-> names[i], val |-> hs[names[i]]]]

toString(hs) ==
    LET lines == Written(hs)
    IN IF lines = <<>> THEN <<>> ELSE Append(Front(lines), [unended |-> Last(lines)])

-----------------------------------------------------------------------------
(***************************************************************************)
(* What a block of headers says, by RFC 2616: every field of a name, in    *)
(* their order, each with its continuations.                               *)
(***************************************************************************)
WellFormed(lines) ==
    /\ lines # <<>> => IsField(lines[1])
    /\ \A i \in DOMAIN lines : IsField(lines[i]) \/ IsCont(lines[i])

\* No name is there in two spellings, and none is one that every object has.
UsualNames(lines) ==
    /\ \A i, j \in DOMAIN lines :
         IsField(lines[i]) /\ IsField(lines[j]) /\ NameOf(lines[i].name) = NameOf(lines[j].name)
             => lines[i].name = lines[j].name
    /\ \A i \in DOMAIN lines : IsField(lines[i]) => lines[i].name \notin Inherited

\* Headers whose names the constructor would leave as they are.
Settled(hs) == \A h \in DOMAIN hs : NameOf(h) = h /\ h \notin Inherited

\* One name's text so far, and whether a continuation would be of this name.
Say(s, l) ==
    IF IsField(l)
    THEN LET mine == NameOf(l.name) = s.of IN
         [s EXCEPT !.mine = mine, !.any = @ \/ mine,
                   !.text = IF ~mine THEN @ ELSE IF s.any THEN @ \o <<",">> \o l.val ELSE l.val]
    ELSE IF s.mine THEN [s EXCEPT !.text = Append(@, l.cont)] ELSE s

Said(lines, h) == FoldLeft(Say, [of |-> h, mine |-> FALSE, any |-> FALSE, text |-> <<>>], lines).text

Fields(lines) ==
    [h \in {NameOf(lines[i].name) : i \in {k \in DOMAIN lines : IsField(lines[k])}} |-> Said(lines, h)]
=============================================================================
