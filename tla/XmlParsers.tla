----------------------------- MODULE XmlParsers -----------------------------
(***************************************************************************)
(* The XML plugin's parsers: load_xml, parse and parseBinary, and the push *)
(* parsers for XML and HTML, which hand their document over when they are  *)
(* terminated (xml.cpp, parse.cpp, push_parser.cpp, html_push_parser.cpp). *)
(*                                                                         *)
(* A document comes in pieces; what they say is left out.  A constructor   *)
(* that refuses its options throws and leaves no object (the memory of its *)
(* context is lost).  External: libxml2's parsers.                         *)
(***************************************************************************)
EXTENDS Naturals, FiniteSets

CONSTANTS
  Parser,  \* push parsers
  Doc,     \* documents
  NoDoc,   \* the null pointer
  Pieces   \* bound: in how many pieces a document comes

ASSUME ParserAssumption ==
  Parser \cap Doc = {} /\ NoDoc \notin Parser \cup Doc /\ Pieces \in Nat \ {0}

VARIABLES
  loaded,   \* what the container has as XML: nothing, an object, the plugin
  parser,   \* what each push parser object points to
  document, \* its property document
  objects,  \* push parsers and documents with a wrapper
  memory,   \* documents that are not freed
  inHand,   \* the objects that script holds
  passing,  \* the objects that the collection under way has still to finalize
  faults    \* frees of what was free already

parserVars == <<loaded, parser, document, objects, memory, inHand, passing, faults>>

\* No context: terminated, or not made yet.
Empty == [open |-> FALSE, fine |-> TRUE, got |-> 0, myDoc |-> NoDoc]

ParserInit ==
  /\ loaded \in {"nothing", "object"}
  /\ parser = [p \in Parser |-> Empty] /\ document = [p \in Parser |-> NoDoc]
  /\ objects = {} /\ memory = {} /\ inHand = {} /\ passing = {} /\ faults = 0

Quiet == passing = {}

\* load_xml: an object that the container has under the name XML is taken
\* for the plugin.
LoadXml ==
  /\ loaded = "nothing" /\ loaded' = "plugin"
  /\ UNCHANGED <<parser, document, objects, memory, inHand, passing, faults>>

\* new PushParser(options), with options that the parser knows.
NewParser(p) ==
  /\ Quiet /\ loaded = "plugin" /\ p \notin objects
  /\ parser' = [parser EXCEPT ![p] = [Empty EXCEPT !.open = TRUE]]
  /\ objects' = objects \cup {p} /\ inHand' = inHand \cup {p}
  /\ UNCHANGED <<loaded, document, memory, passing, faults>>

\* Mutant of Terminated: the parser keeps what it has handed over.
TerminatedKept(p, now) ==
  /\ document' = [document EXCEPT ![p] = now.myDoc]
  /\ objects' = objects \cup {now.myDoc}
  /\ parser' = [parser EXCEPT ![p] = now]

\* terminate2: the document has its wrapper, and is no longer the parser's.
Terminated(p, now) ==
  /\ document' = [document EXCEPT ![p] = now.myDoc]
  /\ objects' = objects \cup {now.myDoc}
  /\ parser' = [parser EXCEPT ![p] = Empty]

\* External: xmlParseChunk.  good tells whether the chunk goes on with the
\* document; an error is never forgotten.
Parsed(p, chunk, good, last, d) ==
  LET got == parser[p].got + chunk
  IN  [parser[p] EXCEPT !.got = IF @ < Pieces THEN @ + chunk ELSE @,
                        !.fine = @ /\ good /\ got <= Pieces /\ (last => got = Pieces),
                        !.myDoc = d]

\* A call of the parser, with chunk pieces (0 or 1).  The first piece makes
\* the document.
Feed(p, chunk, good, last) ==
  /\ Quiet /\ p \in inHand /\ parser[p].open
  /\ \E d \in IF parser[p].myDoc # NoDoc THEN {parser[p].myDoc}
              ELSE IF parser[p].fine /\ chunk = 1 THEN (Doc \ memory) \cup (IF good THEN {} ELSE {NoDoc})
              ELSE {NoDoc} :
       LET now == Parsed(p, chunk, good, last, d)
       IN  /\ memory' = memory \cup ({d} \ {NoDoc})
           /\ IF now.fine /\ last THEN Terminated(p, now)
              ELSE parser' = [parser EXCEPT ![p] = now] /\ UNCHANGED <<document, objects>>
  /\ UNCHANGED <<loaded, inHand, passing, faults>>

\* push(data, last) and terminate(); an error of the parser, or no parser,
\* throws.
Push(p, good, last) == Feed(p, 1, good, last)
TerminateParser(p) == Feed(p, 0, TRUE, TRUE)

\* parse(file) and parseBinary(data) of what can be parsed.
ParseWhole(d) ==
  /\ Quiet /\ loaded = "plugin" /\ d \notin memory
  /\ memory' = memory \cup {d}
  /\ objects' = objects \cup {d} /\ inHand' = inHand \cup {d}
  /\ UNCHANGED <<loaded, parser, document, passing, faults>>

GetDocument(p) ==
  /\ Quiet /\ p \in inHand /\ document[p] # NoDoc
  /\ inHand' = inHand \cup {document[p]}
  /\ UNCHANGED <<loaded, parser, document, objects, memory, passing, faults>>

Forget(x) ==
  /\ Quiet /\ x \in inHand /\ inHand' = inHand \ {x}
  /\ UNCHANGED <<loaded, parser, document, objects, memory, passing, faults>>

\* The collector follows the property document.
CollectParsers ==
  /\ Quiet
  /\ passing' = objects \ (inHand \cup {document[p] : p \in inHand \cap Parser})
  /\ passing' # {}
  /\ UNCHANGED <<loaded, parser, document, objects, memory, inHand, faults>>

\* xmlFreeDoc
FreeDoc(d) ==
  /\ memory' = memory \ {d}
  /\ faults' = IF d \in memory \cup {NoDoc} THEN faults ELSE faults + 1

\* ~push_parser frees what was not handed over.
FinalizeParser(p) ==
  /\ p \in passing
  /\ FreeDoc(parser[p].myDoc)
  /\ parser' = [parser EXCEPT ![p] = Empty] /\ document' = [document EXCEPT ![p] = NoDoc]
  /\ passing' = passing \ {p} /\ objects' = objects \ {p}
  /\ UNCHANGED <<loaded, inHand>>

\* ~document
FinalizeDoc(d) ==
  /\ d \in passing
  /\ FreeDoc(d)
  /\ passing' = passing \ {d} /\ objects' = objects \ {d}
  /\ UNCHANGED <<loaded, parser, document, inHand>>

ParserNext ==
  \/ LoadXml
  \/ \E p \in Parser : \/ NewParser(p) \/ TerminateParser(p) \/ GetDocument(p) \/ FinalizeParser(p)
                       \/ \E good, last \in BOOLEAN : Push(p, good, last)
  \/ \E d \in Doc : ParseWhole(d) \/ FinalizeDoc(d)
  \/ \E x \in Parser \cup Doc : Forget(x)
  \/ CollectParsers

ParserSpec == ParserInit /\ [][ParserNext]_parserVars

-----------------------------------------------------------------------------
(* Properties                                                              *)

ParserTypeOK ==
  /\ loaded \in {"nothing", "object", "plugin"}
  /\ parser \in [Parser -> [open : BOOLEAN, fine : BOOLEAN, got : 0 .. Pieces, myDoc : Doc \cup {NoDoc}]]
  /\ document \in [Parser -> Doc \cup {NoDoc}]
  /\ inHand \cup passing \subseteq objects /\ objects \subseteq Parser \cup Doc
  /\ memory \subseteq Doc

\* A document has one owner at any time, its parser until the parser is
\* terminated and its wrapper from then on, so that it is freed once and not
\* lost; and the property document gives a document that stands
\* (push_parser::terminate2, ~push_parser, ~document).
OneOwner ==
  /\ ParserTypeOK
  /\ faults = 0
  /\ \A d \in memory :
       Cardinality({p \in objects \cap Parser : parser[p].myDoc = d} \cup (objects \cap {d})) = 1
  /\ \A p \in objects \ passing : p \in Parser /\ document[p] # NoDoc =>
       document[p] \in (memory \cap objects) \ passing /\ ~parser[p].open
=============================================================================
