------------------------------- MODULE Curl -------------------------------
(***************************************************************************)
(* One cURL handle (curl_plugin.cpp and curl.js): a request clears what    *)
(* the last one has left, libcurl calls headerReceived for every line and  *)
(* dataReceived for every piece of the body, and the handle's properties   *)
(* are made from both. External: libcurl and the server, which may send    *)
(* several blocks of lines, before, within and after the body (a 100       *)
(* Continue, a redirect, trailers, the replies of FTP), and may fail at    *)
(* any time.                                                               *)
(***************************************************************************)
EXTENDS HttpHeaders

CONSTANTS
    Codes,        \* the status lines that a server sends
    Lines,        \* the other lines of its headers
    MaxRequests, MaxBlocks, MaxLines, MaxPieces,  \* bounds
    Absent        \* a property that does not exist

ASSUME CurlBounds == {MaxRequests, MaxBlocks, MaxLines, MaxPieces} \subseteq Nat

VARIABLES
    performing,   \* whether perform is under way
    buffer,       \* header_buffer: lines, or Absent
    status,       \* status, with protocol and statusMessage
    headers,
    responses,    \* the arrays that responseBinary has been, the last one it is
    blocks,       \* the server: the blocks of this request, the last one open
    pieces        \* the server: the pieces of this request's body

IsStatus(l) == "junk" \in DOMAIN l /\ l.junk \in Codes

ASSUME CurlLines ==
    /\ Codes \subseteq STRING /\ "undefined" \in STRING \ Codes
    /\ Lines \subseteq Line /\ \A l \in Lines : ~IsStatus(l)
    /\ Absent \notin Seq(Line) \cup Codes

curlVars == <<performing, buffer, status, headers, responses, blocks, pieces>>

answer == <<status, headers>>

CurlInit ==
    /\ performing = FALSE
    /\ buffer = Absent /\ status = Absent /\ headers = Absent
    /\ responses = <<>> /\ blocks = <<>> /\ pieces = <<>>

\* Mutant of CleanArray: the array of the last request is emptied.
SameArray == IF responses = <<>> THEN <<<<>>>> ELSE Front(responses) \o <<<<>>>>

(***************************************************************************)
(* perform of curl.js: everything is cleared, and the body gets an array   *)
(* of its own, for script may have kept the last one.                      *)
(***************************************************************************)
CleanArray == Append(responses, <<>>)

Perform ==
    /\ ~performing /\ Len(responses) < MaxRequests
    /\ performing' = TRUE
    /\ buffer' = <<>> /\ status' = Absent /\ headers' = Absent
    /\ responses' = CleanArray
    /\ blocks' = <<<<>>>> /\ pieces' = <<>>

(***************************************************************************)
(* handle_curl_header and headerReceived. To add to a buffer that has been *)
(* deleted is to add to the text "undefined".                              *)
(***************************************************************************)
Buffered == IF buffer = Absent THEN <<[junk |-> "undefined"]>> ELSE buffer

HeaderLine(l) ==
    /\ performing
    /\ Len(blocks) <= MaxBlocks /\ Len(FlattenSeq(blocks)) < MaxLines
    /\ buffer' = Append(Buffered, l)
    /\ blocks' = Front(blocks) \o <<Append(Last(blocks), l)>>
    /\ UNCHANGED <<performing, answer, responses, pieces>>

(***************************************************************************)
(* The empty line: the status line is taken off, the rest is parsed. A     *)
(* failure is swallowed, and then the buffer stays.                        *)
(***************************************************************************)
HeaderEnd ==
    LET match == buffer # Absent /\ buffer # <<>> /\ IsStatus(buffer[1])
        rest == IF match THEN Tail(buffer) ELSE buffer
    IN
    /\ performing /\ Last(blocks) # <<>> /\ Len(blocks) <= MaxBlocks
    /\ blocks' = Append(blocks, <<>>)
    /\ status' = IF match THEN buffer[1].junk ELSE status
    /\ IF buffer = Absent THEN UNCHANGED <<headers, buffer>>
       ELSE IF Throws(rest) THEN headers' = headers /\ buffer' = rest
       ELSE headers' = parse(rest) /\ buffer' = Absent
    /\ UNCHANGED <<performing, responses, pieces>>

(***************************************************************************)
(* handle_curl_data and dataReceived append a piece to the array.          *)
(***************************************************************************)
Piece(b) ==
    /\ performing /\ Len(pieces) < MaxPieces
    /\ responses' = Front(responses) \o <<Append(Last(responses), b)>>
    /\ pieces' = Append(pieces, b)
    /\ UNCHANGED <<performing, buffer, answer, blocks>>

(***************************************************************************)
(* curl_easy_perform returns: with the code of the last block, or with an  *)
(* error, at any time, which perform throws. What has come stays.          *)
(***************************************************************************)
PerformEnds ==
    /\ performing
    /\ performing' = FALSE
    /\ UNCHANGED <<buffer, answer, responses, blocks, pieces>>

CurlNext ==
    \/ Perform
    \/ \E l \in Lines : HeaderLine(l)
    \/ \E code \in Codes : performing /\ Last(blocks) = <<>> /\ HeaderLine([junk |-> code])
    \/ HeaderEnd
    \/ \E b \in {"b", "c"} : Piece(b)
    \/ PerformEnds

CurlSpec == CurlInit /\ [][CurlNext]_curlVars

-----------------------------------------------------------------------------
(***************************************************************************)
(* The body that script reads is what the server has sent for the last     *)
(* request, as far as it has come.                                         *)
(***************************************************************************)
BodyShown == responses # <<>> => Last(responses) = pieces

(***************************************************************************)
(* What the handle shows is of its last request. With one block of lines,  *)
(* as long as they are well-formed and of usual names, it shows that       *)
(* block: the code, and every header with all its values. The text that    *)
(* toString makes of them cannot be parsed, because its last line is not   *)
(* ended; once it is, it is read as the same headers, if their names have  *)
(* no further "_". The body is what was sent.                              *)
(***************************************************************************)
ShowsItsAnswer ==
    LET said == IF blocks = <<>> THEN <<>> ELSE blocks[1]
        fields == IF said = <<>> THEN <<>> ELSE Tail(said)
        one == Len(blocks) = 2 /\ IsStatus(said[1])
    IN
    /\ status # Absent =>
         \E i \in DOMAIN blocks : blocks[i] # <<>> /\ IsStatus(blocks[i][1]) /\ blocks[i][1].junk = status
    /\ headers # Absent => Len(blocks) > 1
    /\ one => status = said[1].junk
    /\ one /\ WellFormed(fields) /\ UsualNames(fields)
         => /\ headers = Fields(fields)
            /\ Throws(toString(headers)) <=> DOMAIN headers # {}
            /\ Settled(headers) => ~Throws(Written(headers)) /\ parse(Written(headers)) = headers
    /\ BodyShown

(***************************************************************************)
(* The array that script has from an earlier request does not change when  *)
(* the handle is used again.                                               *)
(***************************************************************************)
ResponsesKept ==
    [][\A i \in DOMAIN responses :
         i < Len(responses) \/ ~performing => i \in DOMAIN responses' /\ responses'[i] = responses[i]]_curlVars
=============================================================================
