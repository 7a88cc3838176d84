---------------------------- MODULE PluginProofs ----------------------------
(***************************************************************************)
(* Theorems about the plugins, for any number of their objects: the        *)
(* cursors of SqliteCursor, the handle of Curl, the namespaces of          *)
(* XmlNamespaces, the parsers of XmlParsers, the contexts of XPath and the *)
(* lists of XmlAttributes.                                                 *)
(***************************************************************************)
EXTENDS SqliteCursor, Curl, XmlAttributes, XmlNamespaces, XmlParsers, XPath, StackLemmas, Integers, FiniteSetTheorems, TLAPS

-----------------------------------------------------------------------------
(* The SQLite3 plugin. *)

\* A cursor that has not been made is at its beginning; of one that can be
\* stepped, the row that script has seen last is the row of the statement
\* unless a row has been lost, and at the end it is the last one.
CursorFits(c) ==
  /\ c \notin made => state[c] = "Init" /\ at[c] = 0 /\ last[c] = 0
  /\ c \in sth =>
       /\ last[c] <= at[c]
       /\ state[c] = "Init" => at[c] = 0
       /\ at[c] > Rows <=> state[c] = "Finished"
       /\ c \notin lost /\ state[c] \in {"Init", "InProgress"} => last[c] = at[c]
       /\ c \notin lost /\ state[c] = "Finished" => last[c] = Rows

\* As long as the handle is not closed, SQLite has the connection open.
HandleFits == db => connected

CursorInv ==
  /\ TypeOK
  /\ HandleFits /\ StatementsBacked
  /\ \A c \in Cursor : CursorFits(c)

\* A cursor that a step does not concern.
LEMMA CursorStays ==
  ASSUME NEW c, CursorFits(c),
         state'[c] = state[c], at'[c] = at[c], last'[c] = last[c],
         c \in made => c \in made',
         c \in sth' => c \in sth,
         c \in lost' <=> c \in lost
  PROVE  CursorFits(c)'
  BY DEF CursorFits

LEMMA CursorTypes ==
  ASSUME TypeOK, NEW c \in Cursor
  PROVE  /\ state[c] \in State
         /\ at[c] \in 0 .. Rows + 1 /\ at[c] \in Int
         /\ last[c] \in 0 .. Rows /\ last[c] \in Int
         /\ Rows \in Nat /\ Params \in Nat
  BY RowsAssumption DEF TypeOK

LEMMA CursorTypeStep ==
  ASSUME TypeOK, SqliteNext
  PROVE  TypeOK'
  <1>1. CASE CloseDb
    BY <1>1 DEF CloseDb, TypeOK
  <1>2. ASSUME NEW c \in Cursor, MakeCursor(c) \/ CloseCursor(c)
        PROVE  TypeOK'
    BY <1>2 DEF MakeCursor, CloseCursor, TypeOK
  <1>3. ASSUME NEW c \in Cursor, NextRow(c)
        PROVE  TypeOK'
    <2>1. /\ Started(c) \in 0 .. Rows - 1
          /\ at' = [at EXCEPT ![c] = Started(c) + 1]
      BY <1>3, CursorTypes DEF NextRow, StepRow, Started
    <2>2. at' \in [Cursor -> 0 .. Rows + 1] /\ at'[c] \in 0 .. Rows
      BY <2>1, CursorTypes DEF TypeOK
    <2>3. last' \in [Cursor -> 0 .. Rows] /\ lost' \subseteq made /\ state' \in [Cursor -> State]
      BY <1>3, <2>2 DEF NextRow, Steps, TypeOK, State
    <2>4. QED
      BY <1>3, <2>2, <2>3 DEF NextRow, TypeOK
  <1>4. ASSUME NEW c \in Cursor, NextDone(c)
        PROVE  TypeOK'
    BY <1>4, RowsAssumption DEF NextDone, StepDone, TypeOK, State
  <1>5. ASSUME NEW c \in Cursor, NextError(c)
        PROVE  TypeOK'
    BY <1>5 DEF NextError, TypeOK, State
  <1>6. ASSUME NEW c \in Cursor, Reset(c)
        PROVE  TypeOK'
    BY <1>6, RowsAssumption DEF Reset, TypeOK, State
  <1>7. ASSUME NEW c \in Cursor, NEW values \in SUBSET (1..Params), Bind(c, values)
        PROVE  TypeOK'
    BY <1>7 DEF Bind, TypeOK
  <1>8. QED
    BY <1>1, <1>2, <1>3, <1>4, <1>5, <1>6, <1>7 DEF SqliteNext

\* The cursor that a step of next, reset or close concerns.
LEMMA CursorMoves ==
  ASSUME CursorInv, NEW c \in Cursor,
         NextRow(c) \/ NextDone(c) \/ NextError(c) \/ Reset(c)
  PROVE  CursorFits(c)'
  <1>1. /\ TypeOK /\ CursorFits(c)
        /\ state[c] \in State
        /\ at[c] \in 0 .. Rows + 1 /\ last[c] \in 0 .. Rows /\ Rows \in Nat
        /\ sth \subseteq made /\ c \in DOMAIN at /\ c \in DOMAIN state /\ c \in DOMAIN last
    BY CursorTypes DEF CursorInv, TypeOK
  <1>2. CASE NextRow(c)
    <2>1. /\ c \in sth /\ c \in made' /\ state[c] \in {"Init", "InProgress"}
          /\ at[c] <= Rows
      BY <1>1, <1>2 DEF NextRow, Steps, CursorFits, State
    <2>2. /\ at[c] < Rows /\ at'[c] = at[c] + 1 /\ state'[c] = "InProgress"
          /\ \/ last'[c] = at'[c] /\ lost' = lost
             \/ c \in lost' /\ last'[c] = last[c]
      BY <1>1, <1>2, <2>1 DEF NextRow, StepRow, Started
    <2>3. QED
      BY <1>1, <2>1, <2>2 DEF CursorFits
  <1>3. CASE NextDone(c)
    <2>1. /\ c \in sth /\ c \in made' /\ state[c] \in {"Init", "InProgress"}
          /\ at[c] <= Rows /\ lost' = lost /\ last' = last
      BY <1>1, <1>3 DEF NextDone, Steps, CursorFits, State
    <2>2. at[c] = Rows /\ at'[c] = Rows + 1 /\ state'[c] = "Finished"
      BY <1>1, <1>3, <2>1 DEF NextDone, StepDone, Started
    <2>3. QED
      BY <1>1, <2>1, <2>2 DEF CursorFits
  <1>4. CASE NextError(c)
    <2>1. /\ c \in sth /\ c \in made' /\ state[c] # "Finished" /\ state'[c] = "Errored"
          /\ at' = at /\ lost' = lost /\ last' = last
      BY <1>1, <1>4 DEF NextError, Steps
    <2>2. QED
      BY <1>1, <2>1 DEF CursorFits
  <1>5. CASE Reset(c)
    <2>1. /\ c \in made' /\ state'[c] = "Init" /\ last'[c] = 0 /\ sth' = sth
          /\ c \in sth => at'[c] = 0
      BY <1>1, <1>5 DEF Reset
    <2>2. QED
      BY <1>1, <2>1 DEF CursorFits
  <1>6. QED
    BY <1>2, <1>3, <1>4, <1>5

LEMMA CursorStep ==
  ASSUME CursorInv, [SqliteNext]_sqliteVars
  PROVE  CursorInv'
  <1>1. CASE UNCHANGED sqliteVars
    BY <1>1 DEF sqliteVars, CursorInv, TypeOK, HandleFits, StatementsBacked, CursorFits
  <1>2. CASE SqliteNext
    <2>1. TypeOK'
      BY <1>2, CursorTypeStep DEF CursorInv
    <2>2. HandleFits' /\ StatementsBacked'
      <3>1. CASE CloseDb
        BY <3>1 DEF CloseDb, CursorInv, HandleFits, StatementsBacked
      <3>2. ASSUME NEW c \in Cursor, MakeCursor(c)
            PROVE  HandleFits' /\ StatementsBacked'
        BY <3>2 DEF MakeCursor, CursorInv, HandleFits, StatementsBacked
      <3>3. ASSUME db' = db, connected' = connected, sth' \subseteq sth
            PROVE  HandleFits' /\ StatementsBacked'
        BY <3>3 DEF CursorInv, HandleFits, StatementsBacked
      <3>4. QED
        BY <1>2, <3>1, <3>2, <3>3
        DEF SqliteNext, NextRow, NextDone, NextError, Reset, CloseCursor, Bind
    <2>3. ASSUME NEW d \in Cursor
          PROVE  CursorFits(d)'
      <3>1. CursorFits(d) /\ TypeOK
        BY DEF CursorInv
      <3>2. CASE CloseDb
        BY <3>1, <3>2, CursorStays DEF CloseDb
      <3>3. ASSUME NEW c \in Cursor, MakeCursor(c)
            PROVE  CursorFits(d)'
        <4>1. CASE d = c
          <5>1. /\ state'[d] = "Init" /\ at'[d] = 0 /\ last'[d] = 0 /\ d \in made'
            BY <3>1, <3>3, <4>1 DEF MakeCursor, CursorFits
          <5>2. QED
            BY <5>1, RowsAssumption DEF CursorFits
        <4>2. CASE d # c
          BY <3>1, <3>3, <4>2, CursorStays DEF MakeCursor
        <4>3. QED
          BY <4>1, <4>2
      <3>4. ASSUME NEW c \in Cursor, NextRow(c) \/ NextDone(c) \/ NextError(c) \/ Reset(c)
            PROVE  CursorFits(d)'
        <4>1. CASE d = c
          BY <3>4, <4>1, CursorMoves
        <4>2. CASE d # c
          <5>1. /\ state'[d] = state[d] /\ at'[d] = at[d] /\ last'[d] = last[d]
                /\ made' = made /\ sth' = sth /\ (d \in lost' <=> d \in lost)
            BY <3>1, <3>4, <4>2
            DEF NextRow, NextDone, NextError, Reset, StepRow, StepDone, TypeOK
          <5>2. QED
            BY <3>1, <5>1, CursorStays
        <4>3. QED
          BY <4>1, <4>2
      <3>5. ASSUME NEW c \in Cursor, CloseCursor(c)
            PROVE  CursorFits(d)'
        BY <3>1, <3>5, CursorStays DEF CloseCursor
      <3>6. ASSUME NEW c \in Cursor, NEW values \in SUBSET (1..Params), Bind(c, values)
            PROVE  CursorFits(d)'
        BY <3>1, <3>6, CursorStays DEF Bind
      <3>7. QED
        BY <1>2, <3>2, <3>3, <3>4, <3>5, <3>6 DEF SqliteNext
    <2>4. QED
      BY <2>1, <2>2, <2>3 DEF CursorInv
  <1>3. QED
    BY <1>1, <1>2

LEMMA CursorInvHolds == SqliteSpec => []CursorInv
  <1>1. SqliteInit => CursorInv
    BY RowsAssumption
    DEF SqliteInit, CursorInv, TypeOK, State, HandleFits, StatementsBacked, CursorFits
  <1>2. CursorInv /\ [SqliteNext]_sqliteVars => CursorInv'
    BY CursorStep
  <1>3. QED
    BY <1>1, <1>2, PTL DEF SqliteSpec

\* However many cursors are made, stepped, reset and closed, before or after
\* their handle: a statement that can be stepped has a connection, and a
\* cursor's state says where its statement is.
THEOREM CursorsSoundHolds == SqliteSpec => []CursorsSound
  <1>1. CursorInv => CursorsSound
    BY DEF CursorInv, CursorsSound, StateAgrees, CursorFits, TypeOK
  <1>2. QED
    BY <1>1, CursorInvHolds, PTL

\* What RowsOnce says of one step.
LEMMA RowsStep ==
  ASSUME CursorInv, [SqliteNext]_sqliteVars, NEW c \in Cursor
  PROVE  /\ last'[c] # last[c] => last'[c] = 0 \/ last'[c] > last[c]
         /\ state'[c] = "Finished" /\ c \in sth /\ c \notin lost => last[c] = Rows
         /\ bound'[c] # bound[c] => at[c] = 0
         /\ bound[c] \subseteq bound'[c]
  <1>1. /\ TypeOK /\ CursorFits(c)
        /\ state[c] \in State /\ at[c] \in Int /\ last[c] \in Int /\ Rows \in Nat
    BY CursorTypes DEF CursorInv
  <1>2. ASSUME last' = last, state' = state, bound' = bound
        PROVE  /\ last'[c] # last[c] => last'[c] = 0 \/ last'[c] > last[c]
               /\ state'[c] = "Finished" /\ c \in sth /\ c \notin lost => last[c] = Rows
               /\ bound'[c] # bound[c] => at[c] = 0
               /\ bound[c] \subseteq bound'[c]
    BY <1>1, <1>2 DEF CursorFits
  <1>3. CASE UNCHANGED sqliteVars
    BY <1>2, <1>3 DEF sqliteVars
  <1>4. CASE CloseDb
    BY <1>2, <1>4 DEF CloseDb
  <1>5. ASSUME NEW d \in Cursor, MakeCursor(d) \/ CloseCursor(d)
        PROVE  last' = last /\ state' = state /\ bound' = bound
    BY <1>5 DEF MakeCursor, CloseCursor
  <1>6. ASSUME NEW d \in Cursor, NextRow(d)
        PROVE  /\ last'[c] # last[c] => last'[c] = 0 \/ last'[c] > last[c]
               /\ state'[c] = "Finished" /\ c \in sth /\ c \notin lost => last[c] = Rows
               /\ bound' = bound
    <2>1. CASE d = c
      <3>1. /\ c \in sth /\ state[c] \in {"Init", "InProgress"} /\ at[c] <= Rows
        BY <1>1, <1>6, <2>1 DEF NextRow, Steps, CursorFits, State
      <3>2. at'[c] = at[c] + 1
        BY <1>1, <1>6, <2>1, <3>1 DEF NextRow, StepRow, Started, TypeOK
      <3>3. (last'[c] = at'[c] \/ last' = last) /\ state'[c] = "InProgress" /\ bound' = bound
        BY <1>1, <1>6, <2>1 DEF NextRow, TypeOK
      <3>4. QED
        BY <1>1, <3>1, <3>2, <3>3 DEF CursorFits
    <2>2. CASE d # c
      <3>1. last'[c] = last[c] /\ state'[c] = state[c] /\ bound' = bound
        BY <1>1, <1>6, <2>2 DEF NextRow, TypeOK
      <3>2. QED
        BY <1>1, <3>1 DEF CursorFits
    <2>3. QED
      BY <2>1, <2>2
  <1>7. ASSUME NEW d \in Cursor, NextDone(d)
        PROVE  last' = last /\ bound' = bound /\
               (state'[c] = "Finished" /\ c \in sth /\ c \notin lost => last[c] = Rows)
    <2>1. CASE d = c
      <3>1. /\ c \in sth /\ state[c] \in {"Init", "InProgress"} /\ at[c] <= Rows
        BY <1>1, <1>7, <2>1 DEF NextDone, Steps, CursorFits, State
      <3>2. at[c] = Rows
        BY <1>1, <1>7, <2>1, <3>1 DEF NextDone, StepDone, Started
      <3>3. QED
        BY <1>1, <1>7, <3>1, <3>2 DEF NextDone, CursorFits
    <2>2. CASE d # c
      <3>1. state'[c] = state[c] /\ last' = last /\ bound' = bound
        BY <1>1, <1>7, <2>2 DEF NextDone, TypeOK
      <3>2. QED
        BY <1>1, <3>1 DEF CursorFits
    <2>3. QED
      BY <2>1, <2>2
  <1>8. ASSUME NEW d \in Cursor, NextError(d) \/ Reset(d)
        PROVE  /\ last'[c] = last[c] \/ last'[c] = 0
               /\ bound' = bound
               /\ state'[c] = "Finished" => state[c] = "Finished"
    BY <1>1, <1>8 DEF NextError, Reset, TypeOK
  <1>9. ASSUME NEW d \in Cursor, NEW values \in SUBSET (1..Params), Bind(d, values)
        PROVE  /\ last' = last /\ state' = state
               /\ bound'[c] # bound[c] => at[c] = 0
               /\ bound[c] \subseteq bound'[c]
    BY <1>1, <1>9 DEF Bind, TypeOK
  <1>10. state[c] = "Finished" /\ c \in sth /\ c \notin lost => last[c] = Rows
    BY <1>1 DEF CursorFits
  <1>11. QED
    BY <1>2, <1>3, <1>4, <1>5, <1>6, <1>7, <1>8, <1>9, <1>10 DEF SqliteNext

\* Between two resets a cursor gives every row of its statement at most
\* once, in order, and all of them before it says that it has ended; the
\* bindings change only at the start.
THEOREM RowsOnceHolds == SqliteSpec => RowsOnce
  <1>1. CursorInv /\ [SqliteNext]_sqliteVars =>
          [\A c \in Cursor :
             /\ last'[c] # last[c] => last'[c] = 0 \/ last'[c] > last[c]
             /\ state'[c] = "Finished" /\ c \in sth /\ c \notin lost => last[c] = Rows
             /\ bound'[c] # bound[c] => at[c] = 0
             /\ bound[c] \subseteq bound'[c]]_sqliteVars
    BY RowsStep
  <1>2. QED
    BY <1>1, CursorInvHolds, PTL DEF SqliteSpec, RowsOnce

-----------------------------------------------------------------------------
(* The cURL plugin. *)

Byte == {"b", "c"}

\* While a request is under way its array is the last one, and it holds what
\* the server has sent.
CurlInv ==
  /\ responses \in Seq(Seq(Byte)) /\ pieces \in Seq(Byte)
  /\ performing \in BOOLEAN /\ (performing = TRUE => responses # <<>>)
  /\ BodyShown

\* A request begins: one more array.
LEMMA PerformKeeps ==
  ASSUME CurlInv, Perform
  PROVE  /\ CurlInv'
         /\ \A i \in DOMAIN responses : i \in DOMAIN responses' /\ responses'[i] = responses[i]
  <1>1. /\ responses \in Seq(Seq(Byte)) /\ <<>> \in Seq(Byte)
        /\ responses' = Append(responses, <<>>) /\ pieces' = <<>> /\ performing' = TRUE
    BY DEF CurlInv, Perform, CleanArray
  <1>2. /\ Len(responses) \in Nat
        /\ responses' \in Seq(Seq(Byte))
        /\ Len(responses') = Len(responses) + 1
        /\ \A i \in 1 .. Len(responses) : responses'[i] = responses[i]
        /\ responses'[Len(responses) + 1] = <<>>
    BY <1>1, PushOne
  <1>3. responses' # <<>> /\ Last(responses') = <<>>
    BY <1>2 DEF Last
  <1>4. CurlInv'
    BY <1>1, <1>2, <1>3 DEF CurlInv, BodyShown
  <1>5. QED
    BY <1>1, <1>2, <1>4

\* Another last element.
LEMMA LastReplaced ==
  ASSUME NEW S, NEW t \in Seq(S), t # <<>>, NEW e \in S,
         NEW u, u = SubSeq(t, 1, Len(t) - 1) \o <<e>>
  PROVE  /\ u \in Seq(S) /\ Len(u) = Len(t)
         /\ \A i \in 1 .. Len(t) - 1 : u[i] = t[i]
         /\ u[Len(t)] = e
  <1>1. PICK front : front = SubSeq(t, 1, Len(t) - 1)
    OBVIOUS
  <1>2. /\ Len(t) \in Nat /\ Len(t) > 0
        /\ front \in Seq(S) /\ Len(front) = Len(t) - 1
        /\ \A i \in 1 .. Len(t) - 1 : front[i] = t[i]
    BY <1>1, AllButLast
  <1>3. u = Append(front, e)
    BY <1>1, <1>2
  <1>4. /\ u \in Seq(S)
        /\ Len(u) = Len(front) + 1
        /\ \A i \in 1 .. Len(front) : u[i] = front[i]
        /\ u[Len(front) + 1] = e
    BY <1>2, <1>3, PushOne
  <1>5. QED
    BY <1>2, <1>4

\* A piece of the body comes: only the last array grows.
LEMMA PieceKeeps ==
  ASSUME CurlInv, NEW b \in Byte, Piece(b)
  PROVE  /\ CurlInv'
         /\ \A i \in DOMAIN responses : i < Len(responses) =>
              i \in DOMAIN responses' /\ responses'[i] = responses[i]
  <1>1. PICK array, n : array = Append(pieces, b) /\ n = Len(responses)
    OBVIOUS
  <1>2. /\ responses \in Seq(Seq(Byte)) /\ responses # <<>> /\ pieces \in Seq(Byte)
        /\ responses[n] = pieces /\ performing' = performing /\ performing \in BOOLEAN
        /\ responses' = SubSeq(responses, 1, n - 1) \o <<array>> /\ pieces' = array
    BY <1>1 DEF CurlInv, BodyShown, Piece, Front, Last
  <1>3. array \in Seq(Byte) /\ n \in Nat /\ n > 0 /\ DOMAIN responses = 1 .. n
    BY <1>1, <1>2
  <1>4. /\ responses' \in Seq(Seq(Byte)) /\ Len(responses') = n
        /\ \A i \in 1 .. n - 1 : responses'[i] = responses[i]
        /\ responses'[n] = array
    BY <1>1, <1>2, <1>3, LastReplaced
  <1>5. CurlInv'
    BY <1>2, <1>3, <1>4 DEF CurlInv, BodyShown, Last
  <1>6. ASSUME NEW i \in DOMAIN responses, i < Len(responses)
        PROVE  i \in DOMAIN responses' /\ responses'[i] = responses[i]
    <2>1. i \in 1 .. n - 1 /\ DOMAIN responses' = 1 .. n
      BY <1>1, <1>3, <1>4, <1>6
    <2>2. QED
      BY <1>3, <1>4, <2>1
  <1>7. QED
    BY <1>5, <1>6

LEMMA CurlStep ==
  ASSUME CurlInv, [CurlNext]_curlVars
  PROVE  /\ CurlInv'
         /\ \A i \in DOMAIN responses :
              i < Len(responses) \/ ~performing =>
                i \in DOMAIN responses' /\ responses'[i] = responses[i]
  <1>1. ASSUME UNCHANGED <<responses, pieces>>,
               performing' \in {performing, FALSE}
        PROVE  CurlInv'
    BY <1>1 DEF CurlInv, BodyShown, Last
  <1>2. ASSUME NEW l, HeaderLine(l) \/ HeaderEnd \/ PerformEnds \/ UNCHANGED curlVars
        PROVE  /\ UNCHANGED <<responses, pieces>>
               /\ performing' \in {performing, FALSE}
    <2>1. HeaderLine(l) => UNCHANGED <<responses, pieces, performing>>
      BY DEF HeaderLine
    <2>2. HeaderEnd => UNCHANGED <<responses, pieces, performing>>
      BY DEF HeaderEnd
    <2>3. UNCHANGED curlVars => UNCHANGED <<responses, pieces, performing>>
      BY DEF curlVars
    <2>4. PerformEnds => UNCHANGED <<responses, pieces>> /\ performing' = FALSE
      BY DEF PerformEnds
    <2>5. QED
      BY <1>2, <2>1, <2>2, <2>3, <2>4
  <1>3. CASE Perform
    BY <1>3, PerformKeeps
  <1>4. ASSUME NEW b \in Byte, Piece(b)
        PROVE  /\ CurlInv' /\ performing
               /\ \A i \in DOMAIN responses : i < Len(responses) =>
                    i \in DOMAIN responses' /\ responses'[i] = responses[i]
    BY <1>4, PieceKeeps DEF Piece
  <1>5. \/ Perform
        \/ \E b \in Byte : Piece(b)
        \/ \E l : HeaderLine(l) \/ HeaderEnd \/ PerformEnds \/ UNCHANGED curlVars
    BY DEF CurlNext, Byte
  <1>6. QED
    BY <1>1, <1>2, <1>3, <1>4, <1>5

LEMMA CurlInvHolds == CurlSpec => []CurlInv
  <1>1. CurlInit => CurlInv
    <2>1. <<>> \in Seq(Byte) /\ <<>> \in Seq(Seq(Byte))
      OBVIOUS
    <2>2. QED
      BY <2>1 DEF CurlInit, CurlInv, BodyShown
  <1>2. CurlInv /\ [CurlNext]_curlVars => CurlInv'
    BY CurlStep
  <1>3. QED
    BY <1>1, <1>2, PTL DEF CurlSpec

\* An array that script has kept from an earlier request never changes.
THEOREM ResponsesKeptHolds == CurlSpec => ResponsesKept
  <1>1. CurlInv /\ [CurlNext]_curlVars =>
          [\A i \in DOMAIN responses :
             i < Len(responses) \/ ~performing =>
               i \in DOMAIN responses' /\ responses'[i] = responses[i]]_curlVars
    BY CurlStep
  <1>2. QED
    BY <1>1, CurlInvHolds, PTL DEF CurlSpec, ResponsesKept

-----------------------------------------------------------------------------
(* The folds of HttpHeaders. *)

ReadFold == INSTANCE FoldLemmas WITH op <- ReadLine
SayFold == INSTANCE FoldLemmas WITH op <- Say
PickFold == INSTANCE FoldLemmas WITH op <- PickKnown

\* What one name's text is after some lines, with the state of the fold.
Silent(h) == [of |-> h, mine |-> FALSE, any |-> FALSE, text |-> <<>>]
Voice(h) == [of : {h}, mine : BOOLEAN, any : BOOLEAN, text : Text]
SayFrom(s, lines) == FoldLeft(Say, s, lines)
Saying(lines, h) == SayFrom(Silent(h), lines)

\* The folds, a line at a time, and a name at a time.
LEMMA ReadFolds ==
  /\ Scan(<<>>) = Start
  /\ \A s \in Seq(Line), l \in Line : Scan(Append(s, l)) = ReadLine(Scan(s), l)
  <1>1. \A s : Scan(s) = ReadFold!Fold(Start, s)
    BY DEF Scan, FoldLeft, MapThenFoldSet, Max, ReadFold!Fold, ReadFold!Folding, ReadFold!Largest
  <1>2. QED
    BY <1>1, ReadFold!FoldNothing, ReadFold!FoldMore

LEMMA SayFolds ==
  /\ \A h : Saying(<<>>, h) = Silent(h)
  /\ \A h : \A s \in Seq(Line), l \in Line : Saying(Append(s, l), h) = Say(Saying(s, h), l)
  <1>1. \A b, s : SayFrom(b, s) = SayFold!Fold(b, s)
    BY DEF SayFrom, FoldLeft, MapThenFoldSet, Max, SayFold!Fold, SayFold!Folding, SayFold!Largest
  <1>2. /\ \A b : SayFrom(b, <<>>) = b
        /\ \A b : \A s \in Seq(Line), l \in Line : SayFrom(b, Append(s, l)) = Say(SayFrom(b, s), l)
    BY <1>1, SayFold!FoldNothing, SayFold!FoldMore
  <1>3. QED
    BY <1>2 DEF Saying

PickFrom(p, known) == FoldLeft(PickKnown, p, known)

LEMMA PickFolds ==
  /\ \A p : PickFrom(p, <<>>) = p
  /\ \A p : \A s \in Seq(Text), h \in Text : PickFrom(p, Append(s, h)) = PickKnown(PickFrom(p, s), h)
  <1>1. \A p, s : PickFrom(p, s) = PickFold!Fold(p, s)
    BY DEF PickFrom, FoldLeft, MapThenFoldSet, Max, PickFold!Fold, PickFold!Folding, PickFold!Largest
  <1>2. QED
    BY <1>1, PickFold!FoldNothing, PickFold!FoldMore

-----------------------------------------------------------------------------
(* Reading headers *)

\* The kinds of lines.
LEMMA LineKinds ==
  ASSUME NEW l \in Line
  PROVE  /\ IsField(l) => ~IsCont(l) /\ l.name \in Text /\ l.val \in Text
         /\ IsCont(l) => ~IsField(l) /\ l.cont \in STRING
         /\ ~IsField(l) /\ ~IsCont(l) => l.junk \in STRING
         /\ IsField(l) \/ IsCont(l) => l # EmptyLine
         /\ "junk" \in DOMAIN l => ~IsField(l) /\ ~IsCont(l)
  BY DEF Line, IsField, IsCont, EmptyLine

\* Texts, and pairs of texts.
LEMMA TextFacts ==
  /\ <<>> \in Text /\ <<",">> \in Text
  /\ \A s, t \in Text : s \o t \in Text
  /\ \A s \in Text, c \in STRING : Append(s, c) \in Text
  /\ \A s \in Text : <<>> \o s = s
  <1>1. PICK S : S = STRING
    OBVIOUS
  <1>2. <<>> \in Seq(S)
    OBVIOUS
  <1>3. /\ \A s, t \in Seq(S) : s \o t \in Seq(S)
        /\ \A s \in Seq(S), c \in S : Append(s, c) \in Seq(S)
    OBVIOUS
  <1>4. \A s \in Seq(S) : <<>> \o s = s
    OBVIOUS
  <1>5. Text = Seq(S) /\ <<",">> \in Text
    BY <1>1, KnownAssumption DEF Text
  <1>6. QED
    BY <1>1, <1>2, <1>3, <1>4, <1>5

LEMMA PairFacts ==
  ASSUME NEW p \in Seq(Text \X Text), NEW i \in DOMAIN p
  PROVE  /\ p[i][1] \in Text /\ p[i][2] \in Text /\ p[i] = <<p[i][1], p[i][2]>>
         /\ p[i] \in Text \X Text /\ i \in Nat /\ i # 0
  <1>1. DOMAIN p = 1 .. Len(p) /\ Len(p) \in Nat /\ p[i] \in Text \X Text
    OBVIOUS
  <1>2. QED
    BY <1>1

\* The pairs that reading a line leaves: one of them is new, or has more text.
Changed(p, q, i, nm, tx) ==
  /\ p \in Seq(Text \X Text) /\ q \in Seq(Text \X Text)
  /\ i \in DOMAIN q /\ DOMAIN q = DOMAIN p \cup {i} /\ q[i] = <<nm, tx>>
  /\ \A j \in DOMAIN p : j # i => q[j] = p[j]
  /\ i \in DOMAIN p => p[i][1] = nm

Reading == [pairs : Seq(Text \X Text), open : Nat, name : Text, skipped : BOOLEAN]

\* A pair more.
LEMMA PairAppended ==
  ASSUME NEW p \in Seq(Text \X Text), NEW nm \in Text, NEW tx \in Text
  PROVE  /\ Len(p) \in Nat /\ Len(p) + 1 \notin DOMAIN p
         /\ Changed(p, Append(p, <<nm, tx>>), Len(p) + 1, nm, tx)
  <1>1. PICK n, q : n = Len(p) /\ q = Append(p, <<nm, tx>>)
    OBVIOUS
  <1>2. n \in Nat
    BY <1>1
  <1>4. <<nm, tx>> \in Text \X Text
    OBVIOUS
  <1>5. /\ q \in Seq(Text \X Text) /\ DOMAIN p = 1 .. n /\ DOMAIN q = 1 .. n + 1
        /\ \A j \in 1 .. n : q[j] = p[j]
        /\ q[n + 1] = <<nm, tx>>
    BY <1>1, <1>2, <1>4, PushOne
  <1>3. DOMAIN q = DOMAIN p \cup {n + 1} /\ n + 1 \in DOMAIN q /\ n + 1 \notin DOMAIN p
    BY <1>2, <1>5
  <1>6. QED
    BY <1>1, <1>2, <1>3, <1>5 DEF Changed

\* A pair with another text.
Extended(p, i, tx) == [p EXCEPT ![i][2] = tx]

LEMMA PairExtended ==
  ASSUME NEW p \in Seq(Text \X Text), NEW i \in DOMAIN p, NEW tx \in Text
  PROVE  Changed(p, Extended(p, i, tx), i, p[i][1], tx)
  <1>9. p[i] = <<p[i][1], p[i][2]>>
    BY PairFacts
  <1>10. [p[i] EXCEPT ![2] = tx] = <<p[i][1], tx>>
    BY <1>9
  <1>11. Extended(p, i, tx) = [p EXCEPT ![i] = <<p[i][1], tx>>]
    BY <1>10 DEF Extended
  <1>1. PICK n, q : n = Len(p) /\ DOMAIN p = 1 .. n /\ q = Extended(p, i, tx)
    OBVIOUS
  <1>2. /\ DOMAIN q = DOMAIN p /\ q[i] = <<p[i][1], tx>>
        /\ \A j \in DOMAIN p : j # i => q[j] = p[j]
    BY <1>1, <1>11
  <1>3. \A j \in DOMAIN p : p[j] \in Text \X Text
    BY <1>1
  <1>4. <<p[i][1], tx>> \in Text \X Text
    BY <1>3
  <1>6. q \in Seq(Text \X Text)
    <2>1. PICK S, e : S = Text \X Text /\ e = <<p[i][1], tx>>
      OBVIOUS
    <2>2. p \in Seq(S) /\ e \in S /\ i \in 1 .. Len(p)
      BY <1>1, <1>4, <2>1
    <2>3. [p EXCEPT ![i] = e] \in Seq(S)
      BY <2>2
    <2>4. QED
      BY <1>1, <1>11, <2>1, <2>3
  <1>7. DOMAIN q = DOMAIN p \cup {i}
    BY <1>2
  <1>8. QED
    BY <1>1, <1>2, <1>6, <1>7 DEF Changed

\* The first pair of a name.
LEMMA FirstOfName ==
  ASSUME NEW p \in Seq(Text \X Text), NEW nm,
         NEW i, i = PairOf(p, nm)
  PROVE  /\ (\E j \in DOMAIN p : p[j][1] = nm) => i \in DOMAIN p /\ i # 0 /\ p[i][1] = nm
         /\ ~(\E j \in DOMAIN p : p[j][1] = nm) => i = 0
  <1>1. PICK I : I = {j \in 1 .. Len(p) : p[j][1] = nm}
    OBVIOUS
  <1>2. i = IF I # {} THEN Min(I) ELSE 0
    BY <1>1 DEF PairOf, SelectInSeq
  <1>3. DOMAIN p = 1 .. Len(p) /\ Len(p) \in Nat
    OBVIOUS
  <1>4. CASE I = {}
    BY <1>1, <1>2, <1>3, <1>4
  <1>5. CASE I # {}
    <2>1. I \in SUBSET Nat
      BY <1>1, <1>3
    <2>2. \E n \in I : \A m \in I : n <= m
      BY <1>5, <2>1, LeastNumber
    <2>3. i \in I
      BY <1>2, <1>5, <2>2 DEF Min
    <2>4. QED
      BY <1>1, <1>3, <1>5, <2>3
  <1>6. QED
    BY <1>4, <1>5

\* A field makes a pair, or makes a pair of its name longer.
FieldDone(r, l, r2, tx) ==
  /\ ReadLine(r, l) = r2 /\ r2.name = <<>> /\ r2.skipped = FALSE /\ r2.open # 0
  /\ Changed(r.pairs, r2.pairs, r2.open, l.name, tx)
  /\ tx = IF r2.open \in DOMAIN r.pairs THEN r.pairs[r2.open][2] \o <<",">> \o l.val ELSE l.val
  /\ (\E j \in DOMAIN r.pairs : r.pairs[j][1] = l.name) => r2.open \in DOMAIN r.pairs

LEMMA FieldRead ==
  ASSUME NEW r \in Reading, r.name = <<>>, NEW l \in Line, IsField(l), l.name \notin Inherited
  PROVE  \E r2 \in Reading, tx \in Text : FieldDone(r, l, r2, tx)
  <1>1. /\ ~IsCont(l) /\ l # EmptyLine /\ l.name \in Text /\ l.val \in Text
        /\ r.pairs \in Seq(Text \X Text)
    BY LineKinds DEF Reading
  <1>2. PICK p \in Seq(Text \X Text), nm \in Text, val \in Text : p = r.pairs /\ nm = l.name /\ val = l.val
    BY <1>1
  <1>3. r.name \o l.name = nm
    BY <1>1, <1>2, TextFacts
  <1>4. ReadLine(r, l) = Add(r, nm, val)
    BY <1>1, <1>2, <1>3 DEF ReadLine
  <1>5. PICK i : i = PairOf(p, nm)
    OBVIOUS
  <1>6. /\ (\E j \in DOMAIN p : p[j][1] = nm) => i \in DOMAIN p /\ i # 0 /\ p[i][1] = nm
        /\ ~(\E j \in DOMAIN p : p[j][1] = nm) => i = 0
    BY <1>1, <1>2, <1>5, FirstOfName
  <1>7. CASE \E j \in DOMAIN p : p[j][1] = nm
    <2>1. i \in DOMAIN p /\ i # 0 /\ p[i][1] = nm
      BY <1>6, <1>7
    <2>2. p[i][2] \in Text /\ i \in Nat
      BY <1>1, <1>2, <2>1, PairFacts
    <2>3. PICK tx \in Text : tx = p[i][2] \o <<",">> \o val
      BY <1>1, <1>2, <2>2, TextFacts
    <2>4. PICK q : q = Extended(p, i, tx)
      OBVIOUS
    <2>5. Changed(p, q, i, nm, tx)
      BY <1>1, <1>2, <2>1, <2>3, <2>4, PairExtended
    <2>6. q = [p EXCEPT ![i][2] = @ \o <<",">> \o val]
      BY <2>1, <2>3, <2>4 DEF Extended
    <2>7. PICK r2 : r2 = [pairs |-> q, open |-> i, name |-> <<>>, skipped |-> FALSE]
      OBVIOUS
    <2>11. Add(r, nm, val) = [Start EXCEPT !.pairs = q, !.open = i]
      BY <1>2, <1>5, <2>1, <2>6 DEF Add
    <2>8. Add(r, nm, val) = r2
      BY <2>7, <2>11 DEF Start
    <2>9. r2 \in Reading
      BY <2>2, <2>5, <2>7, TextFacts DEF Reading, Changed
    <2>10. r2.name = <<>> /\ r2.skipped = FALSE /\ r2.open = i /\ r2.pairs = q
      BY <2>7
    <2>12. FieldDone(r, l, r2, tx)
      BY <1>2, <1>4, <2>1, <2>3, <2>5, <2>8, <2>10 DEF FieldDone
    <2>13. QED
      BY <2>9, <2>12
  <1>8. CASE ~(\E j \in DOMAIN p : p[j][1] = nm)
    <2>1. i = 0
      BY <1>6, <1>8
    <2>2. PICK q, n : q = Append(p, <<nm, FirstText(nm, val)>>) /\ n = Len(p) + 1
      OBVIOUS
    <2>10. q = Append(p, <<nm, val>>)
      BY <1>2, <2>2 DEF FirstText
    <2>3. Changed(p, q, n, nm, val) /\ n \notin DOMAIN p /\ n \in Nat /\ n # 0
      BY <1>1, <1>2, <2>2, <2>10, PairAppended
    <2>4. PICK r2 : r2 = [pairs |-> q, open |-> n, name |-> <<>>, skipped |-> FALSE]
      OBVIOUS
    <2>8. Add(r, nm, val) = [Start EXCEPT !.pairs = q, !.open = n]
      BY <1>2, <1>5, <2>1, <2>2 DEF Add
    <2>5. Add(r, nm, val) = r2
      BY <2>4, <2>8 DEF Start
    <2>6. r2 \in Reading
      BY <2>3, <2>4, TextFacts DEF Reading, Changed
    <2>7. r2.name = <<>> /\ r2.skipped = FALSE /\ r2.open = n /\ r2.pairs = q
      BY <2>4
    <2>9. FieldDone(r, l, r2, val)
      BY <1>2, <1>4, <1>8, <2>3, <2>5, <2>7 DEF FieldDone
    <2>11. QED
      BY <2>6, <2>9
  <1>9. QED
    BY <1>7, <1>8

\* A continuation makes the open pair longer.
ContDone(r, l, r2, tx) ==
  /\ ReadLine(r, l) = r2 /\ r2.name = <<>> /\ r2.skipped = FALSE /\ r2.open = r.open
  /\ Changed(r.pairs, r2.pairs, r.open, r.pairs[r.open][1], tx)
  /\ tx = Append(r.pairs[r.open][2], l.cont)

LEMMA ContRead ==
  ASSUME NEW r \in Reading, r.name = <<>>, r.skipped = FALSE, r.open \in DOMAIN r.pairs, r.open # 0,
         NEW l \in Line, IsCont(l)
  PROVE  \E r2 \in Reading, tx \in Text : ContDone(r, l, r2, tx)
  <1>1. l.cont \in STRING /\ l # EmptyLine /\ ~IsField(l) /\ r.pairs \in Seq(Text \X Text)
    BY LineKinds DEF Reading
  <1>2. PICK p \in Seq(Text \X Text), i \in DOMAIN r.pairs : p = r.pairs /\ i = r.open
    BY <1>1
  <1>3. p[i][2] \in Text /\ i \in DOMAIN p /\ p \in Seq(Text \X Text)
    BY <1>1, <1>2, PairFacts
  <1>4. PICK tx \in Text : tx = Append(p[i][2], l.cont)
    BY <1>1, <1>3, TextFacts
  <1>5. PICK q : q = Extended(p, i, tx)
    OBVIOUS
  <1>6. Changed(p, q, i, p[i][1], tx)
    BY <1>3, <1>5, PairExtended
  <1>7. q = [p EXCEPT ![i][2] = Append(@, l.cont)]
    BY <1>4, <1>5 DEF Extended
  <1>8. PICK r2 : r2 = [r EXCEPT !.pairs = q]
    OBVIOUS
  <1>9. ReadLine(r, l) = r2
    BY <1>1, <1>2, <1>7, <1>8 DEF ReadLine, Reading
  <1>10. r2 \in Reading /\ r2.pairs = q /\ r2.open = i /\ r2.name = <<>> /\ r2.skipped = FALSE
    BY <1>2, <1>6, <1>8 DEF Reading, Changed
  <1>11. ContDone(r, l, r2, tx)
    BY <1>2, <1>4, <1>6, <1>9, <1>10 DEF ContDone
  <1>12. QED
    BY <1>10, <1>11

-----------------------------------------------------------------------------
(* What well-formed lines are read as. *)

\* No two pairs are of one name.
Unique(p) == \A i, j \in DOMAIN p : NameOf(p[i][1]) = NameOf(p[j][1]) => i = j

\* The fold for the name h has seen what the reader has.
Agrees(r, s, h) ==
  /\ s \in Voice(h)
  /\ s.any <=> \E i \in DOMAIN r.pairs : NameOf(r.pairs[i][1]) = h
  /\ s.mine <=> r.open # 0 /\ NameOf(r.pairs[r.open][1]) = h
  /\ \A i \in DOMAIN r.pairs : NameOf(r.pairs[i][1]) = h => r.pairs[i][2] = s.text

\* The names of the pairs are those of the fields.
SameNames(lines, p) ==
  /\ \A i \in DOMAIN p : \E k \in DOMAIN lines : IsField(lines[k]) /\ lines[k].name = p[i][1]
  /\ \A k \in DOMAIN lines : IsField(lines[k]) => \E i \in DOMAIN p : p[i][1] = lines[k].name

ReadWell(lines, r) ==
  /\ r \in Reading /\ r.name = <<>> /\ r.skipped = FALSE
  /\ lines # <<>> => r.open # 0 /\ r.open \in DOMAIN r.pairs
  /\ Unique(r.pairs) /\ SameNames(lines, r.pairs)
  /\ \A h : Agrees(r, Saying(lines, h), h)

\* A change of the only pair of its name leaves one pair of each name.
LEMMA UniqueKept ==
  ASSUME NEW p, NEW q, NEW i, NEW nm, NEW tx, Changed(p, q, i, nm, tx), Unique(p),
         \A j \in DOMAIN p : NameOf(p[j][1]) = NameOf(nm) => j = i
  PROVE  Unique(q)
  <1>1. SUFFICES ASSUME NEW j \in DOMAIN q, NEW k \in DOMAIN q, NameOf(q[j][1]) = NameOf(q[k][1]), j # i, k # i
                 PROVE  j = k
    <2>1. ASSUME NEW k \in DOMAIN q, k # i, NameOf(q[k][1]) = NameOf(nm) PROVE FALSE
      <3>1. k \in DOMAIN p /\ q[k] = p[k]
        BY <2>1 DEF Changed
      <3>2. QED
        BY <2>1, <3>1
    <2>2. q[i][1] = nm
      BY DEF Changed
    <2>3. QED
      BY <2>1, <2>2 DEF Unique
  <1>2. j \in DOMAIN p /\ k \in DOMAIN p /\ q[j] = p[j] /\ q[k] = p[k]
    BY <1>1 DEF Changed
  <1>3. NameOf(p[j][1]) = NameOf(p[k][1])
    BY <1>1, <1>2
  <1>4. QED
    BY <1>2, <1>3 DEF Unique

\* Where the names of the pairs after a change come from.
LEMMA ChangedNames ==
  ASSUME NEW p, NEW q, NEW i, NEW nm, NEW tx, Changed(p, q, i, nm, tx)
  PROVE  /\ \A j \in DOMAIN q : q[j][1] = nm \/ (j \in DOMAIN p /\ q[j][1] = p[j][1])
         /\ \A j \in DOMAIN p : j \in DOMAIN q /\ q[j][1] = p[j][1]
         /\ i \in DOMAIN q /\ q[i][1] = nm /\ q[i][2] = tx
         /\ \A j \in DOMAIN q : j # i => j \in DOMAIN p /\ q[j] = p[j]
  BY DEF Changed

\* A line more.
LEMMA LinesAppended ==
  ASSUME NEW s \in Seq(Line), NEW l \in Line
  PROVE  /\ Len(s) \in Nat /\ DOMAIN s = 1 .. Len(s) /\ Append(s, l) \in Seq(Line)
         /\ DOMAIN Append(s, l) = DOMAIN s \cup {Len(s) + 1} /\ Append(s, l) # <<>>
         /\ \A i \in DOMAIN s : Append(s, l)[i] = s[i] /\ s[i] \in Line
         /\ Append(s, l)[Len(s) + 1] = l
  <1>1. PICK n, t : n = Len(s) /\ t = Append(s, l)
    OBVIOUS
  <1>2. n \in Nat /\ DOMAIN s = 1 .. n /\ DOMAIN t = 1 .. n + 1
    BY <1>1
  <1>3. (\A i \in 1 .. n : t[i] = s[i] /\ s[i] \in Line) /\ t[n + 1] = l
    BY <1>1, <1>2
  <1>4. 1 .. n + 1 = (1 .. n) \cup {n + 1}
    BY <1>2
  <1>5. t # <<>>
    BY <1>2
  <1>6. QED
    BY <1>1, <1>2, <1>3, <1>4, <1>5

\* A field: its name and its text.
LEMMA FieldKeeps ==
  ASSUME NEW s \in Seq(Line), NEW l \in Line, IsField(l), UsualNames(Append(s, l)),
         NEW r, ReadWell(s, r)
  PROVE  ReadWell(Append(s, l), ReadLine(r, l))
  <1>1. PICK t \in Seq(Line) : t = Append(s, l)
    BY LinesAppended
  <1>2. PICK n \in Nat : n = Len(s)
    OBVIOUS
  <1>3. /\ DOMAIN t = DOMAIN s \cup {n + 1} /\ t # <<>> /\ t[n + 1] = l
        /\ \A i \in DOMAIN s : t[i] = s[i]
    BY <1>1, <1>2, LinesAppended
  <1>4. r \in Reading /\ r.name = <<>>
    BY DEF ReadWell
  <1>16. l.name \notin Inherited
    BY <1>1, <1>3 DEF UsualNames
  <1>5. PICK r2 \in Reading, tx \in Text : FieldDone(r, l, r2, tx)
    BY <1>4, <1>16, FieldRead
  <1>6. PICK p, q, i, nm : p = r.pairs /\ q = r2.pairs /\ i = r2.open /\ nm = l.name
    OBVIOUS
  <1>7. /\ r2 = ReadLine(r, l) /\ r2.name = <<>> /\ r2.skipped = FALSE /\ i # 0
        /\ Changed(p, q, i, nm, tx)
        /\ tx = IF i \in DOMAIN p THEN p[i][2] \o <<",">> \o l.val ELSE l.val
        /\ (\E j \in DOMAIN p : p[j][1] = nm) => i \in DOMAIN p
    BY <1>5, <1>6 DEF FieldDone
  <1>8. /\ \A j \in DOMAIN q : q[j][1] = nm \/ (j \in DOMAIN p /\ q[j][1] = p[j][1])
        /\ \A j \in DOMAIN p : j \in DOMAIN q /\ q[j][1] = p[j][1]
        /\ i \in DOMAIN q /\ q[i][1] = nm /\ q[i][2] = tx
        /\ \A j \in DOMAIN q : j # i => j \in DOMAIN p /\ q[j] = p[j]
    <2>1. Changed(p, q, i, nm, tx)
      BY <1>7
    <2>2. QED
      BY ONLY <2>1, ChangedNames
  <1>9. Unique(p) /\ SameNames(s, p)
    BY <1>6 DEF ReadWell
  <1>10. ASSUME NEW j \in DOMAIN p, NameOf(p[j][1]) = NameOf(nm) PROVE j = i
    <2>1. PICK k \in DOMAIN s : IsField(s[k]) /\ s[k].name = p[j][1]
      BY <1>9 DEF SameNames
    <2>2. t[k] = s[k] /\ k \in DOMAIN t /\ n + 1 \in DOMAIN t /\ t[n + 1] = l
      BY <1>3
    <2>3. t[k].name = l.name
      BY <1>1, <1>6, <1>10, <2>1, <2>2 DEF UsualNames
    <2>4. p[j][1] = nm
      BY <1>6, <2>1, <2>2, <2>3
    <2>5. i \in DOMAIN p
      BY <1>7, <2>4
    <2>6. p[i][1] = nm
      BY <1>7, <2>5 DEF Changed
    <2>7. QED
      BY <1>9, <2>4, <2>5, <2>6 DEF Unique
  <1>11. Unique(q)
    <2>1. Changed(p, q, i, nm, tx) /\ Unique(p)
      BY <1>7, <1>9
    <2>2. \A j \in DOMAIN p : NameOf(p[j][1]) = NameOf(nm) => j = i
      BY <1>10
    <2>3. QED
      BY ONLY <2>1, <2>2, UniqueKept
  <1>12. SameNames(t, q)
    <2>1. ASSUME NEW j \in DOMAIN q PROVE \E k \in DOMAIN t : IsField(t[k]) /\ t[k].name = q[j][1]
      <3>1. CASE q[j][1] = nm
        BY <1>3, <1>6, <3>1
      <3>2. CASE j \in DOMAIN p /\ q[j][1] = p[j][1]
        <4>1. PICK k \in DOMAIN s : IsField(s[k]) /\ s[k].name = p[j][1]
          BY <1>9, <3>2 DEF SameNames
        <4>2. QED
          BY <1>3, <3>2, <4>1
      <3>3. QED
        BY <1>8, <3>1, <3>2
    <2>2. ASSUME NEW k \in DOMAIN t, IsField(t[k]) PROVE \E j \in DOMAIN q : q[j][1] = t[k].name
      <3>1. CASE k = n + 1
        BY <1>3, <1>6, <1>8, <3>1
      <3>2. CASE k \in DOMAIN s
        <4>1. t[k] = s[k]
          BY <1>3, <3>2
        <4>2. PICK j \in DOMAIN p : p[j][1] = s[k].name
          BY <1>9, <2>2, <3>2, <4>1 DEF SameNames
        <4>3. QED
          BY <1>8, <4>1, <4>2
      <3>3. QED
        BY <1>3, <3>1, <3>2
    <2>3. QED
      BY <2>1, <2>2 DEF SameNames
  <1>13. ASSUME NEW h PROVE Agrees(r2, Saying(t, h), h)
    <2>1. PICK a, b : a = Saying(s, h) /\ b = Saying(t, h)
      OBVIOUS
    <2>2. b = Say(a, l)
      BY <1>1, <2>1, SayFolds
    <2>3. Agrees(r, a, h)
      BY <2>1 DEF ReadWell
    <2>4. a \in Voice(h) /\ a.of = h
      BY <2>3 DEF Agrees, Voice
    <2>5. l.val \in Text /\ l.name = nm
      BY <1>6, LineKinds
    <2>6. CASE NameOf(nm) = h
      <3>1. PICK tx2 : tx2 = IF a.any THEN a.text \o <<",">> \o l.val ELSE l.val
        OBVIOUS
      <3>2. b = [a EXCEPT !.mine = TRUE, !.any = TRUE, !.text = tx2]
        BY <2>2, <2>4, <2>5, <2>6, <3>1 DEF Say
      <3>3. tx2 = tx
        <4>1. CASE i \in DOMAIN p
          <5>1. p[i][1] = nm
            BY <1>7, <4>1 DEF Changed
          <5>2. a.any /\ p[i][2] = a.text
            BY <1>6, <2>3, <2>6, <4>1, <5>1 DEF Agrees
          <5>3. QED
            BY <1>7, <3>1, <4>1, <5>2
        <4>2. CASE i \notin DOMAIN p
          <5>1. ~a.any
            BY <1>6, <1>10, <2>3, <2>6, <4>2 DEF Agrees
          <5>2. QED
            BY <1>7, <3>1, <4>2, <5>1
        <4>3. QED
          BY <4>1, <4>2
      <3>4. b \in Voice(h) /\ b.mine = TRUE /\ b.any = TRUE /\ b.text = tx
        BY <2>4, <3>2, <3>3 DEF Voice
      <3>5. ASSUME NEW j \in DOMAIN q, NameOf(q[j][1]) = h PROVE q[j][2] = tx
        <4>1. j = i
          BY <1>8, <1>11, <2>6, <3>5 DEF Unique
        <4>2. QED
          BY <1>8, <4>1
      <3>6. QED
        BY <1>6, <1>7, <1>8, <2>1, <2>6, <3>4, <3>5 DEF Agrees
    <2>7. CASE NameOf(nm) # h
      <3>1. b = [a EXCEPT !.mine = FALSE, !.any = a.any, !.text = a.text]
        BY <2>2, <2>4, <2>5, <2>7 DEF Say, Voice
      <3>2. b \in Voice(h) /\ b.mine = FALSE /\ b.any = a.any /\ b.text = a.text
        BY <2>4, <3>1 DEF Voice
      <3>3. ASSUME NEW j \in DOMAIN q, NameOf(q[j][1]) = h PROVE j \in DOMAIN p /\ q[j] = p[j] /\ q[j][2] = a.text
        <4>1. j \in DOMAIN p /\ q[j] = p[j]
          BY <1>8, <2>7, <3>3
        <4>2. QED
          BY <1>6, <2>3, <3>3, <4>1 DEF Agrees
      <3>4. b.any <=> \E j \in DOMAIN q : NameOf(q[j][1]) = h
        BY <1>6, <1>8, <2>3, <3>2, <3>3 DEF Agrees
      <3>5. QED
        BY <1>6, <1>7, <1>8, <2>1, <2>7, <3>2, <3>3, <3>4 DEF Agrees
    <2>8. QED
      BY <2>6, <2>7
  <1>14. ReadWell(t, r2)
    BY <1>6, <1>7, <1>8, <1>11, <1>12, <1>13 DEF ReadWell
  <1>15. QED
    BY <1>1, <1>7, <1>14

\* A continuation: its text goes on.
LEMMA ContKeeps ==
  ASSUME NEW s \in Seq(Line), s # <<>>, NEW l \in Line, IsCont(l), NEW r, ReadWell(s, r)
  PROVE  ReadWell(Append(s, l), ReadLine(r, l))
  <1>1. PICK t \in Seq(Line) : t = Append(s, l)
    BY LinesAppended
  <1>2. PICK n \in Nat : n = Len(s)
    OBVIOUS
  <1>3. /\ DOMAIN t = DOMAIN s \cup {n + 1} /\ t # <<>> /\ t[n + 1] = l
        /\ \A i \in DOMAIN s : t[i] = s[i]
    BY <1>1, <1>2, LinesAppended
  <1>4. r \in Reading /\ r.name = <<>> /\ r.skipped = FALSE /\ r.open \in DOMAIN r.pairs /\ r.open # 0
    BY DEF ReadWell
  <1>5. PICK r2 \in Reading, tx \in Text : ContDone(r, l, r2, tx)
    BY <1>4, ContRead
  <1>6. PICK p, q, i, nm : p = r.pairs /\ q = r2.pairs /\ i = r.open /\ nm = p[i][1]
    OBVIOUS
  <1>7. /\ r2 = ReadLine(r, l) /\ r2.name = <<>> /\ r2.skipped = FALSE /\ r2.open = i /\ i # 0
        /\ Changed(p, q, i, nm, tx)
        /\ tx = Append(p[i][2], l.cont)
        /\ i \in DOMAIN p
    BY <1>4, <1>5, <1>6 DEF ContDone
  <1>8. /\ \A j \in DOMAIN q : q[j][1] = nm \/ (j \in DOMAIN p /\ q[j][1] = p[j][1])
        /\ \A j \in DOMAIN p : j \in DOMAIN q /\ q[j][1] = p[j][1]
        /\ i \in DOMAIN q /\ q[i][1] = nm /\ q[i][2] = tx
        /\ \A j \in DOMAIN q : j # i => j \in DOMAIN p /\ q[j] = p[j]
    <2>1. Changed(p, q, i, nm, tx)
      BY <1>7
    <2>2. QED
      BY ONLY <2>1, ChangedNames
  <1>9. Unique(p) /\ SameNames(s, p)
    BY <1>6 DEF ReadWell
  <1>10. \A j \in DOMAIN p : NameOf(p[j][1]) = NameOf(nm) => j = i
    BY <1>6, <1>7, <1>9 DEF Unique
  <1>11. Unique(q)
    <2>1. Changed(p, q, i, nm, tx) /\ Unique(p)
      BY <1>7, <1>9
    <2>2. \A j \in DOMAIN p : NameOf(p[j][1]) = NameOf(nm) => j = i
      BY <1>10
    <2>3. QED
      BY ONLY <2>1, <2>2, UniqueKept
  <1>16. ~IsField(l) /\ l.cont \in STRING
    BY LineKinds
  <1>17. \A j \in DOMAIN q : j \in DOMAIN p /\ q[j][1] = p[j][1]
    BY <1>6, <1>7, <1>8
  <1>12. SameNames(t, q)
    <2>1. ASSUME NEW j \in DOMAIN q PROVE \E k \in DOMAIN t : IsField(t[k]) /\ t[k].name = q[j][1]
      <3>1. PICK k \in DOMAIN s : IsField(s[k]) /\ s[k].name = p[j][1]
        BY <1>9, <1>17 DEF SameNames
      <3>2. QED
        BY <1>3, <1>17, <3>1
    <2>2. ASSUME NEW k \in DOMAIN t, IsField(t[k]) PROVE \E j \in DOMAIN q : q[j][1] = t[k].name
      <3>1. k \in DOMAIN s /\ t[k] = s[k]
        BY <1>3, <1>16, <2>2
      <3>2. PICK j \in DOMAIN p : p[j][1] = s[k].name
        BY <1>9, <2>2, <3>1 DEF SameNames
      <3>3. QED
        BY <1>8, <3>1, <3>2
    <2>3. QED
      BY <2>1, <2>2 DEF SameNames
  <1>13. ASSUME NEW h PROVE Agrees(r2, Saying(t, h), h)
    <2>1. PICK a, b : a = Saying(s, h) /\ b = Saying(t, h)
      OBVIOUS
    <2>2. b = Say(a, l)
      BY <1>1, <2>1, SayFolds
    <2>3. Agrees(r, a, h)
      BY <2>1 DEF ReadWell
    <2>4. a \in Voice(h) /\ a.of = h
      BY <2>3 DEF Agrees, Voice
    <2>5. a.mine <=> NameOf(nm) = h
      BY <1>6, <1>7, <2>3 DEF Agrees
    <2>6. CASE NameOf(nm) = h
      <3>1. a.mine = TRUE /\ a.text = p[i][2]
        BY <1>6, <1>7, <2>3, <2>4, <2>5, <2>6 DEF Agrees
      <3>2. b = [a EXCEPT !.text = tx]
        BY <1>7, <1>16, <2>2, <2>4, <3>1 DEF Say
      <3>4. b \in Voice(h) /\ b.mine = TRUE /\ b.any = a.any /\ b.text = tx
        BY <2>4, <3>1, <3>2 DEF Voice
      <3>5. ASSUME NEW j \in DOMAIN q, NameOf(q[j][1]) = h PROVE q[j][2] = tx
        <4>1. j = i
          BY <1>8, <1>11, <2>6, <3>5 DEF Unique
        <4>2. QED
          BY <1>8, <4>1
      <3>7. a.any <=> \E j \in DOMAIN p : NameOf(p[j][1]) = h
        BY <1>6, <2>3 DEF Agrees
      <3>8. b.any <=> \E j \in DOMAIN q : NameOf(q[j][1]) = h
        BY <1>8, <1>17, <3>4, <3>7
      <3>6. QED
        BY <1>6, <1>7, <1>8, <2>1, <2>6, <3>4, <3>5, <3>8 DEF Agrees
    <2>7. CASE NameOf(nm) # h
      <3>1. b = a /\ a.mine = FALSE
        BY <1>16, <2>2, <2>4, <2>5, <2>7 DEF Say
      <3>3. ASSUME NEW j \in DOMAIN q, NameOf(q[j][1]) = h PROVE q[j][2] = a.text
        <4>1. j \in DOMAIN p /\ q[j] = p[j]
          BY <1>8, <2>7, <3>3
        <4>2. QED
          BY <1>6, <2>3, <3>3, <4>1 DEF Agrees
      <3>7. a.any <=> \E j \in DOMAIN p : NameOf(p[j][1]) = h
        BY <1>6, <2>3 DEF Agrees
      <3>4. b.any <=> \E j \in DOMAIN q : NameOf(q[j][1]) = h
        BY <1>8, <1>17, <3>1, <3>7
      <3>5. ~(r2.open # 0 /\ NameOf(r2.pairs[r2.open][1]) = h)
        BY <1>6, <1>7, <1>8, <2>7
      <3>6. b \in Voice(h) /\ b.mine = FALSE
        BY <2>4, <3>1
      <3>8. QED
        BY <1>6, <2>1, <3>1, <3>3, <3>4, <3>5, <3>6 DEF Agrees
    <2>8. QED
      BY <2>6, <2>7
  <1>14. ReadWell(t, r2)
    BY <1>6, <1>7, <1>8, <1>11, <1>12, <1>13 DEF ReadWell
  <1>15. QED
    BY <1>1, <1>7, <1>14

\* Nothing has been read.
LEMMA NothingRead == ReadWell(<<>>, Start)
  <1>1. Start \in Reading /\ Start.name = <<>> /\ Start.skipped = FALSE /\ Start.pairs = <<>> /\ Start.open = 0
    <2>1. <<>> \in Text
      BY TextFacts
    <2>3. <<>> \in Seq(Text \X Text)
      OBVIOUS
    <2>2. QED
      BY <2>1, <2>3 DEF Start, Reading
  <1>2. DOMAIN Start.pairs = {}
    BY <1>1
  <1>3. ASSUME NEW h PROVE Agrees(Start, Saying(<<>>, h), h)
    <2>1. Saying(<<>>, h) = Silent(h)
      BY SayFolds
    <2>2. Silent(h) \in Voice(h) /\ ~Silent(h).any /\ ~Silent(h).mine
      BY TextFacts DEF Silent, Voice
    <2>3. QED
      BY <1>1, <1>2, <2>1, <2>2 DEF Agrees
  <1>4. Unique(Start.pairs) /\ SameNames(<<>>, Start.pairs)
    BY <1>2 DEF Unique, SameNames
  <1>5. QED
    BY <1>1, <1>3, <1>4 DEF ReadWell

\* Well-formed lines are read to the end, as what they say.
LEMMA WellReadable ==
  ASSUME NEW s \in Seq(Line), WellFormed(s), UsualNames(s)
  PROVE  ReadWell(s, Scan(s))
  <1> DEFINE T == {t \in Seq(Line) : WellFormed(t) /\ UsualNames(t) => ReadWell(t, Scan(t))}
  <1>1. <<>> \in T
    BY NothingRead, ReadFolds
  <1>2. ASSUME NEW t \in T, NEW l \in Line PROVE Append(t, l) \in T
    <2>1. t \in Seq(Line)
      OBVIOUS
    <2>2. PICK u \in Seq(Line) : u = Append(t, l)
      BY <2>1, LinesAppended
    <2>3. SUFFICES ASSUME WellFormed(u), UsualNames(u) PROVE ReadWell(u, Scan(u))
      BY <2>2
    <2>4. PICK n \in Nat : n = Len(t)
      BY <2>1
    <2>5. /\ DOMAIN t = 1 .. n /\ DOMAIN u = DOMAIN t \cup {n + 1} /\ u # <<>> /\ u[n + 1] = l
          /\ \A i \in DOMAIN t : u[i] = t[i]
      BY <2>1, <2>2, <2>4, LinesAppended
    <2>6. WellFormed(t)
      <3>1. t # <<>> => 1 \in DOMAIN t
        BY <2>1
      <3>2. QED
        BY <2>3, <2>5, <3>1 DEF WellFormed
    <2>7. UsualNames(t)
      BY <2>3, <2>5 DEF UsualNames
    <2>8. ReadWell(t, Scan(t))
      BY <2>6, <2>7
    <2>9. Scan(u) = ReadLine(Scan(t), l)
      BY <2>1, <2>2, ReadFolds
    <2>10. CASE IsField(l)
      <3>1. ReadWell(Append(t, l), ReadLine(Scan(t), l))
        BY <2>1, <2>2, <2>3, <2>8, <2>10, FieldKeeps
      <3>2. QED
        BY <2>2, <2>9, <3>1
    <2>11. CASE ~IsField(l)
      <3>1. IsCont(l)
        BY <2>3, <2>5, <2>11 DEF WellFormed
      <3>2. t # <<>>
        <4>1. SUFFICES ASSUME t = <<>> PROVE FALSE
          OBVIOUS
        <4>2. n = 0
          BY <2>4, <4>1
        <4>3. u[1] = l
          BY <2>5, <4>2
        <4>4. QED
          BY <2>3, <2>5, <2>11, <4>3 DEF WellFormed
      <3>3. ReadWell(Append(t, l), ReadLine(Scan(t), l))
        BY <2>1, <2>8, <3>1, <3>2, ContKeeps
      <3>4. QED
        BY <2>2, <2>9, <3>3
    <2>12. QED
      BY <2>10, <2>11
  <1>3. T = Seq(Line)
    <2> HIDE DEF T
    <2>1. T \subseteq Seq(Line)
      BY DEF T
    <2>2. QED
      BY <1>1, <1>2, <2>1, SequenceInduction
  <1>4. QED
    BY <1>3

\* The last pair of a name, and what the constructor makes of the pairs.
LEMMA HeadersOfPairs ==
  ASSUME NEW p \in Seq(Text \X Text), Unique(p)
  PROVE  /\ DOMAIN Headers(p) = {NameOf(p[i][1]) : i \in DOMAIN p}
         /\ \A i \in DOMAIN p : Headers(p)[NameOf(p[i][1])] = p[i][2]
  <1>1. DOMAIN Headers(p) = {NameOf(p[i][1]) : i \in DOMAIN p}
    BY DEF Headers
  <1>2. ASSUME NEW i \in DOMAIN p PROVE Headers(p)[NameOf(p[i][1])] = p[i][2]
    <2>1. PICK h : h = NameOf(p[i][1])
      OBVIOUS
    <2>2. PICK k : k = SelectLastInSeq(p, LAMBDA pair : NameOf(pair[1]) = h)
      OBVIOUS
    <2>3. PICK I : I = {j \in 1 .. Len(p) : NameOf(p[j][1]) = h}
      OBVIOUS
    <2>4. k = IF I # {} THEN Max(I) ELSE 0
      BY <2>2, <2>3 DEF SelectLastInSeq
    <2>5. DOMAIN p = 1 .. Len(p) /\ Len(p) \in Nat
      OBVIOUS
    <2>6. I = {i}
      BY <2>1, <2>3, <2>5 DEF Unique
    <2>7. i \in I /\ \A y \in I : i >= y
      BY <2>5, <2>6
    <2>8. Max(I) = i
      BY <2>6, <2>7 DEF Max
    <2>9. k = i
      BY <2>4, <2>6, <2>8
    <2>10. Headers(p)[h] = p[k][2]
      BY <1>1, <2>1, <2>2 DEF Headers
    <2>11. QED
      BY <2>1, <2>9, <2>10
  <1>3. QED
    BY <1>1, <1>2

\* A name of which the known spelling is the name, or which is not known.
Familiar(h) == h \in DOMAIN Canonical <=> h \in ToSet(Known)

\* What the constructor makes of a name is a text, of a known name that name.
LEMMA NamesAreTexts ==
  ASSUME NEW h \in Text
  PROVE  NameOf(h) \in Text /\ Familiar(NameOf(h))
  <1>1. Dashed(h) \in Text
    <2>1. PICK S, d, i : S = STRING /\ d = "-" /\ i = SelectInSeq(h, LAMBDA c : c = "_")
      OBVIOUS
    <2>7. h \in Seq(S) /\ d \in S
      BY <2>1, KnownAssumption DEF Text
    <2>2. h \in Seq(S) /\ d \in S /\ DOMAIN h = 1 .. Len(h)
      BY <2>7
    <2>3. i \in 1 .. Len(h) => [h EXCEPT ![i] = d] \in Seq(S)
      BY <2>2
    <2>4. i \notin 1 .. Len(h) => [h EXCEPT ![i] = d] = h
      BY <2>2
    <2>5. Dashed(h) = h \/ Dashed(h) = [h EXCEPT ![i] = d]
      BY <2>1 DEF Dashed
    <2>6. QED
      BY <2>1, <2>2, <2>3, <2>4, <2>5 DEF Text
  <1>2. \A g \in DOMAIN Canonical : Canonical[g] \in ToSet(Known)
    BY KnownAssumption
  <1>3. ToSet(Known) \subseteq Text /\ ToSet(Known) \subseteq DOMAIN Canonical
    BY KnownAssumption DEF ToSet
  <1>4. QED
    BY <1>1, <1>2, <1>3 DEF NameOf, Familiar

\* What the lines say is what is read of them.
LEMMA ReadsFields ==
  ASSUME NEW s \in Seq(Line), WellFormed(s), UsualNames(s)
  PROVE  /\ ~Throws(s) /\ parse(s) = Fields(s)
         /\ DOMAIN Fields(s) = {NameOf(s[k].name) : k \in {i \in DOMAIN s : IsField(s[i])}}
         /\ \A h \in DOMAIN Fields(s) : h \in Text /\ Fields(s)[h] \in Text /\ Familiar(h)
         /\ \A h \in DOMAIN Fields(s) : Fields(s)[h] = Saying(s, h).text
  <1>1. PICK r : r = Scan(s)
    OBVIOUS
  <1>2. ReadWell(s, r)
    BY <1>1, WellReadable
  <1>3. PICK p : p = r.pairs
    OBVIOUS
  <1>4. /\ r \in Reading /\ r.name = <<>> /\ r.skipped = FALSE /\ p \in Seq(Text \X Text)
        /\ Unique(p) /\ SameNames(s, p)
    BY <1>2, <1>3 DEF ReadWell, Reading
  <1>5. ~Throws(s)
    BY <1>1, <1>4 DEF Throws
  <1>6. /\ DOMAIN Headers(p) = {NameOf(p[i][1]) : i \in DOMAIN p}
        /\ \A i \in DOMAIN p : Headers(p)[NameOf(p[i][1])] = p[i][2]
    BY <1>4, HeadersOfPairs
  <1>7. DOMAIN Fields(s) = {NameOf(s[k].name) : k \in {i \in DOMAIN s : IsField(s[i])}}
    BY DEF Fields
  <1>8. DOMAIN Headers(p) = DOMAIN Fields(s)
    BY <1>4, <1>6, <1>7 DEF SameNames
  <1>9. ASSUME NEW h \in DOMAIN Fields(s)
        PROVE  /\ Headers(p)[h] = Fields(s)[h] /\ Fields(s)[h] = Saying(s, h).text /\ Fields(s)[h] \in Text
               /\ h \in Text /\ Familiar(h)
    <2>1. PICK i \in DOMAIN p : NameOf(p[i][1]) = h
      BY <1>6, <1>8
    <2>2. Agrees(r, Saying(s, h), h)
      BY <1>2 DEF ReadWell
    <2>3. p[i][2] = Saying(s, h).text
      BY <1>3, <2>1, <2>2 DEF Agrees
    <2>4. Headers(p)[h] = p[i][2]
      BY <1>6, <2>1
    <2>5. Fields(s)[h] = Said(s, h)
      BY DEF Fields
    <2>6. Said(s, h) = Saying(s, h).text
      BY DEF Said, Saying, SayFrom, Silent
    <2>7. p[i][1] \in Text /\ p[i][2] \in Text
      BY <1>4, PairFacts
    <2>8. h \in Text /\ Familiar(h)
      BY <2>1, <2>7, NamesAreTexts
    <2>9. QED
      BY <2>3, <2>4, <2>5, <2>6, <2>7, <2>8
  <1>10. parse(s) = Fields(s)
    <2>1. parse(s) = Headers(p)
      BY <1>1, <1>3 DEF parse
    <2>2. Headers(p) = [h \in DOMAIN Headers(p) |-> Headers(p)[h]]
      BY DEF Headers
    <2>3. Fields(s) = [h \in DOMAIN Fields(s) |-> Fields(s)[h]]
      BY DEF Fields
    <2>4. QED
      BY <1>8, <1>9, <2>1, <2>2, <2>3
  <1>11. QED
    BY <1>5, <1>7, <1>9, <1>10

-----------------------------------------------------------------------------
(* Headers that are written and read again. *)

\* What header objects are like: some names, and those that are known are
\* in their canonical spelling.
Header(hs) ==
  /\ hs = [h \in DOMAIN hs |-> hs[h]] /\ IsFiniteSet(DOMAIN hs)
  /\ \A h \in DOMAIN hs : h \in Text /\ hs[h] \in Text /\ Familiar(h)

\* The names in nm are those of D, each of them once.
NamesOnce(nm, D) ==
  /\ nm \in Seq(D) /\ \A h \in D : \E i \in DOMAIN nm : nm[i] = h
  /\ \A i, j \in DOMAIN nm : nm[i] = nm[j] => i = j

\* The names of s that hs has.
PicksOf(hs, s, p) ==
  /\ p = [of |-> hs, names |-> p.names]
  /\ NamesOnce(p.names, {s[i] : i \in DOMAIN s} \cap DOMAIN hs)

\* A name more.
LEMMA NamesMore ==
  ASSUME NEW D, NEW nm, NamesOnce(nm, D), NEW h, h \notin D
  PROVE  NamesOnce(Append(nm, h), D \cup {h})
  <1>1. PICK E, q : E = D \cup {h} /\ q = Append(nm, h)
    OBVIOUS
  <1>2. nm \in Seq(D) /\ \A i \in DOMAIN nm : nm[i] \in D
    BY DEF NamesOnce
  <1>3. nm \in Seq(E) /\ h \in E
    BY <1>1, <1>2
  <1>4. PICK n : n = Len(nm)
    OBVIOUS
  <1>5. /\ n \in Nat /\ DOMAIN nm = 1 .. n /\ q \in Seq(E) /\ DOMAIN q = 1 .. n + 1
        /\ \A i \in 1 .. n : q[i] = nm[i]
        /\ q[n + 1] = h
    BY <1>1, <1>3, <1>4, PushOne
  <1>6. \A g \in E : \E i \in DOMAIN q : q[i] = g
    <2>1. ASSUME NEW g \in D PROVE \E i \in DOMAIN q : q[i] = g
      <3>1. PICK i \in DOMAIN nm : nm[i] = g
        BY DEF NamesOnce
      <3>2. q[i] = g /\ i \in DOMAIN q
        BY <1>5, <3>1
      <3>3. QED
        BY <3>2
    <2>2. n + 1 \in DOMAIN q
      BY <1>5
    <2>3. QED
      BY <1>1, <1>5, <2>1, <2>2
  <1>7. ASSUME NEW i \in DOMAIN q, NEW j \in DOMAIN q, q[i] = q[j] PROVE i = j
    <2>1. \A k \in 1 .. n : q[k] \in D /\ q[k] # h
      BY <1>2, <1>5
    <2>2. i \in 1 .. n <=> j \in 1 .. n
      <3>1. \A k \in DOMAIN q : k \in 1 .. n \/ k = n + 1
        BY <1>5
      <3>2. QED
        BY <1>5, <1>7, <2>1, <3>1
    <2>3. CASE i \in 1 .. n
      <3>1. nm[i] = nm[j]
        BY <1>5, <1>7, <2>2, <2>3
      <3>2. QED
        BY <1>5, <2>2, <2>3, <3>1 DEF NamesOnce
    <2>4. CASE i \notin 1 .. n
      BY <1>5, <2>2, <2>4
    <2>5. QED
      BY <2>3, <2>4
  <1>8. QED
    BY <1>1, <1>5, <1>6, <1>7 DEF NamesOnce

\* A known name more.
LEMMA PicksMore ==
  ASSUME NEW hs, NEW s \in Seq(Text), NEW h \in Text, \A i \in DOMAIN s : s[i] # h,
         NEW p, PicksOf(hs, s, p)
  PROVE  PicksOf(hs, Append(s, h), PickKnown(p, h))
  <1>1. PICK t, n : t = Append(s, h) /\ n = Len(s)
    OBVIOUS
  <1>2. /\ n \in Nat /\ DOMAIN s = 1 .. n /\ DOMAIN t = 1 .. n + 1
        /\ \A i \in 1 .. n : t[i] = s[i]
        /\ t[n + 1] = h
    BY <1>1, PushOne
  <1>3. PICK D : D = {s[i] : i \in DOMAIN s}
    OBVIOUS
  <1>4. {t[i] : i \in DOMAIN t} = D \cup {h} /\ h \notin D
    BY <1>2, <1>3
  <1>5. PICK nm : nm = p.names
    OBVIOUS
  <1>6. p = [of |-> hs, names |-> nm] /\ NamesOnce(nm, D \cap DOMAIN hs)
    BY <1>3, <1>5 DEF PicksOf
  <1>7. CASE h \in DOMAIN hs
    <2>1. PickKnown(p, h) = [of |-> hs, names |-> Append(nm, h)]
      BY <1>6, <1>7 DEF PickKnown
    <2>2. NamesOnce(Append(nm, h), (D \cap DOMAIN hs) \cup {h})
      <3>1. h \notin D \cap DOMAIN hs
        BY <1>4
      <3>2. NamesOnce(nm, D \cap DOMAIN hs)
        BY <1>6
      <3>3. QED
        BY ONLY <3>1, <3>2, NamesMore
    <2>3. (D \cap DOMAIN hs) \cup {h} = (D \cup {h}) \cap DOMAIN hs
      BY <1>7
    <2>4. PICK q : q = PickKnown(p, h)
      OBVIOUS
    <2>5. q.names = Append(nm, h) /\ q = [of |-> hs, names |-> q.names]
      BY <2>1, <2>4
    <2>6. {t[i] : i \in DOMAIN t} \cap DOMAIN hs = (D \cap DOMAIN hs) \cup {h}
      BY <1>4, <2>3
    <2>7. NamesOnce(q.names, {t[i] : i \in DOMAIN t} \cap DOMAIN hs)
      BY <2>2, <2>5, <2>6
    <2>8. PicksOf(hs, t, q)
      BY <2>5, <2>7 DEF PicksOf
    <2>9. QED
      BY <1>1, <2>4, <2>8
  <1>8. CASE h \notin DOMAIN hs
    <2>1. PickKnown(p, h) = p
      BY <1>6, <1>8 DEF PickKnown
    <2>2. D \cap DOMAIN hs = (D \cup {h}) \cap DOMAIN hs
      BY <1>8
    <2>3. QED
      BY <1>1, <1>4, <1>5, <1>6, <2>1, <2>2 DEF PicksOf
  <1>9. QED
    BY <1>7, <1>8

\* The known names that hs has.
LEMMA PickedNames ==
  ASSUME NEW hs
  PROVE  NamesOnce(Picked(hs), ToSet(Known) \cap DOMAIN hs)
  <1> DEFINE Once(s) == \A i, j \in DOMAIN s : s[i] = s[j] => i = j
             from == [of |-> hs, names |-> <<>>]
             T == {s \in Seq(Text) : Once(s) => PicksOf(hs, s, PickFrom(from, s))}
  <1>1. <<>> \in T
    <2>1. PickFrom(from, <<>>) = from
      BY PickFolds
    <2>2. NamesOnce(<<>>, {} \cap DOMAIN hs)
      BY DEF NamesOnce
    <2>3. {<<>>[i] : i \in DOMAIN <<>>} = {}
      OBVIOUS
    <2>4. PicksOf(hs, <<>>, from)
      BY <2>2, <2>3 DEF PicksOf
    <2>5. QED
      BY <2>1, <2>4
  <1>2. ASSUME NEW s \in T, NEW h \in Text PROVE Append(s, h) \in T
    <2>1. PICK t, n : t = Append(s, h) /\ n = Len(s)
      OBVIOUS
    <2>2. /\ s \in Seq(Text) /\ n \in Nat /\ DOMAIN s = 1 .. n /\ t \in Seq(Text) /\ DOMAIN t = 1 .. n + 1
          /\ \A i \in 1 .. n : t[i] = s[i]
          /\ t[n + 1] = h
      BY <2>1, PushOne
    <2>3. SUFFICES ASSUME Once(t) PROVE PicksOf(hs, t, PickFrom(from, t))
      BY <2>1, <2>2
    <2>4. Once(s)
      BY <2>2, <2>3
    <2>5. \A i \in DOMAIN s : s[i] # h
      <3>1. \A i \in 1 .. n : i \in 1 .. n + 1 /\ n + 1 \in 1 .. n + 1 /\ i # n + 1
        BY <2>2
      <3>2. QED
        BY <2>2, <2>3, <3>1
    <2>6. PICK p : p = PickFrom(from, s)
      OBVIOUS
    <2>7. PicksOf(hs, s, p)
      BY <2>4, <2>6
    <2>8. PickFrom(from, t) = PickKnown(p, h)
      BY <2>1, <2>2, <2>6, PickFolds
    <2>9. PicksOf(hs, Append(s, h), PickKnown(p, h))
      <3>1. s \in Seq(Text) /\ h \in Text
        BY <2>2
      <3>2. QED
        BY ONLY <2>5, <2>7, <3>1, PicksMore
    <2>10. QED
      BY <2>1, <2>8, <2>9
  <1>3. T = Seq(Text)
    <2> HIDE DEF T
    <2>1. T \subseteq Seq(Text)
      BY DEF T
    <2>2. QED
      BY <1>1, <1>2, <2>1, SequenceInduction
  <1>4. Once(Known) /\ Known \in Seq(Text)
    BY KnownAssumption DEF IsInjective
  <1>5. PicksOf(hs, Known, PickFrom(from, Known))
    BY <1>3, <1>4
  <1>6. QED
    BY <1>5 DEF PicksOf, Picked, PickFrom, ToSet

\* The others, in some order.
LEMMA SetListed ==
  ASSUME NEW S, IsFiniteSet(S)
  PROVE  NamesOnce(SetToSeq(S), S)
  <1>1. PICK n : n = Cardinality(S)
    OBVIOUS
  <1>2. n \in Nat /\ ExistsBijection(1 .. n, S)
    BY <1>1, FS_CardinalityType
  <1>3. \E f \in [1 .. n -> S] : IsInjective(f)
    BY <1>2 DEF ExistsBijection, Bijection, Injection
  <1>4. PICK f : f = SetToSeq(S)
    OBVIOUS
  <1>5. f \in [1 .. n -> S] /\ IsInjective(f)
    BY <1>1, <1>3, <1>4 DEF SetToSeq
  <1>6. f \in Injection(1 .. n, S)
    BY <1>5 DEF Injection
  <1>7. IsFiniteSet(1 .. n) /\ Cardinality(1 .. n) = n
    BY <1>2, FS_Interval
  <1>8. f \in Surjection(1 .. n, S)
    BY <1>1, <1>6, <1>7, FS_Injection
  <1>9. f \in Seq(S)
    BY <1>2, <1>5
  <1>10. QED
    BY <1>4, <1>5, <1>8, <1>9 DEF NamesOnce, Surjection, IsInjective

\* Two lists of different names, one after the other.
LEMMA NamesJoined ==
  ASSUME NEW D, NEW E, D \cap E = {}, NEW s, NEW t, NamesOnce(s, D), NamesOnce(t, E)
  PROVE  NamesOnce(s \o t, D \cup E)
  <1>1. PICK F, u : F = D \cup E /\ u = s \o t
    OBVIOUS
  <1>2. /\ s \in Seq(D) /\ t \in Seq(E)
        /\ \A i \in DOMAIN s : s[i] \in D
        /\ \A i \in DOMAIN t : t[i] \in E
    BY DEF NamesOnce
  <1>3. s \in Seq(F) /\ t \in Seq(F)
    BY <1>1, <1>2
  <1>4. PICK m, n : m = Len(s) /\ n = Len(t)
    OBVIOUS
  <1>5. m \in Nat /\ n \in Nat /\ DOMAIN s = 1 .. m /\ DOMAIN t = 1 .. n
    BY <1>2, <1>4
  <1>6. /\ u \in Seq(F) /\ Len(u) = m + n
        /\ \A i \in 1 .. m + n : u[i] = IF i <= m THEN s[i] ELSE t[i - m]
    BY <1>1, <1>3, <1>4, ConcatProperties
  <1>7. DOMAIN u = 1 .. m + n
    BY <1>6
  <1>8. \A i \in DOMAIN u : \/ i \in 1 .. m /\ u[i] = s[i] /\ u[i] \in D /\ u[i] \notin E
                            \/ i - m \in 1 .. n /\ u[i] = t[i - m] /\ u[i] \in E /\ u[i] \notin D
    <2>1. ASSUME NEW i \in 1 .. m + n
          PROVE  \/ i \in 1 .. m /\ u[i] = s[i] /\ u[i] \in D /\ u[i] \notin E
                 \/ i - m \in 1 .. n /\ u[i] = t[i - m] /\ u[i] \in E /\ u[i] \notin D
      <3>1. CASE i <= m
        <4>1. i \in 1 .. m
          BY <1>5, <3>1
        <4>2. QED
          BY <1>2, <1>5, <1>6, <3>1, <4>1
      <3>2. CASE ~(i <= m)
        <4>1. i - m \in 1 .. n
          BY <1>5, <3>2
        <4>2. QED
          BY <1>2, <1>5, <1>6, <3>2, <4>1
      <3>3. QED
        BY <3>1, <3>2
    <2>2. QED
      BY <1>7, <2>1
  <1>9. \A g \in F : \E i \in DOMAIN u : u[i] = g
    <2>1. ASSUME NEW g \in D PROVE \E i \in DOMAIN u : u[i] = g
      <3>1. PICK i \in 1 .. m : s[i] = g
        BY <1>5 DEF NamesOnce
      <3>2. i \in 1 .. m + n /\ i <= m
        BY <1>5
      <3>3. QED
        BY <1>6, <1>7, <3>1, <3>2
    <2>2. ASSUME NEW g \in E PROVE \E i \in DOMAIN u : u[i] = g
      <3>1. PICK i \in 1 .. n : t[i] = g
        BY <1>5 DEF NamesOnce
      <3>2. i + m \in 1 .. m + n /\ ~(i + m <= m) /\ i + m - m = i
        BY <1>5
      <3>3. PICK k : k = i + m
        OBVIOUS
      <3>6. k \in 1 .. m + n /\ ~(k <= m) /\ k - m = i
        BY <1>5, <3>2, <3>3
      <3>4. u[k] = t[k - m] /\ k \in DOMAIN u /\ k - m = i
        BY <1>6, <1>7, <3>6
      <3>5. QED
        BY <3>1, <3>4
    <2>3. QED
      BY <1>1, <2>1, <2>2
  <1>10. ASSUME NEW i \in DOMAIN u, NEW j \in DOMAIN u, u[i] = u[j] PROVE i = j
    <2>1. i \in Int /\ j \in Int
      BY <1>7
    <2>2. CASE u[i] \in D
      <3>1. i \in 1 .. m /\ j \in 1 .. m /\ s[i] = s[j]
        BY <1>8, <1>10, <2>2
      <3>2. QED
        BY <1>5, <3>1 DEF NamesOnce
    <2>3. CASE u[i] \notin D
      <3>1. i - m \in 1 .. n /\ j - m \in 1 .. n /\ t[i - m] = t[j - m]
        BY <1>8, <1>10, <2>3
      <3>2. i - m = j - m
        BY <1>5, <3>1 DEF NamesOnce
      <3>3. QED
        BY <1>5, <2>1, <3>2
    <2>4. QED
      BY <2>2, <2>3
  <1>11. QED
    BY <1>1, <1>6, <1>9, <1>10 DEF NamesOnce

\* Each header is written once.
LEMMA WrittenOnce ==
  ASSUME NEW hs, Header(hs)
  PROVE  \E nm : /\ NamesOnce(nm, DOMAIN hs)
                 /\ Written(hs) = [i \in DOMAIN nm |-> [name |-> nm[i], val |-> hs[nm[i]]]]
  <1>1. PICK D, E : D = ToSet(Known) \cap DOMAIN hs /\ E = {h \in DOMAIN hs : h \notin DOMAIN Canonical}
    OBVIOUS
  <1>2. \A h \in DOMAIN hs : h \in DOMAIN Canonical <=> h \in ToSet(Known)
    BY DEF Header, Familiar
  <1>3. D \cap E = {} /\ D \cup E = DOMAIN hs
    BY <1>1, <1>2
  <1>4. IsFiniteSet(E)
    BY <1>1, FS_Subset DEF Header
  <1>5. NamesOnce(Picked(hs), D) /\ NamesOnce(SetToSeq(E), E)
    BY <1>1, <1>4, PickedNames, SetListed
  <1>6. PICK nm : nm = Picked(hs) \o SetToSeq(E)
    OBVIOUS
  <1>7. NamesOnce(Picked(hs) \o SetToSeq(E), D \cup E)
    BY ONLY <1>3, <1>5, NamesJoined
  <1>8. NamesOnce(nm, DOMAIN hs)
    BY <1>3, <1>6, <1>7
  <1>9. Written(hs) = [i \in DOMAIN nm |-> [name |-> nm[i], val |-> hs[nm[i]]]]
    BY <1>1, <1>6 DEF Written
  <1>10. QED
    BY <1>8, <1>9

\* Lines that are fields of different names.
Plain(s) ==
  /\ \A i \in DOMAIN s : IsField(s[i])
  /\ \A i, j \in DOMAIN s : NameOf(s[i].name) = NameOf(s[j].name) => i = j

SaysPlain(s, a, h) ==
  /\ a \in Voice(h)
  /\ a.any <=> \E i \in DOMAIN s : NameOf(s[i].name) = h
  /\ \A i \in DOMAIN s : NameOf(s[i].name) = h => a.text = s[i].val

\* One such line more.
LEMMA PlainMore ==
  ASSUME NEW s \in Seq(Line), NEW l \in Line, Plain(Append(s, l)), NEW h, NEW a, SaysPlain(s, a, h)
  PROVE  SaysPlain(Append(s, l), Say(a, l), h)
  <1>1. PICK t, n : t = Append(s, l) /\ n = Len(s)
    OBVIOUS
  <1>2. /\ n \in Nat /\ DOMAIN s = 1 .. n /\ DOMAIN t = DOMAIN s \cup {n + 1} /\ t[n + 1] = l
        /\ \A i \in DOMAIN s : t[i] = s[i]
    BY <1>1, LinesAppended
  <1>3. Plain(t)
    BY <1>1
  <1>4. IsField(l) /\ l.val \in Text
    BY <1>2, <1>3, LineKinds DEF Plain
  <1>5. a \in Voice(h) /\ a.of = h
    BY DEF SaysPlain, Voice
  <1>6. PICK b : b = Say(a, l)
    OBVIOUS
  <1>7. CASE NameOf(l.name) = h
    <2>1. ASSUME NEW i \in DOMAIN t, NameOf(t[i].name) = h PROVE i = n + 1
      BY <1>2, <1>3, <1>7, <2>1 DEF Plain
    <2>2. ASSUME a.any PROVE FALSE
      <3>1. PICK i \in DOMAIN s : NameOf(s[i].name) = h
        BY <2>2 DEF SaysPlain
      <3>2. i = n + 1 /\ i \in 1 .. n
        BY <1>2, <2>1, <3>1
      <3>3. QED
        BY <1>2, <3>2
    <2>3. b = [a EXCEPT !.mine = TRUE, !.any = TRUE, !.text = l.val]
      BY <1>4, <1>5, <1>6, <1>7, <2>2 DEF Say
    <2>4. b \in Voice(h) /\ b.any = TRUE /\ b.text = l.val
      BY <1>4, <1>5, <2>3 DEF Voice
    <2>5. QED
      BY <1>1, <1>2, <1>6, <1>7, <2>1, <2>4 DEF SaysPlain
  <1>8. CASE NameOf(l.name) # h
    <2>1. b = [a EXCEPT !.mine = FALSE, !.any = a.any, !.text = a.text]
      BY <1>4, <1>5, <1>6, <1>8 DEF Say, Voice
    <2>2. b \in Voice(h) /\ b.any = a.any /\ b.text = a.text
      BY <1>5, <2>1 DEF Voice
    <2>3. \A i \in DOMAIN t : NameOf(t[i].name) = h => i \in DOMAIN s /\ t[i] = s[i]
      BY <1>2, <1>8
    <2>4. QED
      BY <1>1, <1>2, <1>6, <2>2, <2>3 DEF SaysPlain
  <1>9. QED
    BY <1>7, <1>8

\* Of such lines each one says all there is of its name.
LEMMA PlainSaid ==
  ASSUME NEW h, NEW s \in Seq(Line), Plain(s)
  PROVE  SaysPlain(s, Saying(s, h), h)
  <1> DEFINE T == {t \in Seq(Line) : Plain(t) => SaysPlain(t, Saying(t, h), h)}
  <1>1. <<>> \in T
    <2>1. Saying(<<>>, h) = Silent(h) /\ <<>> \in Text
      BY SayFolds, TextFacts
    <2>2. Silent(h) \in Voice(h) /\ ~Silent(h).any
      BY <2>1 DEF Silent, Voice
    <2>3. QED
      BY <2>1, <2>2 DEF SaysPlain
  <1>2. ASSUME NEW t \in T, NEW l \in Line PROVE Append(t, l) \in T
    <2>1. t \in Seq(Line) /\ Append(t, l) \in Seq(Line)
      BY LinesAppended
    <2>2. SUFFICES ASSUME Plain(Append(t, l)) PROVE SaysPlain(Append(t, l), Saying(Append(t, l), h), h)
      BY <2>1
    <2>3. Plain(t)
      <3>1. PICK u, n : u = Append(t, l) /\ n = Len(t)
        OBVIOUS
      <3>2. /\ DOMAIN u = DOMAIN t \cup {n + 1}
            /\ \A i \in DOMAIN t : u[i] = t[i]
        BY <2>1, <3>1, LinesAppended
      <3>3. Plain(u)
        BY <2>2, <3>1
      <3>4. QED
        BY <3>2, <3>3 DEF Plain
    <2>4. SaysPlain(t, Saying(t, h), h)
      BY <2>3
    <2>5. Saying(Append(t, l), h) = Say(Saying(t, h), l)
      BY <2>1, SayFolds
    <2>6. SaysPlain(Append(t, l), Say(Saying(t, h), l), h)
      BY <2>1, <2>2, <2>4, PlainMore
    <2>7. QED
      BY <2>5, <2>6
  <1>3. T = Seq(Line)
    <2> HIDE DEF T
    <2>1. T \subseteq Seq(Line)
      BY DEF T
    <2>2. QED
      BY <1>1, <1>2, <2>1, SequenceInduction
  <1>4. QED
    BY <1>3

\* Headers survive being written and read again.
LEMMA WrittenReads ==
  ASSUME NEW hs, Header(hs), Settled(hs)
  PROVE  ~Throws(Written(hs)) /\ parse(Written(hs)) = hs
  <1>1. PICK s : s = Written(hs)
    OBVIOUS
  <1>2. PICK nm : NamesOnce(nm, DOMAIN hs) /\ s = [i \in DOMAIN nm |-> [name |-> nm[i], val |-> hs[nm[i]]]]
    BY <1>1, WrittenOnce
  <1>3. PICK n : n = Len(nm)
    OBVIOUS
  <1>4. n \in Nat /\ DOMAIN nm = 1 .. n /\ \A i \in 1 .. n : nm[i] \in DOMAIN hs
    BY <1>2, <1>3 DEF NamesOnce
  <1>5. \A i \in 1 .. n : nm[i] \in Text /\ NameOf(nm[i]) = nm[i] /\ hs[nm[i]] \in Text /\ nm[i] \notin Inherited
    BY <1>4 DEF Header, Settled
  <1>6. \A i \in 1 .. n : s[i] = [name |-> nm[i], val |-> hs[nm[i]]]
    BY <1>2, <1>4
  <1>7. \A i \in 1 .. n : s[i] \in Line /\ IsField(s[i]) /\ s[i].name = nm[i] /\ s[i].val = hs[nm[i]]
    <2>1. ASSUME NEW nm1 \in Text, NEW v \in Text, NEW l, l = [name |-> nm1, val |-> v]
          PROVE  l \in Line /\ IsField(l) /\ l.name = nm1 /\ l.val = v
      BY <2>1 DEF Line, IsField
    <2>2. ASSUME NEW i \in 1 .. n
          PROVE  s[i] \in Line /\ IsField(s[i]) /\ s[i].name = nm[i] /\ s[i].val = hs[nm[i]]
      <3>1. PICK nm1 \in Text, v \in Text : nm1 = nm[i] /\ v = hs[nm[i]]
        BY <1>5
      <3>5. PICK l : l = s[i]
        OBVIOUS
      <3>2. l = [name |-> nm1, val |-> v]
        BY <1>6, <3>1, <3>5
      <3>3. l \in Line /\ IsField(l) /\ l.name = nm1 /\ l.val = v
        BY <2>1, <3>2
      <3>4. QED
        BY <3>1, <3>3, <3>5
    <2>3. QED
      BY <2>2
  <1>8. DOMAIN s = 1 .. n /\ s \in Seq(Line)
    <2>1. DOMAIN s = 1 .. n
      BY <1>2, <1>4
    <2>2. s = [i \in 1 .. n |-> s[i]]
      BY <1>2, <1>4
    <2>3. QED
      BY <1>4, <1>7, <2>1, <2>2
  <1>9. \A i, j \in DOMAIN s : NameOf(s[i].name) = NameOf(s[j].name) => i = j
    BY <1>2, <1>4, <1>5, <1>7, <1>8 DEF NamesOnce
  <1>10. Plain(s) /\ UsualNames(s)
    BY <1>5, <1>7, <1>8, <1>9 DEF Plain, UsualNames
  <1>11. WellFormed(s)
    <2>1. s # <<>> => Len(s) \in Nat \ {0}
      BY <1>8, EmptySeq
    <2>4. DOMAIN s = 1 .. Len(s)
      BY <1>8
    <2>2. s # <<>> => 1 \in DOMAIN s
      BY <2>1, <2>4
    <2>3. QED
      BY <1>7, <1>8, <2>2 DEF WellFormed
  <1>12. /\ ~Throws(s) /\ parse(s) = Fields(s)
         /\ DOMAIN Fields(s) = {NameOf(s[k].name) : k \in {i \in DOMAIN s : IsField(s[i])}}
         /\ \A h \in DOMAIN Fields(s) : Fields(s)[h] = Saying(s, h).text
    BY <1>8, <1>10, <1>11, ReadsFields
  <1>13. DOMAIN Fields(s) = DOMAIN hs
    <2>1. \A k \in DOMAIN s : IsField(s[k]) /\ NameOf(s[k].name) = nm[k]
      BY <1>5, <1>7, <1>8
    <2>2. DOMAIN Fields(s) = {nm[k] : k \in DOMAIN s}
      BY <1>12, <2>1
    <2>3. \A h \in DOMAIN hs : \E i \in DOMAIN nm : nm[i] = h
      BY <1>2 DEF NamesOnce
    <2>4. QED
      BY <1>4, <1>8, <2>2, <2>3
  <1>14. ASSUME NEW h \in DOMAIN hs PROVE Fields(s)[h] = hs[h]
    <2>1. PICK i \in 1 .. n : nm[i] = h
      BY <1>2, <1>4 DEF NamesOnce
    <2>2. SaysPlain(s, Saying(s, h), h)
      BY <1>8, <1>10, PlainSaid
    <2>3. NameOf(s[i].name) = h /\ s[i].val = hs[h]
      BY <1>5, <1>7, <2>1
    <2>4. Saying(s, h).text = hs[h]
      BY <1>8, <2>2, <2>3 DEF SaysPlain
    <2>5. QED
      BY <1>12, <1>13, <2>4
  <1>15. Fields(s) = hs
    <2>1. Fields(s) = [h \in DOMAIN Fields(s) |-> Fields(s)[h]]
      BY DEF Fields
    <2>2. hs = [h \in DOMAIN hs |-> hs[h]]
      BY DEF Header
    <2>3. QED
      BY <1>13, <1>14, <2>1, <2>2
  <1>16. QED
    BY <1>1, <1>12, <1>15

\* Of nothing, nothing is left over.
LEMMA NothingThrows == ~Throws(<<>>)
  BY ReadFolds, NothingRead DEF Throws, ReadWell

\* What the reader keeps, whatever the lines are.
Keeps(p) ==
  /\ p = [pairs |-> p.pairs, open |-> p.open, name |-> p.name, skipped |-> p.skipped]
  /\ p.name \in Text

LEMMA LineKeeps ==
  ASSUME NEW p, Keeps(p), NEW l \in Line
  PROVE  Keeps(ReadLine(p, l))
  <1>1. PICK a, b, c, d : p = [pairs |-> a, open |-> b, name |-> c, skipped |-> d]
    BY DEF Keeps
  <1>2. c \in Text /\ p.pairs = a /\ p.open = b /\ p.name = c /\ p.skipped = d
    BY <1>1 DEF Keeps
  <1>3. \A a2, b2, c2, d2 :
          c2 \in Text => Keeps([pairs |-> a2, open |-> b2, name |-> c2, skipped |-> d2])
    BY DEF Keeps
  <1>4. PICK q : q = ReadLine(p, l)
    OBVIOUS
  <1>5. CASE p.open # 0 /\ IsCont(l)
    <2>1. PICK a2 : a2 = [p.pairs EXCEPT ![p.open][2] = Append(@, l.cont)]
      OBVIOUS
    <2>2. q = [p EXCEPT !.pairs = a2]
      BY <1>1, <1>4, <1>5, <2>1, LineKinds DEF ReadLine
    <2>3. q = [pairs |-> a2, open |-> b, name |-> c, skipped |-> d]
      BY <1>1, <2>2
    <2>4. QED
      BY <1>2, <1>3, <1>4, <2>3
  <1>6. CASE ~(p.open # 0 /\ IsCont(l)) /\ IsField(l)
    <2>1. q = Add(p, p.name \o l.name, l.val)
      BY <1>4, <1>6, LineKinds DEF ReadLine
    <2>2. \E a2, b2 : q = [Start EXCEPT !.pairs = a2, !.open = b2]
      BY <2>1, Zenon DEF Add
    <2>3. \E a2, b2 : q = [pairs |-> a2, open |-> b2, name |-> <<>>, skipped |-> FALSE]
      BY <2>2 DEF Start
    <2>5. PICK a2, b2, c2, d2 :
            c2 = <<>> /\ d2 = FALSE /\ q = [pairs |-> a2, open |-> b2, name |-> c2, skipped |-> d2]
      BY <2>3
    <2>6. c2 \in Text
      BY <2>5, TextFacts
    <2>4. QED
      BY <1>3, <1>4, <2>5, <2>6
  <1>7. CASE ~(p.open # 0 /\ IsCont(l)) /\ ~IsField(l)
    <2>1. \/ q = [p EXCEPT !.skipped = TRUE, !.open = 0]
          \/ q = [p EXCEPT !.name = Append(c, TextOf(l)), !.open = 0]
      BY <1>1, <1>2, <1>4, <1>7 DEF ReadLine
    <2>2. TextOf(l) \in STRING
      BY <1>7, LineKinds, KnownAssumption DEF TextOf
    <2>3. PICK c2 \in Text : c2 = Append(c, TextOf(l))
      BY <1>2, <2>2, TextFacts
    <2>4. \/ q = [pairs |-> a, open |-> 0, name |-> c, skipped |-> TRUE]
          \/ q = [pairs |-> a, open |-> 0, name |-> c2, skipped |-> d]
      BY <1>1, <2>1, <2>3
    <2>5. QED
      BY <1>2, <1>3, <1>4, <2>3, <2>4
  <1>8. QED
    BY <1>5, <1>6, <1>7

LEMMA ScanKeeps ==
  ASSUME NEW s \in Seq(Line)
  PROVE  Keeps(Scan(s))
  <1> DEFINE T == {t \in Seq(Line) : Keeps(Scan(t))}
  <1>1. <<>> \in T
    <2>1. Keeps(Start)
      BY TextFacts DEF Start, Keeps
    <2>2. QED
      BY <2>1, ReadFolds
  <1>2. ASSUME NEW t \in T, NEW l \in Line PROVE Append(t, l) \in T
    <2>1. t \in Seq(Line) /\ Append(t, l) \in Seq(Line) /\ Keeps(Scan(t))
      BY LinesAppended
    <2>2. Scan(Append(t, l)) = ReadLine(Scan(t), l)
      BY <2>1, ReadFolds
    <2>3. Keeps(ReadLine(Scan(t), l))
      BY <2>1, LineKeeps
    <2>4. QED
      BY <2>1, <2>2, <2>3
  <1>3. T = Seq(Line)
    <2> HIDE DEF T
    <2>1. T \subseteq Seq(Line)
      BY DEF T
    <2>2. QED
      BY <1>1, <1>2, <2>1, SequenceInduction
  <1>4. QED
    BY <1>3

\* Lines of which the last one is not ended cannot be read.
LEMMA UnendedThrows ==
  ASSUME NEW s \in Seq(Line), NEW x
  PROVE  Throws(Append(s, [unended |-> x]))
  <1>1. PICK p, u, t : p = Scan(s) /\ u = [unended |-> x] /\ t = Append(s, u)
    OBVIOUS
  <1>2. Scan(t) = ReadLine(p, u)
    <2>1. s \in Seq(Line \cup {u}) /\ u \in Line \cup {u}
      <3>1. PICK S : S = Line \cup {u}
        OBVIOUS
      <3>2. \A i \in DOMAIN s : s[i] \in S
        BY <3>1
      <3>3. QED
        BY <3>1, <3>2
    <2>2. \A z : Scan(z) = ReadFold!Fold(Start, z)
      BY DEF Scan, FoldLeft, MapThenFoldSet, Max, ReadFold!Fold, ReadFold!Folding, ReadFold!Largest
    <2>3. QED
      BY <1>1, <2>1, <2>2, ReadFold!FoldMore
  <1>3. ~IsCont(u) /\ ~IsField(u) /\ u # EmptyLine
    BY <1>1 DEF IsCont, IsField, EmptyLine
  <1>5. Keeps(p) /\ TextOf(u) \in STRING
    BY <1>1, <1>3, ScanKeeps, KnownAssumption DEF TextOf
  <1>10. PICK v : v = Append(p.name, TextOf(u))
    OBVIOUS
  <1>4. ReadLine(p, u) = [p EXCEPT !.name = v, !.open = 0]
    BY <1>3, <1>5, <1>10 DEF ReadLine, Keeps
  <1>6. PICK n, c : n = p.name /\ c = TextOf(u)
    OBVIOUS
  <1>7. Append(n, c) # <<>>
    <2>1. n \in Seq(STRING) /\ c \in STRING
      BY <1>5, <1>6 DEF Keeps, Text
    <2>2. Len(Append(n, c)) = Len(n) + 1 /\ Len(n) \in Nat
      BY <2>1
    <2>3. QED
      BY <2>2
  <1>8. ReadLine(p, u).name = Append(n, c)
    BY <1>4, <1>5, <1>6, <1>10 DEF Keeps
  <1>9. QED
    BY <1>1, <1>2, <1>7, <1>8 DEF Throws

\* What toString writes can be read only when there is nothing.
LEMMA NotReadAsWritten ==
  ASSUME NEW hs, Header(hs)
  PROVE  Throws(toString(hs)) <=> DOMAIN hs # {}
  <1>1. PICK nm : NamesOnce(nm, DOMAIN hs) /\ Written(hs) = [i \in DOMAIN nm |-> [name |-> nm[i], val |-> hs[nm[i]]]]
    BY WrittenOnce
  <1>2. PICK n : n = Len(nm)
    OBVIOUS
  <1>3. /\ n \in Nat /\ DOMAIN nm = 1 .. n
        /\ \A i \in 1 .. n : nm[i] \in DOMAIN hs /\ nm[i] \in Text /\ hs[nm[i]] \in Text
    BY <1>1, <1>2 DEF NamesOnce, Header
  <1>4. PICK lines : lines = Written(hs)
    OBVIOUS
  <1>5. lines \in Seq(Line) /\ Len(lines) = n
    <2>1. \A i \in 1 .. n : [name |-> nm[i], val |-> hs[nm[i]]] \in Line
      BY <1>3 DEF Line
    <2>2. PICK L : L = Line
      OBVIOUS
    <2>3. DOMAIN lines = 1 .. n /\ \A i \in 1 .. n : lines[i] \in L
      BY <1>1, <1>3, <1>4, <2>1, <2>2
    <2>5. lines = [i \in 1 .. n |-> lines[i]]
      BY <1>1, <1>3, <1>4
    <2>6. lines \in [1 .. n -> L]
      BY <2>3, <2>5
    <2>4. QED
      BY <1>3, <2>2, <2>6
  <1>7. DOMAIN hs = {} <=> n = 0
    <2>1. \A h \in DOMAIN hs : \E i \in 1 .. n : nm[i] = h
      BY <1>1, <1>3 DEF NamesOnce
    <2>2. n # 0 => 1 \in 1 .. n
      BY <1>3
    <2>3. n = 0 => 1 .. n = {}
      OBVIOUS
    <2>4. QED
      BY <1>3, <2>1, <2>2, <2>3
  <1>8. lines = <<>> <=> n = 0
    BY <1>5, EmptySeq
  <1>9. CASE lines = <<>>
    BY <1>4, <1>7, <1>8, <1>9, NothingThrows DEF toString
  <1>10. CASE lines # <<>>
    <2>1. PICK x, front : x = Last(lines) /\ front = Front(lines)
      OBVIOUS
    <2>2. front \in Seq(Line)
      BY <1>5, <1>10, <2>1, AllButLast DEF Front
    <2>3. toString(hs) = Append(front, [unended |-> x])
      BY <1>4, <1>10, <2>1 DEF toString
    <2>4. QED
      BY <1>7, <1>8, <1>10, <2>2, <2>3, UnendedThrows
  <1>11. QED
    BY <1>9, <1>10

\* What is read of well-formed lines is what they say, and can be written.
LEMMA FieldsHeader ==
  ASSUME NEW s \in Seq(Line), WellFormed(s), UsualNames(s)
  PROVE  Header(Fields(s))
  <1>1. PICK I, D : I = {i \in DOMAIN s : IsField(s[i])} /\ D = DOMAIN Fields(s)
    OBVIOUS
  <1>2. /\ D = {NameOf(s[k].name) : k \in I}
        /\ \A h \in D : h \in Text /\ Fields(s)[h] \in Text /\ Familiar(h)
    BY <1>1, ReadsFields
  <1>3. PICK n : n = Len(s)
    OBVIOUS
  <1>4. n \in Nat /\ DOMAIN s = 1 .. n
    BY <1>3
  <1>5. IsFiniteSet(I)
    <2>1. IsFiniteSet(1 .. n)
      BY <1>4, FS_Interval
    <2>2. I \in SUBSET (1 .. n)
      BY <1>1, <1>4
    <2>3. QED
      BY <2>1, <2>2, FS_Subset
  <1>6. PICK f : f = [k \in I |-> NameOf(s[k].name)]
    OBVIOUS
  <1>7. f \in [I -> D] /\ \A h \in D : \E k \in I : f[k] = h
    BY <1>2, <1>6
  <1>8. f \in Surjection(I, D)
    BY <1>7 DEF Surjection
  <1>9. IsFiniteSet(D)
    BY <1>5, <1>8, FS_Surjection
  <1>10. Fields(s) = [h \in D |-> Fields(s)[h]]
    BY <1>1 DEF Fields
  <1>11. QED
    BY <1>1, <1>2, <1>9, <1>10 DEF Header

-----------------------------------------------------------------------------
(* The handle's headers. *)

\* A status line can only be the first of a block.
Block(b) ==
  /\ b \in Seq(Line)
  /\ \A k \in DOMAIN b : k > 1 => ~IsStatus(b[k])

\* Before the first block has ended the buffer is that block, and nothing is
\* shown; then the status is the one of that block, and what the buffer
\* still has, if it is there, begins with something else. As long as only
\* one block has ended, what it could be read as is shown.
HeadFits(bl, st, hd, bf) ==
  /\ \A i \in DOMAIN bl : Block(bl[i])
  /\ Len(bl) <= 1 => st = Absent /\ hd = Absent
  /\ Len(bl) = 1 => bf = bl[1]
  /\ Len(bl) > 1 =>
       /\ bl[1] # <<>>
       /\ st = IF IsStatus(bl[1][1]) THEN bl[1][1].junk ELSE Absent
       /\ bf # Absent => bf # <<>> /\ ~IsStatus(bf[1])
  /\ Len(bl) = 2 /\ IsStatus(bl[1][1]) /\ ~Throws(Tail(bl[1])) => hd = parse(Tail(bl[1]))

HeadInv ==
  /\ blocks \in Seq(Seq(Line)) /\ buffer \in Seq(Line) \cup {Absent}
  /\ performing \in BOOLEAN /\ (performing = TRUE => blocks # <<>>)
  /\ HeadFits(blocks, status, headers, buffer)

\* Lines without a colon: status lines, and what a deleted buffer begins with.
LEMMA JunkLines ==
  /\ [junk |-> "undefined"] \in Line /\ ~IsStatus([junk |-> "undefined"])
  /\ \A code \in Codes : [junk |-> code] \in Line
  <1>1. \A c \in STRING : [junk |-> c] \in Line
    BY DEF Line
  <1>2. "undefined" \in STRING /\ Codes \subseteq STRING /\ "undefined" \notin Codes
    BY CurlLines
  <1>3. \A c : "junk" \in DOMAIN [junk |-> c] /\ [junk |-> c].junk = c
    OBVIOUS
  <1>4. QED
    BY <1>1, <1>2, <1>3 DEF IsStatus

\* A line more of a block.
LEMMA BlockMore ==
  ASSUME NEW b, Block(b), NEW l \in Line,
         b = <<>> \/ ~IsStatus(l)
  PROVE  Block(Append(b, l)) /\ Append(b, l) # <<>>
  <1>1. PICK n, u : n = Len(b) /\ u = Append(b, l)
    OBVIOUS
  <1>2. b \in Seq(Line)
    BY DEF Block
  <1>3. /\ n \in Nat /\ DOMAIN b = 1 .. n /\ DOMAIN u = DOMAIN b \cup {n + 1} /\ u[n + 1] = l
        /\ \A i \in DOMAIN b : u[i] = b[i]
        /\ u \in Seq(Line) /\ u # <<>>
    BY <1>1, <1>2, LinesAppended
  <1>4. CASE b = <<>>
    <2>1. n = 0
      BY <1>1, <1>4
    <2>2. DOMAIN u = {1} /\ u[1] = l
      BY <1>3, <2>1
    <2>3. QED
      BY <1>1, <1>3, <1>4, <2>2 DEF Block
  <1>5. CASE b # <<>>
    <2>1. n # 0
      BY <1>1, <1>2, <1>5, EmptySeq
    <2>2. 1 \in DOMAIN b /\ u[1] = b[1]
      BY <1>3, <2>1
    <2>3. \A k \in DOMAIN u : k > 1 => ~IsStatus(u[k])
      BY <1>3, <1>5 DEF Block
    <2>4. QED
      BY <1>1, <1>3, <1>5, <2>2, <2>3 DEF Block
  <1>6. QED
    BY <1>4, <1>5

\* What is left when the first line has been taken off.
LEMMA TailLines ==
  ASSUME NEW b \in Seq(Line), b # <<>>
  PROVE  /\ 1 \in DOMAIN b /\ Tail(b) \in Seq(Line)
         /\ Tail(b) # <<>> => 2 \in DOMAIN b /\ Tail(b)[1] = b[2]
  <1>1. PICK n, t : n = Len(b) /\ t = Tail(b)
    OBVIOUS
  <1>2. n \in Nat \ {0}
    BY <1>1, EmptySeq
  <1>3. DOMAIN b = 1 .. n
    BY <1>1
  <1>4. t \in Seq(Line) /\ Len(t) = n - 1 /\ \A i \in 1 .. n - 1 : t[i] = b[i + 1]
    BY <1>1, HeadTailProperties
  <1>5. ASSUME t # <<>> PROVE 2 \in DOMAIN b /\ t[1] = b[2]
    <2>1. Len(t) \in Nat \ {0}
      BY <1>4, <1>5, EmptySeq
    <2>2. 1 \in 1 .. n - 1 /\ 2 \in 1 .. n /\ 1 + 1 = 2
      BY <1>2, <1>4, <2>1
    <2>3. t[1] = b[1 + 1]
      BY <1>4, <2>2
    <2>4. QED
      BY <1>3, <2>2, <2>3
  <1>6. QED
    BY <1>1, <1>2, <1>3, <1>4, <1>5

\* The line l goes on with the last block, and the buffer gets it.
Lined(bl, bf, l, bl2, bf2) ==
  /\ bl[Len(bl)] = <<>> \/ ~IsStatus(l)
  /\ bl2 = SubSeq(bl, 1, Len(bl) - 1) \o <<Append(bl[Len(bl)], l)>>
  /\ bf2 = Append(IF bf = Absent THEN <<[junk |-> "undefined"]>> ELSE bf, l)

LEMMA LineFits ==
  ASSUME NEW bl \in Seq(Seq(Line)), bl # <<>>, NEW st, NEW hd, NEW bf \in Seq(Line) \cup {Absent},
         HeadFits(bl, st, hd, bf), NEW l \in Line, NEW bl2, NEW bf2, Lined(bl, bf, l, bl2, bf2)
  PROVE  bl2 \in Seq(Seq(Line)) /\ bl2 # <<>> /\ bf2 \in Seq(Line) /\ HeadFits(bl2, st, hd, bf2)
  <1>1. PICK n, b, c : n = Len(bl) /\ b = bl[n] /\ c = Append(b, l)
    OBVIOUS
  <1>17. /\ b = <<>> \/ ~IsStatus(l)
         /\ bl2 = SubSeq(bl, 1, Len(bl) - 1) \o <<c>>
         /\ bf2 = Append(IF bf = Absent THEN <<[junk |-> "undefined"]>> ELSE bf, l)
    BY <1>1 DEF Lined
  <1>2. n \in Nat \ {0} /\ DOMAIN bl = 1 .. n /\ n \in 1 .. n
    BY <1>1, EmptySeq
  <1>3. Block(b)
    BY <1>1, <1>2 DEF HeadFits
  <1>4. Block(c) /\ c # <<>> /\ c \in Seq(Line)
    <2>1. b = <<>> \/ ~IsStatus(l)
      BY <1>17
    <2>2. Block(Append(b, l)) /\ Append(b, l) # <<>>
      BY <1>3, <2>1, BlockMore
    <2>3. QED
      BY <1>1, <2>2 DEF Block
  <1>5. /\ bl2 \in Seq(Seq(Line)) /\ Len(bl2) = n
        /\ \A i \in 1 .. n - 1 : bl2[i] = bl[i]
        /\ bl2[n] = c
    <2>1. PICK S : S = Seq(Line)
      OBVIOUS
    <2>2. bl \in Seq(S) /\ c \in S /\ bl2 = SubSeq(bl, 1, Len(bl) - 1) \o <<c>>
      BY <1>1, <1>4, <1>17, <2>1
    <2>3. /\ bl2 \in Seq(S) /\ Len(bl2) = Len(bl)
          /\ \A i \in 1 .. Len(bl) - 1 : bl2[i] = bl[i]
          /\ bl2[Len(bl)] = c
      <3>1. bl # <<>>
        OBVIOUS
      <3>2. QED
        BY ONLY <2>2, <3>1, LastReplaced
    <2>4. QED
      BY <1>1, <2>1, <2>3
  <1>6. DOMAIN bl2 = 1 .. n /\ bl2 # <<>>
    BY <1>2, <1>5
  <1>7. PICK from : from = IF bf = Absent THEN <<[junk |-> "undefined"]>> ELSE bf
    OBVIOUS
  <1>8. /\ from \in Seq(Line) /\ bf2 = Append(from, l)
        /\ n > 1 => from # <<>> /\ ~IsStatus(from[1])
    <2>1. CASE bf = Absent
      <3>1. PICK u : u = [junk |-> "undefined"]
        OBVIOUS
      <3>2. u \in Line /\ ~IsStatus(u) /\ from = <<u>>
        BY <1>7, <2>1, <3>1, JunkLines
      <3>3. from \in Seq(Line) /\ from # <<>> /\ from[1] = u
        BY <3>2
      <3>4. QED
        BY <1>7, <1>17, <3>2, <3>3
    <2>2. CASE bf # Absent
      BY <1>1, <1>2, <1>7, <1>17, <2>2 DEF HeadFits
    <2>3. QED
      BY <2>1, <2>2
  <1>9. bf2 \in Seq(Line) /\ (n > 1 => bf2 # <<>> /\ ~IsStatus(bf2[1]))
    <2>1. PICK m : m = Len(from)
      OBVIOUS
    <2>2. /\ m \in Nat /\ DOMAIN from = 1 .. m /\ bf2 \in Seq(Line) /\ bf2 # <<>>
          /\ \A i \in DOMAIN from : bf2[i] = from[i]
      BY <1>8, <2>1, LinesAppended
    <2>3. ASSUME n > 1 PROVE ~IsStatus(bf2[1])
      <3>1. m # 0
        BY <1>8, <2>1, <2>3, EmptySeq
      <3>4. 1 \in DOMAIN from
        BY <2>2, <3>1
      <3>2. bf2[1] = from[1]
        BY <2>2, <3>4
      <3>3. QED
        BY <1>8, <2>3, <3>2
    <2>4. QED
      BY <2>2, <2>3
  <1>10. \A i \in DOMAIN bl2 : Block(bl2[i])
    <2>1. \A i \in 1 .. n : i = n \/ i \in 1 .. n - 1
      BY <1>2
    <2>2. \A i \in 1 .. n - 1 : i \in DOMAIN bl
      BY <1>2
    <2>3. QED
      BY <1>4, <1>5, <1>6, <2>1, <2>2 DEF HeadFits
  <1>11. n > 1 => bl2[1] = bl[1]
    BY <1>2, <1>5
  <1>12. ASSUME n = 1 PROVE HeadFits(bl2, st, hd, bf2)
    <2>1. bf = b
      BY <1>1, <1>12 DEF HeadFits
    <2>2. bf # Absent
      BY <1>3, <2>1, CurlLines DEF Block
    <2>3. bf2 = c
      BY <1>1, <1>7, <1>8, <2>1, <2>2
    <2>4. st = Absent /\ hd = Absent
      BY <1>1, <1>12 DEF HeadFits
    <2>7. Len(bl2) = 1 /\ ~(Len(bl2) > 1) /\ Len(bl2) # 2 /\ bl2[1] = c
      BY <1>5, <1>12
    <2>5. HeadFits(bl2, st, hd, bf2)
      BY <1>10, <2>3, <2>4, <2>7 DEF HeadFits
    <2>6. QED
      BY <2>5
  <1>13. ASSUME n > 1 PROVE HeadFits(bl2, st, hd, bf2)
    <2>1. /\ bl[1] # <<>>
          /\ st = IF IsStatus(bl[1][1]) THEN bl[1][1].junk ELSE Absent
          /\ n = 2 /\ IsStatus(bl[1][1]) /\ ~Throws(Tail(bl[1])) => hd = parse(Tail(bl[1]))
      BY <1>1, <1>13 DEF HeadFits
    <2>2. ~(n <= 1) /\ n # 1
      BY <1>2, <1>13
    <2>3. HeadFits(bl2, st, hd, bf2)
      BY <1>5, <1>6, <1>9, <1>10, <1>11, <1>13, <2>1, <2>2 DEF HeadFits
    <2>4. QED
      BY <2>3
  <1>14. n = 1 \/ n > 1
    BY <1>2
  <1>15. bl2 \in Seq(Seq(Line)) /\ bl2 # <<>> /\ bf2 \in Seq(Line)
    BY <1>5, <1>6, <1>9
  <1>16. QED
    BY <1>12, <1>13, <1>14, <1>15

\* What the end of a block makes of the buffer and of what is shown.
Ended(bf, st, hd, bf2, st2, hd2) ==
    LET match == bf # Absent /\ bf # <<>> /\ IsStatus(bf[1])
        rest == IF match THEN Tail(bf) ELSE bf
    IN
    /\ st2 = IF match THEN bf[1].junk ELSE st
    /\ IF bf = Absent THEN hd2 = hd /\ bf2 = bf
       ELSE IF Throws(rest) THEN hd2 = hd /\ bf2 = rest
       ELSE hd2 = parse(rest) /\ bf2 = Absent

LEMMA EndFits ==
  ASSUME NEW bl \in Seq(Seq(Line)), bl # <<>>, NEW st, NEW hd, NEW bf \in Seq(Line) \cup {Absent},
         HeadFits(bl, st, hd, bf), bl[Len(bl)] # <<>>,
         NEW bl2, bl2 = Append(bl, <<>>), NEW st2, NEW hd2, NEW bf2, Ended(bf, st, hd, bf2, st2, hd2)
  PROVE  bl2 \in Seq(Seq(Line)) /\ bl2 # <<>> /\ bf2 \in Seq(Line) \cup {Absent} /\ HeadFits(bl2, st2, hd2, bf2)
  <1>1. PICK n : n = Len(bl)
    OBVIOUS
  <1>2. n \in Nat \ {0} /\ DOMAIN bl = 1 .. n
    BY <1>1, EmptySeq
  <1>3. /\ bl2 \in Seq(Seq(Line)) /\ Len(bl2) = n + 1 /\ DOMAIN bl2 = 1 .. n + 1
        /\ \A i \in 1 .. n : bl2[i] = bl[i]
        /\ bl2[n + 1] = <<>>
    <2>1. PICK S, none : S = Seq(Line) /\ none = <<>>
      OBVIOUS
    <2>2. bl \in Seq(S) /\ none \in S /\ bl2 = Append(bl, none)
      BY <2>1
    <2>3. /\ bl2 \in Seq(S) /\ Len(bl2) = n + 1
          /\ \A i \in 1 .. n : bl2[i] = bl[i]
          /\ bl2[n + 1] = none
      BY <1>1, <2>2, PushOne
    <2>4. QED
      BY <1>2, <2>1, <2>3
  <1>4. Block(<<>>)
    BY DEF Block
  <1>5. \A i \in DOMAIN bl2 : Block(bl2[i])
    <2>1. \A i \in 1 .. n + 1 : i = n + 1 \/ i \in 1 .. n
      BY <1>2
    <2>2. QED
      BY <1>2, <1>3, <1>4, <2>1 DEF HeadFits
  <1>6. bl2[1] = bl[1] /\ Len(bl2) > 1 /\ ~(Len(bl2) <= 1) /\ Len(bl2) # 1 /\ bl2 # <<>> /\ (Len(bl2) = 2 <=> n = 1)
    BY <1>2, <1>3
  <1>7. CASE n = 1
    <2>1. PICK b : b = bl[1]
      OBVIOUS
    <2>2. bf = b /\ b # <<>> /\ Block(b) /\ st = Absent /\ hd = Absent
      BY <1>1, <1>2, <1>7, <2>1 DEF HeadFits
    <2>3. b \in Seq(Line) /\ b # Absent
      BY <2>2, CurlLines DEF Block
    <2>4. 1 \in DOMAIN b /\ Tail(b) \in Seq(Line) /\ (Tail(b) # <<>> => 2 \in DOMAIN b /\ Tail(b)[1] = b[2])
      BY <2>2, <2>3, TailLines
    <2>5. Tail(b) # <<>> => ~IsStatus(Tail(b)[1])
      <3>1. 2 > 1
        OBVIOUS
      <3>2. QED
        BY <2>2, <2>4, <3>1 DEF Block
    <2>6. CASE IsStatus(b[1])
      <3>1. st2 = b[1].junk
        BY <2>2, <2>3, <2>6 DEF Ended
      <3>2. IF Throws(Tail(b)) THEN bf2 = Tail(b) ELSE hd2 = parse(Tail(b)) /\ bf2 = Absent
        BY <2>2, <2>3, <2>6 DEF Ended
      <3>3. bf2 # Absent => bf2 # <<>> /\ ~IsStatus(bf2[1])
        BY <2>5, <3>2, NothingThrows
      <3>4. bf2 \in Seq(Line) \cup {Absent}
        BY <2>4, <3>2
      <3>5. ~Throws(Tail(b)) => hd2 = parse(Tail(b))
        BY <3>2
      <3>6. HeadFits(bl2, st2, hd2, bf2)
        BY <1>5, <1>6, <2>1, <2>2, <2>6, <3>1, <3>3, <3>5 DEF HeadFits
      <3>7. QED
        BY <1>3, <1>6, <3>4, <3>6
    <2>7. CASE ~IsStatus(b[1])
      <3>1. st2 = Absent
        BY <2>2, <2>3, <2>7 DEF Ended
      <3>2. bf2 = b \/ bf2 = Absent
        BY <2>2, <2>3, <2>7 DEF Ended
      <3>3. bf2 # Absent => bf2 # <<>> /\ ~IsStatus(bf2[1])
        BY <2>2, <2>7, <3>2
      <3>4. bf2 \in Seq(Line) \cup {Absent}
        BY <2>3, <3>2
      <3>5. HeadFits(bl2, st2, hd2, bf2)
        BY <1>5, <1>6, <2>1, <2>2, <2>7, <3>1, <3>3 DEF HeadFits
      <3>6. QED
        BY <1>3, <1>6, <3>4, <3>5
    <2>8. QED
      BY <2>6, <2>7
  <1>8. CASE n # 1
    <2>1. n > 1
      BY <1>2, <1>8
    <2>2. /\ bl[1] # <<>>
          /\ st = IF IsStatus(bl[1][1]) THEN bl[1][1].junk ELSE Absent
          /\ bf # Absent => bf # <<>> /\ ~IsStatus(bf[1])
      BY <1>1, <2>1 DEF HeadFits
    <2>3. st2 = st /\ (bf2 = bf \/ bf2 = Absent)
      BY <2>2 DEF Ended
    <2>4. HeadFits(bl2, st2, hd2, bf2)
      BY <1>5, <1>6, <1>8, <2>2, <2>3 DEF HeadFits
    <2>5. QED
      BY <1>3, <1>6, <2>3, <2>4
  <1>9. QED
    BY <1>7, <1>8

\* The invariant of the handle's headers.
LEMMA HeadBegins == CurlInit => HeadInv
  <1>1. <<>> \in Seq(Seq(Line)) /\ Len(<<>>) = 0 /\ DOMAIN <<>> = {}
    OBVIOUS
  <1>2. CurlInit => HeadFits(blocks, status, headers, buffer)
    BY <1>1 DEF CurlInit, HeadFits
  <1>3. QED
    BY <1>1, <1>2 DEF CurlInit, HeadInv

LEMMA HeadStep ==
  ASSUME HeadInv, [CurlNext]_curlVars
  PROVE  HeadInv'
  <1>1. /\ blocks \in Seq(Seq(Line)) /\ buffer \in Seq(Line) \cup {Absent}
        /\ performing \in BOOLEAN /\ (performing = TRUE => blocks # <<>>)
        /\ HeadFits(blocks, status, headers, buffer)
    BY DEF HeadInv
  <1>2. ASSUME UNCHANGED <<blocks, buffer, answer>>, performing' \in {performing, FALSE}
        PROVE  HeadInv'
    <2>1. blocks' = blocks /\ buffer' = buffer /\ status' = status /\ headers' = headers
      BY <1>2 DEF answer
    <2>2. QED
      BY <1>1, <1>2, <2>1 DEF HeadInv
  <1>3. CASE Perform
    <2>1. /\ performing' = TRUE /\ buffer' = <<>> /\ status' = Absent /\ headers' = Absent /\ blocks' = <<<<>>>>
      BY <1>3 DEF Perform
    <2>2. Block(<<>>)
      BY DEF Block
    <2>3. <<>> \in Seq(Line)
      OBVIOUS
    <2>4. PICK bl : bl = <<<<>>>>
      OBVIOUS
    <2>5. bl \in Seq(Seq(Line)) /\ bl # <<>> /\ Len(bl) = 1 /\ DOMAIN bl = {1} /\ bl[1] = <<>>
      BY <2>3, <2>4
    <2>6. HeadFits(bl, Absent, Absent, <<>>)
      BY <2>2, <2>5 DEF HeadFits
    <2>7. QED
      BY <2>1, <2>3, <2>4, <2>5, <2>6 DEF HeadInv
  <1>4. ASSUME NEW l \in Line, HeaderLine(l), blocks[Len(blocks)] = <<>> \/ ~IsStatus(l)
        PROVE  HeadInv'
    <2>1. PICK bl, st, hd, bf : bl = blocks /\ st = status /\ hd = headers /\ bf = buffer
      OBVIOUS
    <2>2. PICK bl2, bf2 : bl2 = blocks' /\ bf2 = buffer'
      OBVIOUS
    <2>3. /\ performing' = performing /\ status' = st /\ headers' = hd
          /\ bl2 = SubSeq(bl, 1, Len(bl) - 1) \o <<Append(bl[Len(bl)], l)>>
          /\ bf2 = Append(IF bf = Absent THEN <<[junk |-> "undefined"]>> ELSE bf, l)
      BY <1>4, <2>1, <2>2 DEF HeaderLine, Buffered, answer, Front, Last
    <2>4. /\ bl \in Seq(Seq(Line)) /\ bl # <<>> /\ bf \in Seq(Line) \cup {Absent} /\ HeadFits(bl, st, hd, bf)
          /\ l \in Line
      BY <1>1, <1>4, <2>1 DEF HeaderLine
    <2>5. bl2 \in Seq(Seq(Line)) /\ bl2 # <<>> /\ bf2 \in Seq(Line) /\ HeadFits(bl2, st, hd, bf2)
      <3>1. Lined(bl, bf, l, bl2, bf2)
        BY <1>4, <2>1, <2>3 DEF Lined
      <3>2. QED
        BY ONLY <2>4, <3>1, LineFits
    <2>6. QED
      BY <1>1, <2>2, <2>3, <2>5 DEF HeadInv
  <1>5. CASE HeaderEnd
    <2>1. PICK bl, st, hd, bf : bl = blocks /\ st = status /\ hd = headers /\ bf = buffer
      OBVIOUS
    <2>2. PICK bl2, st2, hd2, bf2 : bl2 = blocks' /\ st2 = status' /\ hd2 = headers' /\ bf2 = buffer'
      OBVIOUS
    <2>3. performing /\ performing' = performing /\ Last(bl) # <<>> /\ bl2 = Append(bl, <<>>)
      BY <1>5, <2>1, <2>2 DEF HeaderEnd
    <2>4. Ended(bf, st, hd, bf2, st2, hd2)
      BY <1>5, <2>1, <2>2 DEF HeaderEnd, Ended
    <2>5. /\ bl \in Seq(Seq(Line)) /\ bl # <<>> /\ bf \in Seq(Line) \cup {Absent} /\ HeadFits(bl, st, hd, bf)
          /\ bl[Len(bl)] # <<>>
      BY <1>1, <2>1, <2>3 DEF Last
    <2>6. bl2 \in Seq(Seq(Line)) /\ bl2 # <<>> /\ bf2 \in Seq(Line) \cup {Absent} /\ HeadFits(bl2, st2, hd2, bf2)
      <3>1. bl2 = Append(bl, <<>>)
        BY <2>3
      <3>2. QED
        BY ONLY <2>4, <2>5, <3>1, EndFits
    <2>7. QED
      BY <1>1, <2>2, <2>3, <2>6 DEF HeadInv
  <1>6. ASSUME NEW b, Piece(b) PROVE UNCHANGED <<blocks, buffer, answer>> /\ performing' = performing
    BY <1>6 DEF Piece
  <1>7. CASE PerformEnds
    <2>1. UNCHANGED <<blocks, buffer, answer>> /\ performing' = FALSE
      BY <1>7 DEF PerformEnds
    <2>2. QED
      BY <1>2, <2>1
  <1>8. CASE UNCHANGED curlVars
    <2>1. UNCHANGED <<blocks, buffer, answer>> /\ performing' = performing
      BY <1>8 DEF curlVars, answer
    <2>2. QED
      BY <1>2, <2>1
  <1>9. ASSUME NEW l \in Lines, HeaderLine(l) PROVE HeadInv'
    <2>1. l \in Line /\ ~IsStatus(l)
      BY CurlLines
    <2>2. QED
      BY <1>4, <1>9, <2>1
  <1>10. ASSUME NEW code \in Codes, Last(blocks) = <<>>, HeaderLine([junk |-> code]) PROVE HeadInv'
    <2>1. PICK l : l = [junk |-> code]
      OBVIOUS
    <2>2. l \in Line /\ blocks[Len(blocks)] = <<>> /\ HeaderLine(l)
      BY <1>10, <2>1, JunkLines DEF Last
    <2>3. QED
      BY <1>4, <2>2
  <1>11. QED
    BY <1>2, <1>3, <1>5, <1>6, <1>7, <1>8, <1>9, <1>10 DEF CurlNext

\* What HeadInv shows of the handle.
LEMMA HeadShows ==
  ASSUME HeadInv, BodyShown
  PROVE  ShowsItsAnswer
  <1>1. PICK bl, n, head : bl = blocks /\ n = Len(bl) /\ head = IF bl = <<>> THEN <<>> ELSE bl[1]
    OBVIOUS
  <1>2. bl \in Seq(Seq(Line)) /\ HeadFits(bl, status, headers, buffer) /\ n \in Nat /\ DOMAIN bl = 1 .. n
    BY <1>1 DEF HeadInv
  <1>3. PICK fields : fields = IF head = <<>> THEN <<>> ELSE Tail(head)
    OBVIOUS
  <1>4. ASSUME n > 1
        PROVE  /\ 1 \in DOMAIN bl /\ head = bl[1] /\ head # <<>> /\ fields = Tail(head) /\ fields \in Seq(Line)
               /\ status = IF IsStatus(head[1]) THEN head[1].junk ELSE Absent
               /\ n = 2 /\ IsStatus(head[1]) /\ ~Throws(fields) => headers = parse(fields)
    <2>1. bl # <<>> /\ 1 \in DOMAIN bl
      BY <1>1, <1>2, <1>4
    <2>2. head = bl[1] /\ head # <<>> /\ fields = Tail(head)
      BY <1>1, <1>2, <1>3, <1>4, <2>1 DEF HeadFits
    <2>3. Block(head)
      BY <1>2, <2>1, <2>2 DEF HeadFits
    <2>4. fields \in Seq(Line)
      BY <2>2, <2>3, TailLines DEF Block
    <2>5. QED
      BY <1>1, <1>2, <1>4, <2>1, <2>2, <2>4 DEF HeadFits
  <1>5. ASSUME status # Absent 
        PROVE  \E i \in DOMAIN bl : bl[i] # <<>> /\ IsStatus(bl[i][1]) /\ bl[i][1].junk = status
    <2>1. n > 1
      BY <1>1, <1>2, <1>5 DEF HeadFits
    <2>2. QED
      BY <1>4, <1>5, <2>1
  <1>6. headers # Absent => n > 1
    BY <1>1, <1>2 DEF HeadFits
  <1>7. ASSUME n = 2, IsStatus(head[1]) PROVE status = head[1].junk
    BY <1>4, <1>7
  <1>8. ASSUME n = 2, IsStatus(head[1]), WellFormed(fields), UsualNames(fields)
        PROVE  /\ headers = Fields(fields)
               /\ Throws(toString(headers)) <=> DOMAIN headers # {}
               /\ Settled(headers) => ~Throws(Written(headers)) /\ parse(Written(headers)) = headers
    <2>1. n > 1
      BY <1>8
    <2>2. fields \in Seq(Line) /\ (~Throws(fields) => headers = parse(fields))
      BY <1>4, <1>8, <2>1
    <2>3. ~Throws(fields) /\ parse(fields) = Fields(fields)
      BY <1>8, <2>2, ReadsFields
    <2>4. Header(Fields(fields))
      BY <1>8, <2>2, FieldsHeader
    <2>5. headers = Fields(fields)
      BY <2>2, <2>3
    <2>6. QED
      BY <2>4, <2>5, WrittenReads, NotReadAsWritten
  <1>9. QED
    BY <1>1, <1>3, <1>5, <1>6, <1>7, <1>8 DEF ShowsItsAnswer

\* What the handle shows is of its last request. With one block of lines, well-
\* formed and of usual names, it shows the code and what every header says;
\* the text made of these headers cannot be parsed as it is written, and once
\* its last line is ended it is read as them if their names are settled: for
\* lines of any number and length, whatever names are known. Of the headers of
\* a later block it only says that what is shown is of this request.
THEOREM ShowsItsAnswerHolds == CurlSpec => []ShowsItsAnswer
  <1>1. CurlInit => HeadInv
    BY HeadBegins
  <1>2. HeadInv /\ [CurlNext]_curlVars => HeadInv'
    BY HeadStep
  <1>3. HeadInv /\ CurlInv => ShowsItsAnswer
    BY HeadShows DEF CurlInv
  <1>4. QED
    BY <1>1, <1>2, <1>3, CurlInvHolds, PTL DEF CurlSpec

-----------------------------------------------------------------------------
(* The XML plugin's parsers. *)

ParserRec == [open : BOOLEAN, fine : BOOLEAN, got : 0 .. Pieces, myDoc : Doc \cup {NoDoc}]

\* A parser without an object is empty; one that is open has not handed its
\* document over, one that is not has none; a parser that has read something
\* without an error has a document; the document it has handed over is kept
\* by its property.
ParserFits(p) ==
  /\ p \notin objects => parser[p] = Empty /\ document[p] = NoDoc
  /\ parser[p].open = TRUE => document[p] = NoDoc
  /\ parser[p].open = FALSE => parser[p].myDoc = NoDoc
  /\ parser[p].fine = TRUE /\ parser[p].got > 0 => parser[p].myDoc # NoDoc
  /\ p \in objects \ passing /\ document[p] # NoDoc => document[p] \in objects \ passing

\* What is in memory is what has a wrapper and what a parser has, never
\* both, never two parsers.
OwnersFit ==
  /\ \A d \in Doc : d \in memory <=> d \in objects \/ \E p \in Parser : parser[p].myDoc = d
  /\ \A p \in Parser : parser[p].myDoc # NoDoc =>
       /\ parser[p].myDoc \notin objects
       /\ \A q \in Parser : parser[q].myDoc = parser[p].myDoc => q = p

ParserInv ==
  /\ ParserTypeOK
  /\ faults = 0
  /\ inHand \cap passing = {}
  /\ \A p \in Parser : ParserFits(p)
  /\ OwnersFit

LEMMA EmptyFacts ==
  /\ Empty \in ParserRec
  /\ Empty.open = FALSE /\ Empty.fine = TRUE /\ Empty.got = 0 /\ Empty.myDoc = NoDoc
  BY ParserAssumption DEF Empty, ParserRec

LEMMA ParserTypes ==
  ASSUME ParserTypeOK, NEW p \in Parser
  PROVE  /\ parser[p] \in ParserRec
         /\ parser[p].open \in BOOLEAN /\ parser[p].fine \in BOOLEAN
         /\ parser[p].got \in 0 .. Pieces /\ parser[p].got \in Nat
         /\ parser[p].myDoc \in Doc \cup {NoDoc}
         /\ document[p] \in Doc \cup {NoDoc}
         /\ p \in DOMAIN parser /\ p \in DOMAIN document
         /\ Pieces \in Nat /\ Pieces > 0 /\ NoDoc \notin Doc
         /\ p \notin Doc /\ p # NoDoc
  BY ParserAssumption DEF ParserTypeOK, ParserRec

\* What a call of the parser does, handing the document over or not.
Read(p, d, now) ==
  /\ passing = {} /\ p \in inHand /\ parser[p].open = TRUE
  /\ d \in Doc \cup {NoDoc}
  /\ now \in ParserRec /\ now.open = TRUE /\ now.myDoc = d
  /\ now.fine = TRUE /\ now.got > 0 => d # NoDoc
  /\ parser[p].myDoc # NoDoc => d = parser[p].myDoc
  /\ parser[p].myDoc = NoDoc => d \notin memory
  /\ memory' = memory \cup ({d} \ {NoDoc})
  /\ \/ parser' = [parser EXCEPT ![p] = now] /\ UNCHANGED <<document, objects>>
     \/ /\ d # NoDoc
        /\ document' = [document EXCEPT ![p] = d]
        /\ objects' = objects \cup {d}
        /\ parser' = [parser EXCEPT ![p] = Empty]
  /\ UNCHANGED <<loaded, inHand, passing, faults>>

LEMMA FeedReads ==
  ASSUME ParserInv, NEW p \in Parser, NEW chunk \in {0, 1},
         NEW good \in BOOLEAN, NEW final \in BOOLEAN, Feed(p, chunk, good, final)
  PROVE  \E d, now : Read(p, d, now)
  <1>1. /\ ParserTypeOK /\ ParserFits(p) /\ memory \subseteq Doc
        /\ parser[p] \in ParserRec
        /\ parser[p].open \in BOOLEAN /\ parser[p].fine \in BOOLEAN
        /\ parser[p].got \in 0 .. Pieces /\ parser[p].got \in Nat
        /\ parser[p].myDoc \in Doc \cup {NoDoc}
        /\ Pieces \in Nat /\ Pieces > 0 /\ NoDoc \notin Doc
    BY ParserTypes DEF ParserInv, ParserTypeOK
  <1>2. /\ passing = {} /\ p \in inHand /\ parser[p].open = TRUE
        /\ UNCHANGED <<loaded, inHand, passing, faults>>
    BY <1>1 DEF Feed, Quiet
  <1>3. PICK d \in IF parser[p].myDoc # NoDoc THEN {parser[p].myDoc}
                   ELSE IF parser[p].fine /\ chunk = 1
                   THEN (Doc \ memory) \cup (IF good THEN {} ELSE {NoDoc})
                   ELSE {NoDoc} :
          /\ memory' = memory \cup ({d} \ {NoDoc})
          /\ IF Parsed(p, chunk, good, final, d).fine /\ final
             THEN Terminated(p, Parsed(p, chunk, good, final, d))
             ELSE parser' = [parser EXCEPT ![p] = Parsed(p, chunk, good, final, d)]
                  /\ UNCHANGED <<document, objects>>
    BY DEF Feed
  <1>4. PICK now : now = Parsed(p, chunk, good, final, d)
    OBVIOUS
  <1>5. /\ d \in Doc \cup {NoDoc}
        /\ parser[p].myDoc # NoDoc => d = parser[p].myDoc
        /\ parser[p].myDoc = NoDoc => d \notin memory
        /\ d = NoDoc => parser[p].myDoc = NoDoc
             /\ (parser[p].fine = FALSE \/ chunk = 0 \/ good = FALSE)
    BY <1>1
  <1>6. /\ now \in ParserRec /\ now.open = TRUE /\ now.myDoc = d
        /\ now.got = IF parser[p].got < Pieces THEN parser[p].got + chunk ELSE parser[p].got
        /\ now.fine = (/\ parser[p].fine /\ good
                       /\ parser[p].got + chunk <= Pieces
                       /\ (final => parser[p].got + chunk = Pieces))
    <2>1. now = [open |-> parser[p].open, 
                 fine |-> (/\ parser[p].fine /\ good
                           /\ parser[p].got + chunk <= Pieces
                           /\ (final => parser[p].got + chunk = Pieces)),
                 got |-> IF parser[p].got < Pieces THEN parser[p].got + chunk ELSE parser[p].got,
                 myDoc |-> d]
      BY <1>1, <1>4 DEF Parsed, ParserRec
    <2>2. (IF parser[p].got < Pieces THEN parser[p].got + chunk ELSE parser[p].got) \in 0 .. Pieces
      BY <1>1
    <2>3. QED
      BY <1>1, <1>2, <1>5, <2>1, <2>2 DEF ParserRec
  <1>7. now.fine = TRUE => parser[p].fine = TRUE /\ good = TRUE
    BY <1>1, <1>6
  <1>8. now.fine = TRUE /\ now.got > 0 => d # NoDoc
    BY <1>1, <1>5, <1>6, <1>7 DEF ParserFits
  <1>9. now.fine = TRUE /\ final => now.got > 0
    BY <1>1, <1>6
  <1>10. CASE now.fine = TRUE /\ final
    BY <1>2, <1>3, <1>4, <1>5, <1>6, <1>8, <1>9, <1>10 DEF Terminated, Read
  <1>11. CASE ~(now.fine = TRUE /\ final)
    <2>1. ~(now.fine /\ final)
      BY <1>6, <1>11 DEF ParserRec
    <2>2. QED
      BY <1>2, <1>3, <1>4, <1>5, <1>6, <1>8, <2>1 DEF Read
  <1>12. QED
    BY <1>10, <1>11

\* A call of the parser.
LEMMA ReadKeeps ==
  ASSUME ParserInv, NEW p \in Parser, NEW d, NEW now, Read(p, d, now)
  PROVE  ParserInv'
  <1>1. /\ ParserTypeOK /\ ParserFits(p) /\ OwnersFit /\ memory \subseteq Doc
        /\ parser \in [Parser -> ParserRec] /\ document \in [Parser -> Doc \cup {NoDoc}]
        /\ p \in objects /\ p \notin Doc /\ NoDoc \notin Doc
        /\ parser[p].open = TRUE /\ passing = {} /\ passing' = {}
        /\ inHand' = inHand /\ inHand \subseteq objects /\ objects \subseteq Parser \cup Doc
    BY ParserTypes DEF ParserInv, ParserTypeOK, ParserRec, Read
  <1>2. /\ d \in Doc \cup {NoDoc} /\ now \in ParserRec
        /\ now.open = TRUE /\ now.myDoc = d
        /\ now.fine = TRUE /\ now.got > 0 => d # NoDoc
        /\ memory' = memory \cup ({d} \ {NoDoc}) /\ faults' = faults /\ loaded' = loaded
    BY DEF Read
  <1>3. d # NoDoc => /\ d \notin objects
                     /\ \A q \in Parser : q # p => parser[q].myDoc # d
    BY <1>2 DEF Read, OwnersFit, ParserInv
  <1>4. parser[p].myDoc # NoDoc => d = parser[p].myDoc
    BY DEF Read
  <1>5. CASE parser' = [parser EXCEPT ![p] = now] /\ UNCHANGED <<document, objects>>
    <2>1. parser'[p] = now /\ \A q \in Parser : q # p => parser'[q] = parser[q]
      BY <1>1, <1>5
    <2>2. ParserTypeOK'
      BY <1>1, <1>2, <1>5 DEF ParserTypeOK, ParserRec
    <2>3. ASSUME NEW q \in Parser
          PROVE  ParserFits(q)'
      <3>1. CASE q = p
        BY <1>1, <1>2, <1>5, <2>1, <3>1 DEF ParserFits
      <3>2. CASE q # p
        BY <1>1, <1>5, <2>1, <3>2 DEF ParserFits, ParserInv
      <3>3. QED
        BY <3>1, <3>2
    <2>4. OwnersFit'
      <3>1. \A e \in Doc : e \in memory' <=>
              e \in objects' \/ \E q \in Parser : parser'[q].myDoc = e
        <4> TAKE e \in Doc
        <4>1. CASE e = d
          BY <1>1, <1>2, <2>1, <4>1
        <4>2. CASE e # d
          <5>1. e \in memory' <=> e \in memory
            BY <1>2, <4>2
          <5>2. \A q \in Parser : parser'[q].myDoc = e <=> parser[q].myDoc = e
            BY <1>1, <1>2, <1>4, <2>1, <4>2
          <5>3. QED
            BY <1>1, <1>5, <5>1, <5>2 DEF OwnersFit
        <4>3. QED
          BY <4>1, <4>2
      <3>2. ASSUME NEW q \in Parser, parser'[q].myDoc # NoDoc
            PROVE  /\ parser'[q].myDoc \notin objects'
                   /\ \A r \in Parser : parser'[r].myDoc = parser'[q].myDoc => r = q
        BY <1>1, <1>2, <1>3, <1>5, <2>1, <3>2 DEF OwnersFit
      <3>3. QED
        BY <3>1, <3>2 DEF OwnersFit
    <2>5. QED
      BY <1>1, <1>2, <2>2, <2>3, <2>4 DEF ParserInv
  <1>6. CASE /\ d # NoDoc
             /\ document' = [document EXCEPT ![p] = d]
             /\ objects' = objects \cup {d}
             /\ parser' = [parser EXCEPT ![p] = Empty]
    <2>1. /\ parser'[p] = Empty /\ \A q \in Parser : q # p => parser'[q] = parser[q]
          /\ document'[p] = d /\ \A q \in Parser : q # p => document'[q] = document[q]
      BY <1>1, <1>6
    <2>2. ParserTypeOK'
      <3>1. parser' \in [Parser -> ParserRec]
        BY <1>1, <1>6, EmptyFacts
      <3>2. QED
        BY <1>1, <1>2, <1>6, <3>1 DEF ParserTypeOK, ParserRec
    <2>3. ASSUME NEW q \in Parser
          PROVE  ParserFits(q)'
      <3>1. CASE q = p
        BY <1>1, <1>2, <1>6, <2>1, <3>1, EmptyFacts DEF ParserFits
      <3>2. CASE q # p
        <4>1. ParserFits(q) /\ q \notin Doc
          BY ParserTypes DEF ParserInv
        <4>2. QED
          BY <1>1, <1>2, <1>6, <2>1, <3>2, <4>1 DEF ParserFits
      <3>3. QED
        BY <3>1, <3>2
    <2>4. OwnersFit'
      <3>1. \A e \in Doc : e \in memory' <=>
              e \in objects' \/ \E q \in Parser : parser'[q].myDoc = e
        <4> TAKE e \in Doc
        <4>1. CASE e = d
          BY <1>2, <1>6, <4>1
        <4>2. CASE e # d
          <5>1. (e \in memory' <=> e \in memory) /\ (e \in objects' <=> e \in objects)
            BY <1>2, <1>6, <4>2
          <5>2. \A q \in Parser : parser'[q].myDoc = e <=> parser[q].myDoc = e
            BY <1>1, <1>2, <1>4, <2>1, <4>2, EmptyFacts
          <5>3. QED
            BY <1>1, <5>1, <5>2 DEF OwnersFit
        <4>3. QED
          BY <4>1, <4>2
      <3>2. ASSUME NEW q \in Parser, parser'[q].myDoc # NoDoc
            PROVE  /\ parser'[q].myDoc \notin objects'
                   /\ \A r \in Parser : parser'[r].myDoc = parser'[q].myDoc => r = q
        <4>1. q # p /\ parser'[q] = parser[q]
          BY <2>1, <3>2, EmptyFacts
        <4>2. QED
          BY <1>1, <1>3, <1>6, <2>1, <3>2, <4>1, EmptyFacts DEF OwnersFit
      <3>3. QED
        BY <3>1, <3>2 DEF OwnersFit
    <2>5. QED
      BY <1>1, <1>2, <2>2, <2>3, <2>4 DEF ParserInv
  <1>7. QED
    BY <1>5, <1>6 DEF Read

\* A finalizer frees the document that the parser or the wrapper has.
LEMMA FinalizeKeeps ==
  ASSUME ParserInv, NEW x, (FinalizeParser(x) /\ x \in Parser) \/ (FinalizeDoc(x) /\ x \in Doc)
  PROVE  ParserInv'
  <1>1. /\ ParserTypeOK /\ OwnersFit /\ memory \subseteq Doc
        /\ parser \in [Parser -> ParserRec] /\ document \in [Parser -> Doc \cup {NoDoc}]
        /\ inHand \cup passing \subseteq objects /\ objects \subseteq Parser \cup Doc
        /\ inHand \cap passing = {} /\ faults = 0
        /\ NoDoc \notin Doc /\ Parser \cap Doc = {}
        /\ \A p \in Parser : ParserFits(p)
    BY ParserAssumption DEF ParserInv, ParserTypeOK, ParserRec
  <1>2. /\ x \in passing /\ x \notin inHand /\ x \in objects
        /\ passing' = passing \ {x} /\ objects' = objects \ {x}
        /\ UNCHANGED <<loaded, inHand>>
    BY <1>1 DEF FinalizeParser, FinalizeDoc
  <1>3. CASE FinalizeParser(x) /\ x \in Parser
    <2>1. PICK d : d = parser[x].myDoc
      OBVIOUS
    <2>2. /\ d \in Doc \cup {NoDoc}
          /\ d # NoDoc => d \in memory /\ d \notin objects
      BY <1>1, <1>3, <2>1 DEF OwnersFit, ParserRec
    <2>3. /\ memory' = memory \ {d} /\ faults' = 0
          /\ parser' = [parser EXCEPT ![x] = Empty]
          /\ document' = [document EXCEPT ![x] = NoDoc]
      BY <1>1, <1>3, <2>1, <2>2 DEF FinalizeParser, FreeDoc
    <2>4. /\ parser'[x] = Empty /\ \A q \in Parser : q # x => parser'[q] = parser[q]
          /\ document'[x] = NoDoc /\ \A q \in Parser : q # x => document'[q] = document[q]
      BY <1>1, <1>3, <2>3
    <2>5. ParserTypeOK'
      <3>1. parser' \in [Parser -> ParserRec] /\ document' \in [Parser -> Doc \cup {NoDoc}]
        BY <1>1, <2>3, EmptyFacts
      <3>2. QED
        BY <1>1, <1>2, <2>3, <3>1 DEF ParserTypeOK, ParserRec
    <2>6. ASSUME NEW q \in Parser
          PROVE  ParserFits(q)'
      <3>1. CASE q = x
        BY <2>4, <3>1, EmptyFacts DEF ParserFits
      <3>2. CASE q # x
        <4>1. document[q] # x
          BY <1>1, <1>3, ParserAssumption
        <4>2. QED
          BY <1>1, <1>2, <2>4, <3>2, <4>1 DEF ParserFits
      <3>3. QED
        BY <3>1, <3>2
    <2>7. OwnersFit'
      <3>1. \A e \in Doc : e \in memory' <=>
              e \in objects' \/ \E q \in Parser : parser'[q].myDoc = e
        <4> TAKE e \in Doc
        <4>1. e \in objects' <=> e \in objects
          BY <1>1, <1>2, <1>3
        <4>2. CASE e = d
          <5>1. \A q \in Parser : parser'[q].myDoc # d
            BY <1>1, <1>3, <2>1, <2>4, <4>2, EmptyFacts DEF OwnersFit
          <5>2. QED
            BY <1>1, <2>2, <2>3, <4>1, <4>2, <5>1
        <4>3. CASE e # d
          <5>1. \A q \in Parser : parser'[q].myDoc = e <=> parser[q].myDoc = e
            BY <1>1, <2>1, <2>4, <4>3, EmptyFacts
          <5>2. QED
            BY <1>1, <2>3, <4>1, <4>3, <5>1 DEF OwnersFit
        <4>4. QED
          BY <4>2, <4>3
      <3>2. ASSUME NEW q \in Parser, parser'[q].myDoc # NoDoc
            PROVE  /\ parser'[q].myDoc \notin objects'
                   /\ \A r \in Parser : parser'[r].myDoc = parser'[q].myDoc => r = q
        <4>1. q # x /\ parser'[q] = parser[q]
          BY <2>4, <3>2, EmptyFacts
        <4>2. QED
          BY <1>1, <1>2, <2>4, <3>2, <4>1, EmptyFacts DEF OwnersFit
      <3>3. QED
        BY <3>1, <3>2 DEF OwnersFit
    <2>8. QED
      BY <1>1, <1>2, <2>3, <2>5, <2>6, <2>7 DEF ParserInv
  <1>4. CASE FinalizeDoc(x) /\ x \in Doc
    <2>1. x \in memory /\ \A p \in Parser : parser[p].myDoc # x
      BY <1>1, <1>2, <1>4 DEF OwnersFit
    <2>2. /\ memory' = memory \ {x} /\ faults' = 0
          /\ parser' = parser /\ document' = document
      BY <1>1, <1>4, <2>1 DEF FinalizeDoc, FreeDoc
    <2>3. ParserTypeOK'
      BY <1>1, <1>2, <2>2 DEF ParserTypeOK
    <2>4. ASSUME NEW q \in Parser
          PROVE  ParserFits(q)'
      <3>1. q # x
        BY <1>1, <1>4
      <3>2. QED
        BY <1>1, <1>2, <2>2, <3>1 DEF ParserFits
    <2>5. OwnersFit'
      BY <1>1, <1>2, <2>1, <2>2 DEF OwnersFit
    <2>6. QED
      BY <1>1, <1>2, <2>2, <2>3, <2>4, <2>5 DEF ParserInv
  <1>5. QED
    BY <1>3, <1>4

\* The collector leaves alone what script holds and the documents of the
\* parsers among it.
LEMMA CollectKeeps ==
  ASSUME ParserInv, CollectParsers
  PROVE  ParserInv'
  <1>1. /\ ParserTypeOK /\ OwnersFit
        /\ document \in [Parser -> Doc \cup {NoDoc}]
        /\ inHand \subseteq objects /\ objects \subseteq Parser \cup Doc
        /\ passing = {} /\ faults = 0
        /\ NoDoc \notin Parser /\ Parser \cap Doc = {}
        /\ \A p \in Parser : ParserFits(p)
    BY ParserAssumption DEF ParserInv, ParserTypeOK, CollectParsers, Quiet
  <1>2. /\ passing' = objects \ (inHand \cup {document[p] : p \in inHand \cap Parser})
        /\ UNCHANGED <<loaded, parser, document, objects, memory, inHand, faults>>
    BY DEF CollectParsers
  <1>3. ASSUME NEW p \in Parser
        PROVE  ParserFits(p)'
    <2>1. ASSUME p \in objects \ passing', document[p] # NoDoc
          PROVE  document[p] \in objects \ passing'
      <3>1. p \in inHand
        BY <1>1, <1>2, <2>1
      <3>2. document[p] \in objects
        BY <1>1, <2>1 DEF ParserFits
      <3>3. QED
        BY <1>2, <3>1, <3>2
    <2>2. QED
      BY <1>1, <1>2, <2>1 DEF ParserFits
  <1>4. ParserTypeOK' /\ OwnersFit'
    BY <1>1, <1>2 DEF ParserTypeOK, OwnersFit
  <1>5. QED
    BY <1>1, <1>2, <1>3, <1>4 DEF ParserInv

LEMMA ParserStep ==
  ASSUME ParserInv, [ParserNext]_parserVars
  PROVE  ParserInv'
  <1>1. /\ ParserTypeOK /\ OwnersFit /\ memory \subseteq Doc
        /\ parser \in [Parser -> ParserRec] /\ document \in [Parser -> Doc \cup {NoDoc}]
        /\ inHand \cup passing \subseteq objects /\ objects \subseteq Parser \cup Doc
        /\ inHand \cap passing = {} /\ faults = 0
        /\ NoDoc \notin Doc /\ Parser \cap Doc = {}
        /\ \A p \in Parser : ParserFits(p)
    BY ParserAssumption DEF ParserInv, ParserTypeOK, ParserRec
  <1>2. ASSUME UNCHANGED <<parser, document, objects, memory, passing, faults>>,
               loaded' \in {loaded, "plugin"},
               inHand' \subseteq objects, inHand' = inHand \/ passing = {}
        PROVE  ParserInv'
    BY <1>1, <1>2 DEF ParserInv, ParserTypeOK, ParserFits, OwnersFit
  <1>3. CASE UNCHANGED parserVars
    BY <1>1, <1>2, <1>3 DEF parserVars
  <1>4. CASE LoadXml
    BY <1>1, <1>2, <1>4 DEF LoadXml
  <1>5. ASSUME NEW p \in Parser, NewParser(p)
        PROVE  ParserInv'
    <2>1. /\ passing = {} /\ passing' = {} /\ p \notin objects
          /\ objects' = objects \cup {p} /\ inHand' = inHand \cup {p}
          /\ UNCHANGED <<loaded, document, memory, faults>>
      BY <1>5 DEF NewParser, Quiet
    <2>2. PICK now : now = [Empty EXCEPT !.open = TRUE]
      OBVIOUS
    <2>3. /\ now \in ParserRec /\ now.open = TRUE /\ now.got = 0 /\ now.myDoc = NoDoc
      <3>1. now = [open |-> TRUE, fine |-> TRUE, got |-> 0, myDoc |-> NoDoc]
        BY <2>2 DEF Empty
      <3>2. QED
        BY <3>1, ParserAssumption DEF ParserRec
    <2>4. parser' = [parser EXCEPT ![p] = now] /\ parser[p] = Empty /\ document[p] = NoDoc
      BY <1>1, <1>5, <2>1, <2>2 DEF NewParser, ParserFits
    <2>5. parser'[p] = now /\ \A q \in Parser : q # p => parser'[q] = parser[q]
      BY <1>1, <2>4
    <2>6. ParserTypeOK'
      BY <1>1, <2>1, <2>3, <2>4 DEF ParserTypeOK, ParserRec
    <2>7. ASSUME NEW q \in Parser
          PROVE  ParserFits(q)'
      <3>1. CASE q = p
        BY <2>1, <2>3, <2>4, <2>5, <3>1 DEF ParserFits
      <3>2. CASE q # p
        BY <1>1, <2>1, <2>5, <3>2 DEF ParserFits
      <3>3. QED
        BY <3>1, <3>2
    <2>8. \A q \in Parser : parser'[q].myDoc = parser[q].myDoc
      BY <2>3, <2>4, <2>5, EmptyFacts
    <2>9. OwnersFit'
      <3>1. \A d \in Doc \cup {NoDoc} : d \in objects' <=> d \in objects
        BY <1>1, <2>1, ParserAssumption
      <3>2. \A q \in Parser : parser[q].myDoc \in Doc \cup {NoDoc}
        BY <1>1 DEF ParserRec
      <3>3. QED
        BY <1>1, <2>1, <2>8, <3>1, <3>2 DEF OwnersFit
    <2>10. QED
      BY <1>1, <2>1, <2>6, <2>7, <2>9 DEF ParserInv
  <1>6. ASSUME NEW p \in Parser, TerminateParser(p) \/ \E good, final \in BOOLEAN : Push(p, good, final)
        PROVE  ParserInv'
    <2>1. \E d, now : Read(p, d, now)
      BY <1>6, FeedReads DEF TerminateParser, Push
    <2>2. QED
      BY <2>1, ReadKeeps
  <1>7. ASSUME NEW p \in Parser, GetDocument(p)
        PROVE  ParserInv'
    BY <1>1, <1>2, <1>7 DEF GetDocument, Quiet, ParserFits
  <1>8. ASSUME NEW d \in Doc, ParseWhole(d)
        PROVE  ParserInv'
    <2>1. /\ passing = {} /\ passing' = {} /\ d \notin memory
          /\ objects' = objects \cup {d} /\ inHand' = inHand \cup {d}
          /\ memory' = memory \cup {d}
          /\ UNCHANGED <<loaded, parser, document, faults>>
      BY <1>8 DEF ParseWhole, Quiet
    <2>2. ParserTypeOK'
      BY <1>1, <2>1 DEF ParserTypeOK
    <2>3. ASSUME NEW q \in Parser
          PROVE  ParserFits(q)'
      BY <1>1, <2>1 DEF ParserFits
    <2>4. OwnersFit'
      BY <1>1, <2>1 DEF OwnersFit
    <2>5. QED
      BY <1>1, <2>1, <2>2, <2>3, <2>4 DEF ParserInv
  <1>9. ASSUME NEW x \in Parser \cup Doc, Forget(x)
        PROVE  ParserInv'
    BY <1>1, <1>2, <1>9 DEF Forget, Quiet
  <1>10. QED
    BY <1>3, <1>4, <1>5, <1>6, <1>7, <1>8, <1>9, FinalizeKeeps, CollectKeeps DEF ParserNext

LEMMA ParserInvHolds == ParserSpec => []ParserInv
  <1>1. ParserInit => ParserInv
    <2> SUFFICES ASSUME ParserInit PROVE ParserInv
      OBVIOUS
    <2>1. \A p \in Parser : parser[p] = Empty /\ document[p] = NoDoc
      BY DEF ParserInit
    <2>2. ParserTypeOK
      BY EmptyFacts DEF ParserInit, ParserTypeOK, ParserRec
    <2>3. \A p \in Parser : ParserFits(p)
      BY <2>1, EmptyFacts DEF ParserFits
    <2>4. OwnersFit
      BY <2>1, EmptyFacts, ParserAssumption DEF OwnersFit, ParserInit
    <2>5. QED
      BY <2>2, <2>3, <2>4 DEF ParserInv, ParserInit
  <1>2. ParserInv /\ [ParserNext]_parserVars => ParserInv'
    BY ParserStep
  <1>3. QED
    BY <1>1, <1>2, PTL DEF ParserSpec

\* A document that is not freed has one owner: the parser that has begun it,
\* or its wrapper once it was handed over or parsed as a whole; nothing is
\* freed twice and nothing lost, and the property document stands.
THEOREM OneOwnerHolds == ParserSpec => []OneOwner
  <1>1. ParserInv => OneOwner
    <2> SUFFICES ASSUME ParserInv PROVE OneOwner
      OBVIOUS
    <2>1. /\ ParserTypeOK /\ faults = 0 /\ OwnersFit
          /\ NoDoc \notin Doc /\ Parser \cap Doc = {} /\ memory \subseteq Doc
          /\ \A p \in Parser : ParserFits(p)
      BY ParserAssumption DEF ParserInv, ParserTypeOK
    <2>2. ASSUME NEW d \in memory
          PROVE  Cardinality({p \in objects \cap Parser : parser[p].myDoc = d} \cup (objects \cap {d})) = 1
      <3> DEFINE owners == {p \in objects \cap Parser : parser[p].myDoc = d} \cup (objects \cap {d})
      <3>1. d \in Doc /\ d # NoDoc
        BY <2>1
      <3>2. \E x : owners = {x}
        <4>1. CASE d \in objects
          <5>1. \A p \in Parser : parser[p].myDoc # d
            BY <2>1, <3>1, <4>1 DEF OwnersFit
          <5>2. owners = {d}
            BY <4>1, <5>1
          <5>3. QED
            BY <5>2
        <4>2. CASE d \notin objects
          <5>1. PICK p \in Parser : parser[p].myDoc = d
            BY <2>1, <3>1, <4>2 DEF OwnersFit
          <5>2. p \in objects
            BY <2>1, <3>1, <5>1, EmptyFacts DEF ParserFits
          <5>3. \A q \in Parser : parser[q].myDoc = d => q = p
            BY <2>1, <3>1, <5>1 DEF OwnersFit
          <5>4. owners = {p}
            BY <4>2, <5>1, <5>2, <5>3
          <5>5. QED
            BY <5>4
        <4>3. QED
          BY <4>1, <4>2
      <3>3. QED
        BY <3>2, FS_Singleton
    <2>3. ASSUME NEW p \in objects \ passing, p \in Parser, document[p] # NoDoc
          PROVE  document[p] \in (memory \cap objects) \ passing /\ ~parser[p].open
      <3>1. parser[p].open \in BOOLEAN /\ document[p] \in Doc
        BY <2>1, <2>3, ParserTypes
      <3>2. document[p] \in objects \ passing /\ parser[p].open # TRUE
        BY <2>1, <2>3 DEF ParserFits
      <3>3. document[p] \in memory
        BY <2>1, <3>1, <3>2 DEF OwnersFit
      <3>4. QED
        BY <3>1, <3>2, <3>3
    <2>4. QED
      BY <2>1, <2>2, <2>3 DEF OneOwner
  <1>2. QED
    BY <1>1, ParserInvHolds, PTL

-----------------------------------------------------------------------------
(* The XML plugin's XPath contexts. *)

DocThing == <<"node", DocNode>>

\* A context that is not given up: what it needs stands, and its table has
\* what script sees.
ContextFits(x) ==
  x \in contexts /\ <<"context", x>> \notin reaped =>
    /\ table[x] = props[x]
    /\ current[x] \in inTree \cup {Missing}
    /\ DocNode \in inTree /\ DocThing \notin reaped
    /\ x \in spaces /\ <<"ns", x>> \notin reaped

\* What script holds is there and stays; a tree that is given up has no node
\* that script holds.
GripFits ==
  /\ grip \subseteq Objects \ reaped
  /\ DocThing \in reaped => \A n : <<"node", n>> \notin grip
  /\ inTree = {} \/ DocNode \in inTree

XPathInv ==
  /\ XPathTypeOK
  /\ props \in [Ctx -> [NsName -> NsUri \cup {Missing}]]
  /\ proper = TRUE => GripFits /\ \A x \in Ctx : ContextFits(x)
  /\ proper = FALSE => reaped = {}

LEMMA ObjectsFacts ==
  /\ \A x : <<"context", x>> \in Objects <=> x \in contexts
  /\ \A x : <<"ns", x>> \in Objects <=> x \in spaces
  /\ \A n : <<"node", n>> \in Objects <=> n \in inTree \cup alone
  /\ \A o \in Objects : \/ \E x \in contexts : o = <<"context", x>>
                        \/ \E x \in spaces : o = <<"ns", x>>
                        \/ \E n \in inTree \cup alone : o = <<"node", n>>
  BY DEF Objects

LEMMA MarksFacts ==
  /\ \A x : MarksOf(<<"context", x>>) = {DocThing, <<"ns", x>>}
  /\ \A n : MarksOf(<<"node", n>>) = {<<"node", m>> : m \in inTree}
  /\ \A x : MarksOf(<<"ns", x>>) = {}
  BY DEF MarksOf, ContextMarks, DocThing

\* What script can get at between collections: it is there, a context is in
\* its hands, and with a context or a node the document is within reach.
LEMMA ReachFacts ==
  ASSUME XPathInv, Idle
  PROVE  /\ GripFits /\ reaped = {} /\ proper = TRUE
         /\ \A x \in Ctx : ContextFits(x)
         /\ grip \subseteq WithinReach /\ WithinReach \subseteq Objects
         /\ \A x : <<"context", x>> \in WithinReach =>
              /\ x \in contexts
              /\ DocThing \in WithinReach /\ <<"ns", x>> \in WithinReach
         /\ \A n : <<"node", n>> \in grip /\ DocNode \in inTree => DocThing \in WithinReach
  <1>1. GripFits /\ reaped = {} /\ proper = TRUE /\ \A x \in Ctx : ContextFits(x)
    BY DEF XPathInv, XPathTypeOK, Idle
  <1>2. PICK once : once = grip \cup UNION {MarksOf(o) : o \in grip}
    OBVIOUS
  <1>3. WithinReach = once \cup UNION {MarksOf(o) : o \in once}
    BY <1>2 DEF WithinReach, From
  <1>4. grip \subseteq Objects
    BY <1>1 DEF GripFits
  <1>5. ASSUME NEW o \in Objects
        PROVE  /\ MarksOf(o) \subseteq Objects
               /\ \A x : <<"context", x>> \notin MarksOf(o)
    <2>1. CASE \E x \in contexts : o = <<"context", x>>
      <3>1. PICK x \in contexts : o = <<"context", x>>
        BY <2>1
      <3>2. DocNode \in inTree /\ x \in spaces
        BY <1>1 DEF ContextFits, XPathInv, XPathTypeOK
      <3>3. MarksOf(o) = {DocThing, <<"ns", x>>}
        BY <3>1, MarksFacts
      <3>4. DocThing \in Objects /\ <<"ns", x>> \in Objects
        BY <3>2, ObjectsFacts DEF DocThing
      <3>5. QED
        BY <3>3, <3>4 DEF DocThing
    <2>2. CASE \E x \in spaces : o = <<"ns", x>>
      BY <2>2, MarksFacts
    <2>3. CASE \E n : o = <<"node", n>>
      <3>1. MarksOf(o) = {<<"node", m>> : m \in inTree}
        BY <2>3, MarksFacts
      <3>2. QED
        BY <3>1, ObjectsFacts
    <2>4. QED
      BY <2>1, <2>2, <2>3, ObjectsFacts
  <1>6. once \subseteq Objects /\ \A x : <<"context", x>> \in once => <<"context", x>> \in grip
    BY <1>2, <1>4, <1>5
  <1>7. WithinReach \subseteq Objects
    BY <1>3, <1>5, <1>6
  <1>8. \A x : <<"context", x>> \in WithinReach => <<"context", x>> \in grip
    BY <1>3, <1>5, <1>6
  <1>9. grip \subseteq WithinReach /\ \A o \in grip : MarksOf(o) \subseteq WithinReach
    BY <1>2, <1>3
  <1>10. ASSUME NEW x, <<"context", x>> \in WithinReach
         PROVE  x \in contexts /\ DocThing \in WithinReach /\ <<"ns", x>> \in WithinReach
    BY <1>4, <1>8, <1>9, <1>10, MarksFacts, ObjectsFacts
  <1>11. ASSUME NEW n, <<"node", n>> \in grip, DocNode \in inTree
         PROVE  DocThing \in WithinReach
    <2>1. DocThing \in {<<"node", m>> : m \in inTree}
      BY <1>11 DEF DocThing
    <2>2. QED
      BY <1>9, <1>11, <2>1, MarksFacts
  <1>12. QED
    BY <1>1, <1>7, <1>9, <1>10, <1>11

LEMMA XPathTypeStep ==
  ASSUME XPathInv, XPathNext
  PROVE  XPathTypeOK' /\ props' \in [Ctx -> [NsName -> NsUri \cup {Missing}]]
  <1> DEFINE Typed == XPathTypeOK /\ props \in [Ctx -> [NsName -> NsUri \cup {Missing}]]
  <1>1. Typed
    BY DEF XPathInv
  <1>2. ASSUME NEW x \in Ctx, NEW given \in [NsName -> NsUri \cup {Missing}], NewContext(x, given)
        PROVE  Typed'
    BY <1>1, <1>2 DEF NewContext, XPathTypeOK
  <1>3. ASSUME NEW x \in Ctx, NEW k \in NsName, NEW u \in NsUri, SetName(x, k, u)
        PROVE  Typed'
    <2>1. CASE x \in contexts
      <3>1. Assign(x, k, u) /\ UNCHANGED <<contexts, spaces, current, inTree, alone, grip, reaped, proper>>
        BY <1>3, <2>1 DEF SetName
      <3>2. PICK added \in {[table[x] EXCEPT ![k] = u], table[x]} :
              table' = [table EXCEPT ![x] = [added EXCEPT ![k] = u]]
        BY <3>1 DEF Assign, property_add, property_set
      <3>3. [added EXCEPT ![k] = u] \in [NsName -> NsUri \cup {Missing}]
        BY <1>1, <3>2 DEF XPathTypeOK
      <3>4. props' = [props EXCEPT ![x][k] = u]
        BY <3>1 DEF Assign
      <3>5. [props[x] EXCEPT ![k] = u] \in [NsName -> NsUri \cup {Missing}]
        BY <1>1
      <3>6. QED
        BY <1>1, <3>1, <3>2, <3>3, <3>4, <3>5 DEF XPathTypeOK
    <2>2. CASE x \notin contexts
      BY <1>1, <1>3, <2>2 DEF SetName, XPathTypeOK
    <2>3. QED
      BY <2>1, <2>2
  <1>4. ASSUME NEW x \in Ctx, NEW k \in NsName, DeleteName(x, k)
        PROVE  Typed'
    <2>1. CASE x \in contexts
      <3>1. /\ table' = [table EXCEPT ![x] = [table[x] EXCEPT ![k] = Missing]]
            /\ props' = [props EXCEPT ![x] = [props[x] EXCEPT ![k] = Missing]]
            /\ UNCHANGED <<contexts, spaces, current, inTree, alone, grip, reaped, proper>>
        BY <1>1, <1>4, <2>1 DEF DeleteName, property_delete, XPathTypeOK
      <3>2. /\ [table[x] EXCEPT ![k] = Missing] \in [NsName -> NsUri \cup {Missing}]
            /\ [props[x] EXCEPT ![k] = Missing] \in [NsName -> NsUri \cup {Missing}]
        BY <1>1 DEF XPathTypeOK
      <3>3. QED
        BY <1>1, <3>1, <3>2 DEF XPathTypeOK
    <2>2. CASE x \notin contexts
      BY <1>1, <1>4, <2>2 DEF DeleteName, XPathTypeOK
    <2>3. QED
      BY <2>1, <2>2
  <1>5. ASSUME NEW x \in Ctx, NEW n \in XNode \cup {DocNode, Missing}, SetCurrent(x, n)
        PROVE  Typed'
    BY <1>1, <1>5 DEF SetCurrent, XPathTypeOK
  <1>6. ASSUME NEW n \in XNode, UnlinkElement(n)
        PROVE  Typed'
    BY <1>1, <1>6 DEF UnlinkElement, XPathTypeOK
  <1>7. ASSUME NEW x \in Ctx, FinalizeContext(x)
        PROVE  Typed'
    <2>1. Bare \in [NsName -> NsUri \cup {Missing}]
      BY DEF Bare
    <2>2. QED
      BY <1>1, <1>7, <2>1 DEF FinalizeContext, XPathTypeOK
  <1>8. ASSUME NEW x \in Ctx, FinalizeNamespaces(x)
        PROVE  Typed'
    BY <1>1, <1>8 DEF FinalizeNamespaces, XPathTypeOK
  <1>9. ASSUME NEW n \in XNode, FinalizeAlone(n)
        PROVE  Typed'
    BY <1>1, <1>9 DEF FinalizeAlone, XPathTypeOK
  <1>10. CASE FinalizeTree
    BY <1>1, <1>10 DEF FinalizeTree, XPathTypeOK
  <1>11. ASSUME UNCHANGED <<contexts, spaces, table, props, current, inTree, alone, proper>>
         PROVE  Typed'
    BY <1>1, <1>11 DEF XPathTypeOK
  <1>12. QED
    BY <1>2, <1>3, <1>4, <1>5, <1>6, <1>7, <1>8, <1>9, <1>10, <1>11
    DEF XPathNext, Evaluate, GetCurrent, HoldNs, Release, Reap

\* Between collections: the steps of script.
LEMMA ScriptKeeps ==
  ASSUME XPathInv, Idle, reaped' = {}, proper' = TRUE,
         contexts \subseteq contexts', spaces \subseteq spaces',
         alone \subseteq alone', inTree \subseteq inTree' \cup alone',
         inTree' \subseteq inTree, DocNode \in inTree => DocNode \in inTree',
         inTree' = {} \/ DocNode \in inTree',
         \A o \in grip' \ grip : o \in Objects',
         \A x \in contexts' \ contexts : DocNode \in inTree /\ x \in spaces',
         \A x \in contexts' : table'[x] = props'[x] /\ current'[x] \in inTree' \cup {Missing}
  PROVE  GripFits' /\ \A x \in Ctx : ContextFits(x)'
  <1>1. GripFits /\ \A x \in Ctx : ContextFits(x)
    BY ReachFacts
  <1>2. reaped = {} /\ grip \subseteq Objects
    BY <1>1 DEF GripFits, Idle
  <1>3. Objects \subseteq Objects'
    BY DEF Objects
  <1>4. GripFits'
    BY <1>2, <1>3 DEF GripFits
  <1>5. ASSUME NEW x \in Ctx
        PROVE  ContextFits(x)'
    BY <1>1, <1>2 DEF ContextFits
  <1>6. QED
    BY <1>4, <1>5

LEMMA XPathStep ==
  ASSUME XPathInv, [XPathNext]_xpathVars
  PROVE  XPathInv'
  <1> DEFINE Fits == /\ proper = TRUE => GripFits /\ \A x \in Ctx : ContextFits(x)
                     /\ proper = FALSE => reaped = {}
  <1>1. /\ contexts \cup spaces \subseteq Ctx
        /\ table \in [Ctx -> [NsName -> NsUri \cup {Missing}]]
        /\ props \in [Ctx -> [NsName -> NsUri \cup {Missing}]]
        /\ current \in [Ctx -> XNode \cup {DocNode, Missing}]
        /\ alone \subseteq XNode /\ DocNode \notin XNode
        /\ proper \in BOOLEAN
    BY XPathAssumption DEF XPathInv, XPathTypeOK
  <1>2. CASE UNCHANGED xpathVars
    <2>1. /\ XPathTypeOK' /\ Objects' = Objects
      BY <1>2 DEF xpathVars, XPathInv, XPathTypeOK, Objects
    <2>2. QED
      BY <1>2, <2>1 DEF xpathVars, XPathInv, GripFits, ContextFits
  <1>3. ASSUME Idle
        PROVE  /\ GripFits /\ reaped = {} /\ proper = TRUE
               /\ \A x \in Ctx : ContextFits(x)
               /\ grip \subseteq WithinReach /\ WithinReach \subseteq Objects
               /\ \A x : <<"context", x>> \in WithinReach =>
                    /\ x \in contexts
                    /\ DocThing \in WithinReach /\ <<"ns", x>> \in WithinReach
               /\ \A n : <<"node", n>> \in grip /\ DocNode \in inTree => DocThing \in WithinReach
               /\ \A x \in contexts :
                    table[x] = props[x] /\ current[x] \in inTree \cup {Missing} /\ x \in spaces
               /\ inTree = {} \/ DocNode \in inTree
    <2>1. /\ GripFits /\ reaped = {} /\ proper = TRUE
          /\ \A x \in Ctx : ContextFits(x)
          /\ grip \subseteq WithinReach /\ WithinReach \subseteq Objects
          /\ \A x : <<"context", x>> \in WithinReach =>
               /\ x \in contexts
               /\ DocThing \in WithinReach /\ <<"ns", x>> \in WithinReach
          /\ \A n : <<"node", n>> \in grip /\ DocNode \in inTree => DocThing \in WithinReach
      BY <1>3, ReachFacts
    <2>2. \A x \in contexts :
            table[x] = props[x] /\ current[x] \in inTree \cup {Missing} /\ x \in spaces
      BY <1>1, <2>1 DEF ContextFits
    <2>3. QED
      BY <2>1, <2>2 DEF GripFits
  <1>4. ASSUME NEW x \in Ctx, NEW given \in [NsName -> NsUri \cup {Missing}], NewContext(x, given)
        PROVE  Fits'
    <2>1. /\ Idle /\ x \notin contexts /\ DocThing \in WithinReach
          /\ contexts' = contexts \cup {x} /\ spaces' = spaces \cup {x}
          /\ table' = [table EXCEPT ![x] = given] /\ props' = [props EXCEPT ![x] = given]
          /\ current' = [current EXCEPT ![x] = Missing]
          /\ grip' = grip \cup {<<"context", x>>}
          /\ UNCHANGED <<inTree, alone, reaped, proper>>
      BY <1>4 DEF NewContext, DocThing
    <2>2. DocNode \in inTree
      BY <1>1, <1>3, <2>1, ObjectsFacts DEF DocThing
    <2>3. \A y \in contexts' : table'[y] = props'[y] /\ current'[y] \in inTree' \cup {Missing}
      BY <1>1, <1>3, <2>1
    <2>4. <<"context", x>> \in Objects'
      BY <2>1 DEF Objects
    <2>5. GripFits' /\ \A y \in Ctx : ContextFits(y)'
      BY <1>3, <2>1, <2>2, <2>3, <2>4, ScriptKeeps
    <2>6. QED
      BY <1>3, <2>1, <2>5
  <1>5. ASSUME NEW x \in Ctx, NEW k \in NsName, 
               DeleteName(x, k) \/ \E u \in NsUri : SetName(x, k, u)
        PROVE  Fits'
    <2>1. Idle /\ UNCHANGED <<contexts, spaces, current, inTree, alone, grip, reaped>>
      BY <1>5 DEF DeleteName, SetName
    <2>2. CASE x \notin contexts
      BY <1>3, <1>5, <2>1, <2>2 DEF DeleteName, SetName
    <2>3. CASE x \in contexts
      <3>1. proper' = proper
        BY <1>5, <2>3 DEF DeleteName, SetName
      <3>2. PICK v : /\ table' = [table EXCEPT ![x] = [table[x] EXCEPT ![k] = v]]
                     /\ props' = [props EXCEPT ![x] = [props[x] EXCEPT ![k] = v]]
        <4>1. CASE DeleteName(x, k)
          <5>1. /\ table' = [table EXCEPT ![x] = [table[x] EXCEPT ![k] = Missing]]
                /\ props' = [props EXCEPT ![x] = [props[x] EXCEPT ![k] = Missing]]
            BY <1>1, <2>3, <4>1 DEF DeleteName, property_delete
          <5>2. QED
            BY <5>1
        <4>2. ASSUME NEW u \in NsUri, SetName(x, k, u)
              PROVE  /\ table' = [table EXCEPT ![x] = [table[x] EXCEPT ![k] = u]]
                     /\ props' = [props EXCEPT ![x] = [props[x] EXCEPT ![k] = u]]
          <5>1. Assign(x, k, u)
            BY <2>3, <4>2 DEF SetName
          <5>2. PICK added \in {[table[x] EXCEPT ![k] = u], table[x]} :
                  table' = [table EXCEPT ![x] = [added EXCEPT ![k] = u]]
            BY <5>1 DEF Assign, property_add, property_set
          <5>3. [added EXCEPT ![k] = u] = [table[x] EXCEPT ![k] = u]
            BY <1>1, <5>2
          <5>4. props' = [props EXCEPT ![x] = [props[x] EXCEPT ![k] = u]]
            BY <1>1, <5>1 DEF Assign
          <5>5. QED
            BY <5>2, <5>3, <5>4
        <4>3. QED
          BY <1>5, <4>1, <4>2
      <3>3. \A y \in contexts' : table'[y] = props'[y] /\ current'[y] \in inTree' \cup {Missing}
        BY <1>1, <1>3, <2>1, <3>2
      <3>4. GripFits' /\ \A y \in Ctx : ContextFits(y)'
        BY <1>3, <2>1, <3>1, <3>3, ScriptKeeps
      <3>5. QED
        BY <1>3, <2>1, <3>1, <3>4
    <2>4. QED
      BY <2>2, <2>3
  <1>6. ASSUME Idle, \A o \in grip' \ grip : o \in Objects,
               UNCHANGED <<contexts, spaces, table, props, current, inTree, alone, reaped, proper>>
        PROVE  Fits'
    <2>1. Objects' = Objects
      BY <1>6 DEF Objects
    <2>2. \A y \in contexts' : table'[y] = props'[y] /\ current'[y] \in inTree' \cup {Missing}
      BY <1>3, <1>6
    <2>3. GripFits' /\ \A y \in Ctx : ContextFits(y)'
      BY <1>3, <1>6, <2>1, <2>2, ScriptKeeps
    <2>4. QED
      BY <1>3, <1>6, <2>3
  <1>7. ASSUME NEW x \in Ctx, NEW k \in NsName, NEW n \in XNode \cup {DocNode}, Evaluate(x, k, n)
        PROVE  Fits'
    BY <1>6, <1>7, ObjectsFacts DEF Evaluate
  <1>8. ASSUME NEW x \in Ctx, GetCurrent(x)
        PROVE  Fits'
    <2>1. /\ Idle /\ <<"context", x>> \in WithinReach /\ current[x] # Missing
          /\ grip' = grip \cup {<<"node", current[x]>>}
          /\ UNCHANGED <<contexts, spaces, table, props, current, inTree, alone, reaped, proper>>
      BY <1>8 DEF GetCurrent
    <2>2. current[x] \in inTree
      BY <1>3, <2>1
    <2>3. QED
      BY <1>6, <2>1, <2>2, ObjectsFacts
  <1>9. ASSUME NEW x \in Ctx, HoldNs(x)
        PROVE  Fits'
    BY <1>3, <1>6, <1>9 DEF HoldNs
  <1>10. ASSUME NEW o \in grip, Release(o)
        PROVE  Fits'
    BY <1>6, <1>10 DEF Release
  <1>11. ASSUME NEW x \in Ctx, NEW n \in XNode \cup {DocNode, Missing}, SetCurrent(x, n)
         PROVE  Fits'
    <2>1. /\ Idle /\ <<"context", x>> \in WithinReach
          /\ n = Missing \/ <<"node", n>> \in WithinReach
          /\ current' = [current EXCEPT ![x] = n]
          /\ proper' = (n \notin alone)
          /\ UNCHANGED <<contexts, spaces, table, props, inTree, alone, grip, reaped>>
      BY <1>11 DEF SetCurrent
    <2>2. CASE n \in alone
      BY <1>3, <2>1, <2>2
    <2>3. CASE n \notin alone
      <3>1. n \in inTree \cup {Missing}
        BY <1>3, <2>1, <2>3, ObjectsFacts
      <3>2. \A y \in contexts' : table'[y] = props'[y] /\ current'[y] \in inTree' \cup {Missing}
        BY <1>1, <1>3, <2>1, <3>1
      <3>3. GripFits' /\ \A y \in Ctx : ContextFits(y)'
        BY <1>3, <2>1, <2>3, <3>2, ScriptKeeps
      <3>4. QED
        BY <1>3, <2>1, <2>3, <3>3
    <2>4. QED
      BY <2>2, <2>3
  <1>12. ASSUME NEW n \in XNode, UnlinkElement(n)
         PROVE  Fits'
    <2>1. /\ Idle /\ n \in inTree
          /\ inTree' = inTree \ {n} /\ alone' = alone \cup {n}
          /\ proper' = (\A x \in contexts : current[x] # n)
          /\ grip' = grip \cup {<<"node", n>>}
          /\ UNCHANGED <<contexts, spaces, table, props, current, reaped>>
      BY <1>12 DEF UnlinkElement
    <2>2. CASE \E x \in contexts : current[x] = n
      BY <1>3, <2>1, <2>2
    <2>3. CASE \A x \in contexts : current[x] # n
      <3>1. \A y \in contexts' : table'[y] = props'[y] /\ current'[y] \in inTree' \cup {Missing}
        BY <1>3, <2>1, <2>3
      <3>2. <<"node", n>> \in Objects'
        BY <2>1 DEF Objects
      <3>3. n # DocNode /\ DocNode \in inTree'
        BY <1>1, <1>3, <2>1
      <3>4. GripFits' /\ \A y \in Ctx : ContextFits(y)'
        BY <1>3, <2>1, <2>3, <3>1, <3>2, <3>3, ScriptKeeps
      <3>5. QED
        BY <1>3, <2>1, <2>3, <3>4
    <2>4. QED
      BY <2>2, <2>3
  <1>13. ASSUME Reap
         PROVE  Fits'
    <2>1. /\ Idle /\ reaped' = Objects \ WithinReach
          /\ UNCHANGED <<contexts, spaces, table, props, current, inTree, alone, grip, proper>>
      BY <1>13 DEF Reap
    <2>2. Objects' = Objects
      BY <2>1 DEF Objects
    <2>3. GripFits'
      <3>1. grip \subseteq Objects \ reaped'
        BY <1>3, <2>1
      <3>2. ASSUME DocThing \in reaped'
            PROVE  \A n : <<"node", n>> \notin grip
        <4>1. DocNode \in inTree
          BY <1>1, <2>1, <3>2, ObjectsFacts DEF DocThing
        <4>2. QED
          BY <1>3, <2>1, <3>2, <4>1
      <3>3. QED
        BY <1>3, <2>1, <2>2, <3>1, <3>2 DEF GripFits, DocThing
    <2>4. ASSUME NEW x \in Ctx, x \in contexts, <<"context", x>> \notin reaped'
          PROVE  DocThing \notin reaped' /\ <<"ns", x>> \notin reaped' /\ DocNode \in inTree
      <3>1. <<"context", x>> \in WithinReach
        BY <2>1, <2>4, ObjectsFacts
      <3>2. QED
        BY <1>3, <2>1, <2>4, <3>1 DEF ContextFits
    <2>5. \A x \in Ctx : ContextFits(x)'
      BY <1>3, <2>1, <2>4 DEF ContextFits, DocThing
    <2>6. proper' = TRUE
      BY <1>3, <2>1
    <2>7. QED
      BY <2>3, <2>5, <2>6
  <1>14. ASSUME reaped # {}
         PROVE  proper = TRUE /\ GripFits /\ \A x \in Ctx : ContextFits(x)
    BY <1>1, <1>14 DEF XPathInv
  <1>15. ASSUME NEW x \in Ctx, FinalizeContext(x)
         PROVE  Fits'
    <2>1. /\ <<"context", x>> \in reaped
          /\ reaped' = reaped \ {<<"context", x>>} /\ contexts' = contexts \ {x}
          /\ table' = [table EXCEPT ![x] = Bare] /\ props' = [props EXCEPT ![x] = Bare]
          /\ current' = [current EXCEPT ![x] = Missing]
          /\ UNCHANGED <<spaces, inTree, alone, grip, proper>>
      BY <1>15 DEF FinalizeContext
    <2>2. proper = TRUE /\ GripFits /\ \A y \in Ctx : ContextFits(y)
      BY <1>14, <2>1
    <2>3. Objects \ {<<"context", x>>} \subseteq Objects'
      BY <2>1 DEF Objects
    <2>4. GripFits'
      BY <2>1, <2>2, <2>3 DEF GripFits, DocThing
    <2>5. ASSUME NEW y \in Ctx
          PROVE  ContextFits(y)'
      <3>1. CASE y = x
        BY <2>1, <3>1 DEF ContextFits
      <3>2. CASE y # x
        <4>1. table'[y] = table[y] /\ props'[y] = props[y] /\ current'[y] = current[y]
          BY <1>1, <2>1, <3>2
        <4>2. QED
          BY <2>1, <2>2, <3>2, <4>1 DEF ContextFits, DocThing
      <3>3. QED
        BY <3>1, <3>2
    <2>6. QED
      BY <2>1, <2>2, <2>4, <2>5
  <1>16. ASSUME NEW x \in Ctx, FinalizeNamespaces(x)
         PROVE  Fits'
    <2>1. /\ <<"ns", x>> \in reaped
          /\ reaped' = reaped \ {<<"ns", x>>} /\ spaces' = spaces \ {x}
          /\ UNCHANGED <<contexts, table, props, current, inTree, alone, grip, proper>>
      BY <1>16 DEF FinalizeNamespaces
    <2>2. proper = TRUE /\ GripFits /\ \A y \in Ctx : ContextFits(y)
      BY <1>14, <2>1
    <2>3. Objects \ {<<"ns", x>>} \subseteq Objects'
      BY <2>1 DEF Objects
    <2>4. GripFits'
      BY <2>1, <2>2, <2>3 DEF GripFits, DocThing
    <2>5. \A y \in Ctx : ContextFits(y)'
      BY <2>1, <2>2 DEF ContextFits, DocThing
    <2>6. QED
      BY <2>1, <2>2, <2>4, <2>5
  <1>17. ASSUME FinalizeTree
         PROVE  Fits'
    <2>1. /\ DocThing \in reaped /\ inTree' = {}
          /\ reaped' = reaped \ {<<"node", n>> : n \in inTree}
          /\ UNCHANGED <<contexts, spaces, table, props, current, alone, grip, proper>>
      BY <1>17 DEF FinalizeTree, DocThing
    <2>2. proper = TRUE /\ GripFits /\ \A y \in Ctx : ContextFits(y)
      BY <1>14, <2>1
    <2>3. grip \subseteq Objects \ reaped /\ \A n : <<"node", n>> \notin grip
      BY <2>1, <2>2 DEF GripFits
    <2>4. ASSUME NEW o \in grip
          PROVE  o \in Objects' \ reaped'
      <3>1. o \in Objects /\ ~(\E n \in inTree \cup alone : o = <<"node", n>>)
        BY <2>3
      <3>2. (\E x \in contexts : o = <<"context", x>>) \/ (\E x \in spaces : o = <<"ns", x>>)
        BY <3>1, ObjectsFacts
      <3>3. o \in Objects'
        BY <2>1, <3>2 DEF Objects
      <3>4. QED
        BY <2>1, <2>3, <3>3
    <2>5. GripFits'
      BY <2>1, <2>3, <2>4 DEF GripFits, DocThing
    <2>6. ASSUME NEW y \in Ctx
          PROVE  ContextFits(y)'
      <3>1. y \notin contexts \/ <<"context", y>> \in reaped
        BY <2>1, <2>2 DEF ContextFits
      <3>2. <<"context", y>> \in reaped => <<"context", y>> \in reaped'
        BY <2>1
      <3>3. QED
        BY <2>1, <3>1, <3>2 DEF ContextFits
    <2>7. proper' = TRUE
      BY <2>1, <2>2
    <2>8. QED
      BY <2>5, <2>6, <2>7
  <1>18. ASSUME NEW n \in XNode, FinalizeAlone(n)
         PROVE  Fits'
    <2>1. /\ <<"node", n>> \in reaped
          /\ alone' = alone \ {n} /\ reaped' = reaped \ {<<"node", n>>}
          /\ UNCHANGED <<contexts, spaces, table, props, current, inTree, grip, proper>>
      BY <1>18 DEF FinalizeAlone
    <2>2. proper = TRUE /\ GripFits /\ \A y \in Ctx : ContextFits(y)
      BY <1>14, <2>1
    <2>3. Objects \ {<<"node", n>>} \subseteq Objects'
      BY <2>1 DEF Objects
    <2>4. GripFits'
      BY <2>1, <2>2, <2>3 DEF GripFits, DocThing
    <2>5. \A y \in Ctx : ContextFits(y)'
      BY <2>1, <2>2 DEF ContextFits, DocThing
    <2>6. QED
      BY <2>1, <2>2, <2>4, <2>5
  <1>19. CASE XPathNext
    <2> HIDE DEF Fits
    <2>1. Fits'
      BY <1>19, <1>4, <1>5, <1>7, <1>8, <1>9, <1>10, <1>11, <1>12, <1>13,
         <1>15, <1>16, <1>17, <1>18 DEF XPathNext
    <2>2. XPathTypeOK' /\ props' \in [Ctx -> [NsName -> NsUri \cup {Missing}]]
      BY <1>19, XPathTypeStep
    <2>3. QED
      BY <2>1, <2>2 DEF XPathInv, Fits
  <1>20. QED
    BY <1>2, <1>19

LEMMA XPathInvHolds == XPathSpec => []XPathInv
  <1>1. XPathInit => XPathInv
    <2> SUFFICES ASSUME XPathInit PROVE XPathInv
      OBVIOUS
    <2>1. Bare \in [NsName -> NsUri \cup {Missing}]
      BY DEF Bare
    <2>2. XPathTypeOK /\ props \in [Ctx -> [NsName -> NsUri \cup {Missing}]] /\ proper = TRUE
      BY <2>1 DEF XPathInit, XPathTypeOK
    <2>3. GripFits
      BY DEF XPathInit, GripFits, Objects, DocThing
    <2>4. \A x \in Ctx : ContextFits(x)
      BY DEF XPathInit, ContextFits
    <2>5. QED
      BY <2>2, <2>3, <2>4 DEF XPathInv
  <1>2. XPathInv /\ [XPathNext]_xpathVars => XPathInv'
    BY XPathStep
  <1>3. QED
    BY <1>1, <1>2, PTL DEF XPathSpec

\* As long as no script has changed the object ns of a context that was
\* collected, nor taken the current node of a context out of the document,
\* what follows holds of each context that is not given up, whatever is
\* collected when: its document and its object ns stand, its current node is
\* in the document, and an evaluation knows the prefixes that script sees.
THEOREM ContextsSoundHolds == XPathSpec => []ContextsSound
  <1>1. XPathInv => ContextsSound
    <2> SUFFICES ASSUME XPathInv PROVE ContextsSound
      OBVIOUS
    <2>1. XPathTypeOK /\ contexts \subseteq Ctx /\ proper \in BOOLEAN
      BY DEF XPathInv, XPathTypeOK
    <2>2. ASSUME proper = TRUE, NEW x \in contexts, <<"context", x>> \notin reaped
          PROVE  /\ table[x] = props[x]
                 /\ current[x] \in inTree \cup {Missing} /\ <<"node", DocNode>> \notin reaped
                 /\ x \in spaces /\ <<"ns", x>> \notin reaped
      BY <2>1, <2>2 DEF XPathInv, ContextFits, DocThing
    <2>3. QED
      BY <2>1, <2>2 DEF ContextsSound
  <1>2. QED
    BY <1>1, XPathInvHolds, PTL

-----------------------------------------------------------------------------
(* The namespaces of the XML plugin. *)

\* What is there and stays.
Stay == there \ sweep

\* What is not there leads nowhere.
NsAbsent == \A e \in Elt \ there : up[e] = None /\ nsDef[e] = {} /\ ns[e] = None

\* What an element that stays leads to stays, and what is below it.
NsBacked ==
  /\ \A e \in Elt \cap Stay :
       nsDef[e] \subseteq Stay /\ ns[e] \in Stay \cup {None} /\ up[e] \in Stay \cup {None}
  /\ \A e \in Elt : up[e] \in Stay => e \in Stay

NsApart == \A e, f \in Elt : e # f => nsDef[e] \cap nsDef[f] = {}

NsInv == NsTypeOK /\ NsAbsent /\ NsBacked /\ NsApart /\ script \subseteq Stay

\* What those of B lead to, as script and as the collector see it.
Leading(B) == (UNION {Given(x) : x \in B}) \ {None}
LeadingMarked(B) == (UNION {NsMarked(x) : x \in B}) \ {None}

LEMMA LeadingIs ==
  ASSUME NEW B
  PROVE  /\ \A y : y \in Leading(B) <=> y # None /\ \E x \in B : y \in Given(x)
         /\ LeadingMarked(B) = Leading(B)
  <1>1. PICK T : T = {Given(x) : x \in B}
    OBVIOUS
  <1>2. PICK U : U = {NsMarked(x) : x \in B}
    OBVIOUS
  <1>3. \A x : NsMarked(x) = Given(x)
    BY DEF NsMarked, Given
  <1>4. T = U
    BY <1>1, <1>2, <1>3
  <1>5. Leading(B) = (UNION T) \ {None}
    BY ONLY <1>1 DEF Leading
  <1>6. LeadingMarked(B) = (UNION U) \ {None}
    BY ONLY <1>2 DEF LeadingMarked
  <1>7. \A y : y \in UNION T <=> \E x \in B : y \in Given(x)
    <2>1. \A t : t \in T <=> \E x \in B : t = Given(x)
      BY <1>1
    <2>2. QED
      BY <2>1
  <1>8. ASSUME NEW y PROVE y \in Leading(B) <=> y # None /\ \E x \in B : y \in Given(x)
    <2>1. y \in Leading(B) <=> y # None /\ y \in UNION T
      BY ONLY <1>5
    <2>2. QED
      BY ONLY <1>7, <2>1
  <1>9. LeadingMarked(B) = Leading(B)
    BY ONLY <1>4, <1>5, <1>6
  <1>10. QED
    BY ONLY <1>8, <1>9

\* h begins with S and goes on with what that leads to.
Raw(h, S, n) == h = [i \in 0 .. n |-> IF i = 0 THEN S ELSE h[i - 1] \cup Leading(h[i - 1])]

LEMMA RawIterates ==
  ASSUME NEW X, NEW S \in SUBSET X, NEW n \in Nat, NEW g \in [SUBSET X -> SUBSET X],
         \A B \in SUBSET X : g[B] = B \cup Leading(B),
         NEW h, Raw(h, S, n)
  PROVE  Iterates(h, SUBSET X, S, g, n)
  <1>1. \A i \in 0 .. n : h[i] = IF i = 0 THEN S ELSE h[i - 1] \cup Leading(h[i - 1])
    BY DEF Raw
  <1>2. 0 \in 0 .. n /\ \A i \in 1 .. n : i \in 0 .. n /\ i # 0 /\ i - 1 \in 0 .. n
    OBVIOUS
  <1>3. h[0] = S /\ \A i \in 1 .. n : h[i] = h[i - 1] \cup Leading(h[i - 1])
    BY <1>1, <1>2
  <1>4. \A k \in 0 .. n : h[k] \in SUBSET X
    <2> DEFINE T == {k \in Nat : k <= n => h[k] \in SUBSET X}
    <2>1. 0 \in T
      BY <1>3
    <2>2. ASSUME NEW k \in T PROVE k + 1 \in T
      <3>1. SUFFICES ASSUME k + 1 <= n PROVE h[k + 1] \in SUBSET X
        OBVIOUS
      <3>2. k + 1 \in 1 .. n /\ k + 1 - 1 = k /\ h[k] \in SUBSET X
        BY <2>2, <3>1
      <3>3. h[k + 1] = h[k + 1 - 1] \cup Leading(h[k + 1 - 1])
        BY ONLY <1>3, <3>2
      <3>4. h[k + 1] = g[h[k]]
        <4>1. g[h[k]] = h[k] \cup Leading(h[k])
          BY <3>2
        <4>2. QED
          BY ONLY <3>2, <3>3, <4>1
      <3>5. QED
        BY <3>2, <3>4
    <2>3. T = Nat
      BY <2>1, <2>2, SetInduction
    <2>4. ASSUME NEW k \in 0 .. n PROVE h[k] \in SUBSET X
      <3>1. k \in T /\ k <= n
        BY ONLY <2>3, n \in Nat, k \in 0 .. n
      <3>2. QED
        BY ONLY <3>1
    <2>5. QED
      BY ONLY <2>4
  <1>5. h \in [0 .. n -> SUBSET X]
    <2>1. PICK F : F = [i \in 0 .. n |-> IF i = 0 THEN S ELSE h[i - 1] \cup Leading(h[i - 1])]
      OBVIOUS
    <2>2. DOMAIN F = 0 .. n /\ F = [i \in 0 .. n |-> F[i]] /\ h = F
      BY <2>1 DEF Raw
    <2>3. QED
      BY <1>4, <2>2
  <1>6. \A i \in 1 .. n : h[i] = g[h[i - 1]]
    BY <1>2, <1>3, <1>4
  <1>7. QED
    BY <1>3, <1>5, <1>6 DEF Iterates

\* And there is such an iteration.
LEMMA RawExists ==
  ASSUME NEW X, NEW S \in SUBSET X, NEW n \in Nat, NEW g \in [SUBSET X -> SUBSET X],
         \A B \in SUBSET X : g[B] = B \cup Leading(B)
  PROVE  \E h : Raw(h, S, n)
  <1>1. PICK Y : Y = SUBSET X
    OBVIOUS
  <1>2. S \in Y /\ g \in [Y -> Y]
    BY <1>1
  <1>3. PICK f : Iterates(f, Y, S, g, n)
    BY ONLY <1>2, n \in Nat, Iteration
  <1>4. f \in [0 .. n -> Y] /\ f[0] = S /\ \A i \in 1 .. n : f[i] = g[f[i - 1]]
    BY <1>3 DEF Iterates
  <1>5. ASSUME NEW i \in 0 .. n PROVE f[i] = IF i = 0 THEN S ELSE f[i - 1] \cup Leading(f[i - 1])
    <2>1. CASE i = 0
      BY <1>4, <2>1
    <2>2. CASE i # 0
      <3>1. i - 1 \in 0 .. n /\ i \in 1 .. n
        BY <2>2
      <3>2. f[i - 1] \in SUBSET X /\ f[i] = g[f[i - 1]]
        BY <1>1, <1>4, <3>1
      <3>3. QED
        BY <2>2, <3>2
    <2>3. QED
      BY <2>1, <2>2
  <1>6. f = [i \in 0 .. n |-> f[i]]
    BY <1>4
  <1>7. f = [i \in 0 .. n |-> IF i = 0 THEN S ELSE f[i - 1] \cup Leading(f[i - 1])]
    BY ONLY <1>5, <1>6
  <1>8. QED
    BY <1>7 DEF Raw

\* What script reaches from S, and what the collector marks from there.
Reach(S) == Kin(S, Given)
Marks(S) == Kin(S, NsMarked)

\* What is reached from S has S, and is closed, and is within all that has S
\* and is closed; script reaches what the collector marks.
LEMMA Reached ==
  ASSUME NsTypeOK, NEW S \in SUBSET (Elt \cup Space), NEW K, K = Reach(S)
  PROVE  /\ Marks(S) = K
         /\ S \subseteq K /\ K \subseteq Elt \cup Space
         /\ \A x \in K : Given(x) \ {None} \subseteq K
         /\ \A C \in SUBSET (Elt \cup Space) :
              S \subseteq C /\ (\A x \in C : Given(x) \ {None} \subseteq C) => K \subseteq C
  <1>1. PICK X, n, g :
          /\ X = Elt \cup Space /\ n = Cardinality(X)
          /\ g = [B \in SUBSET X |-> B \cup Leading(B)]
    OBVIOUS
  <1>2. IsFiniteSet(X) /\ n \in Nat /\ S \in SUBSET X
    BY <1>1, SpaceAssumption, FS_CardinalityType
  <1>3. X = Elt \cup Space /\ n = Cardinality(X)
    BY <1>1
  <1>4. \A x \in X : Given(x) \ {None} \subseteq X
    BY ONLY <1>3, NsTypeOK DEF Given, Down, NsTypeOK
  <1>5. ASSUME NEW B \in SUBSET X PROVE g[B] = B \cup Leading(B) /\ Leading(B) \subseteq X
    <2>1. Leading(B) \subseteq X
      BY <1>4, LeadingIs
    <2>2. QED
      BY <1>1, <2>1
  <1>6. g \in [SUBSET X -> SUBSET X] /\ \A B \in SUBSET X : B \subseteq g[B]
    <2>1. \A B \in SUBSET X : B \cup Leading(B) \in SUBSET X
      BY <1>5
    <2>2. g \in [SUBSET X -> SUBSET X]
      BY ONLY <1>1, <2>1
    <2>3. QED
      BY <1>5, <2>2
  <1>7. \A B \in SUBSET X : g[B] = B \cup Leading(B)
    BY <1>5
  <1>8. PICK f : Raw(f, S, n)
    BY ONLY <1>2, <1>6, <1>7, RawExists
  <1>9. PICK h : h = CHOOSE k : k = [i \in 0 .. n |-> IF i = 0 THEN S ELSE k[i - 1] \cup Leading(k[i - 1])]
    OBVIOUS
  <1>10. Raw(h, S, n)
    BY ONLY <1>8, <1>9 DEF Raw
  <1>11. Iterates(h, SUBSET X, S, g, n)
    BY ONLY <1>2, <1>6, <1>7, <1>10, RawIterates
  <1>12. PICK m : m = CHOOSE k : k = [i \in 0 .. n |-> IF i = 0 THEN S
                                      ELSE k[i - 1] \cup LeadingMarked(k[i - 1])]
    OBVIOUS
  <1>13. m = [i \in 0 .. n |-> IF i = 0 THEN S ELSE m[i - 1] \cup LeadingMarked(m[i - 1])]
    <2>1. \A i \in 0 .. n : LeadingMarked(f[i - 1]) = Leading(f[i - 1])
      BY LeadingIs
    <2>2. f = [i \in 0 .. n |-> IF i = 0 THEN S ELSE f[i - 1] \cup LeadingMarked(f[i - 1])]
      BY ONLY <1>8, <2>1 DEF Raw
    <2>3. QED
      BY ONLY <1>12, <2>2
  <1>14. Raw(m, S, n)
    <2>1. \A i \in 0 .. n : LeadingMarked(m[i - 1]) = Leading(m[i - 1])
      BY LeadingIs
    <2>2. QED
      BY ONLY <1>13, <2>1 DEF Raw
  <1>15. Iterates(m, SUBSET X, S, g, n)
    BY ONLY <1>2, <1>6, <1>7, <1>14, RawIterates
  <1>16. h[n] = m[n]
    BY ONLY <1>2, <1>11, <1>15, IterationUnique
  <1>17. K = h[n]
    BY ONLY <1>1, <1>9, K = Reach(S) DEF Reach, Kin, Leading
  <1>18. Marks(S) = K
    <2>1. Marks(S) = m[n]
      BY ONLY <1>1, <1>12 DEF Marks, Kin, LeadingMarked
    <2>2. QED
      BY ONLY <1>16, <1>17, <2>1
  <1>19. S \subseteq K /\ g[K] = K /\ K \in SUBSET X
    <2>1. IsFiniteSet(X) /\ n \in Nat /\ n = Cardinality(X) /\ S \in SUBSET X
      BY ONLY <1>2, <1>3
    <2>2. g \in [SUBSET X -> SUBSET X]
      BY ONLY <1>6
    <2>3. \A B \in SUBSET X : B \subseteq g[B]
      BY ONLY <1>6
    <2>4. S \subseteq h[n] /\ g[h[n]] = h[n] /\ h[n] \in SUBSET X
      <3>1. Inflates(g, X)
        BY ONLY <2>2, <2>3 DEF Inflates
      <3>2. Counts(n, X) /\ S \in SUBSET X
        BY ONLY <2>1 DEF Counts
      <3>3. QED
        BY ONLY <1>11, <3>1, <3>2, IterationEnds
    <2>5. QED
      BY ONLY <1>17, <2>4
  <1>20. \A x \in K : Given(x) \ {None} \subseteq K
    <2>1. Leading(K) \subseteq K
      BY <1>5, <1>19
    <2>2. QED
      BY <2>1, LeadingIs
  <1>21. ASSUME NEW C \in SUBSET X, S \subseteq C, \A x \in C : Given(x) \ {None} \subseteq C
         PROVE  K \subseteq C
    <2>1. PICK D : D = SUBSET C
      OBVIOUS
    <2>2. S \in D
      BY <1>21, <2>1
    <2>3. ASSUME NEW B \in D PROVE g[B] \in D
      <3>1. Leading(B) \subseteq C
        BY <1>21, <2>1, LeadingIs
      <3>2. g[B] = B \cup Leading(B)
        BY <1>5, <2>1
      <3>3. QED
        BY <2>1, <3>1, <3>2
    <2>4. \A k \in 0 .. n : h[k] \in D
      BY ONLY <1>2, <1>11, <2>2, <2>3, IterationStays
    <2>5. QED
      BY <1>2, <1>17, <2>1, <2>4
  <1>22. K \subseteq Elt \cup Space
    BY <1>1, <1>19
  <1>23. \A C \in SUBSET (Elt \cup Space) :
           S \subseteq C /\ (\A x \in C : Given(x) \ {None} \subseteq C) => K \subseteq C
    BY <1>1, <1>21
  <1>24. QED
    BY ONLY <1>18, <1>19, <1>20, <1>22, <1>23

\* In all states of the invariant script reaches only what stays.
LEMMA ReachStays ==
  ASSUME NsInv
  PROVE  InReach \subseteq Stay /\ Stay \subseteq Elt \cup Space /\ None \notin Stay
  <1>1. Stay \subseteq Elt \cup Space /\ None \notin Stay
    BY SpaceAssumption DEF Stay, NsInv, NsTypeOK
  <1>2. \A x \in Stay : Given(x) \ {None} \subseteq Stay
    <2>1. ASSUME NEW x \in Stay, x \in Elt PROVE Given(x) \ {None} \subseteq Stay
      <3>1. nsDef[x] \subseteq Stay /\ ns[x] \in Stay \cup {None} /\ up[x] \in Stay \cup {None}
        BY <2>1 DEF NsInv, NsBacked
      <3>2. Down(x) \subseteq Stay
        BY <2>1 DEF Down, NsInv, NsBacked
      <3>3. QED
        BY <3>1, <3>2 DEF Given
    <2>2. QED
      BY <2>1 DEF Given
  <1>3. script \in SUBSET (Elt \cup Space) /\ script \subseteq Stay
    BY <1>1 DEF NsInv
  <1>4. PICK S, K, C : S = script /\ K = Reach(script) /\ C = Stay
    OBVIOUS
  <1>5. S \in SUBSET (Elt \cup Space) /\ C \in SUBSET (Elt \cup Space) /\ S \subseteq C /\ NsTypeOK
    BY <1>1, <1>3, <1>4 DEF NsInv
  <1>6. \A x \in C : Given(x) \ {None} \subseteq C
    BY <1>2, <1>4
  <1>7. K = Reach(S)
    BY ONLY <1>4
  <1>8. K \subseteq C
    <2>1. \A D \in SUBSET (Elt \cup Space) :
            S \subseteq D /\ (\A x \in D : Given(x) \ {None} \subseteq D) => K \subseteq D
      BY ONLY <1>5, <1>7, Reached
    <2>2. QED
      BY ONLY <1>5, <1>6, <2>1
  <1>9. QED
    BY <1>1, <1>4, <1>8 DEF InReach, Reach

\* a goes from e to its parent, and on.
Climbs(a, e, n) ==
  a = [i \in 0 .. n |-> IF i = 0 THEN e ELSE IF a[i - 1] = None THEN None ELSE up[a[i - 1]]]

LEMMA UpwardsClimbs ==
  ASSUME NsTypeOK, NEW e \in Elt
  PROVE  Cardinality(Elt) \in Nat /\ Climbs(Upwards(e), e, Cardinality(Elt))
  <1>1. PICK n, X, g, u :
          /\ n = Cardinality(Elt) /\ X = Elt \cup {None} /\ u = up
          /\ g = [x \in X |-> IF x = None THEN None ELSE u[x]]
    OBVIOUS
  <1>2. n \in Nat
    <2>1. IsFiniteSet(Elt)
      BY SpaceAssumption, FS_Subset
    <2>2. QED
      BY <1>1, <2>1, FS_CardinalityType
  <1>3. X = Elt \cup {None} /\ u \in [Elt -> X] /\ e \in X
    BY <1>1 DEF NsTypeOK
  <1>4. g \in [X -> X]
    BY ONLY <1>1, <1>3
  <1>5. PICK f : Iterates(f, X, e, g, n)
    BY ONLY <1>2, <1>3, <1>4, Iteration
  <1>6. f \in [0 .. n -> X] /\ f[0] = e /\ \A i \in 1 .. n : f[i] = g[f[i - 1]]
    BY ONLY <1>5 DEF Iterates
  <1>7. ASSUME NEW i \in 0 .. n
        PROVE  f[i] = IF i = 0 THEN e ELSE IF f[i - 1] = None THEN None ELSE u[f[i - 1]]
    <2>1. CASE i = 0
      BY <1>6, <2>1
    <2>2. CASE i # 0
      <3>1. i - 1 \in 0 .. n /\ i \in 1 .. n
        BY <1>2, <2>2
      <3>2. PICK y : y = f[i - 1]
        OBVIOUS
      <3>3. y \in X /\ f[i] = g[y]
        BY <1>6, <3>1, <3>2
      <3>4. g[y] = IF y = None THEN None ELSE u[y]
        BY <1>1, <3>3
      <3>5. QED
        BY ONLY <2>2, <3>2, <3>3, <3>4
    <2>3. QED
      BY <2>1, <2>2
  <1>8. f = [i \in 0 .. n |-> f[i]]
    BY <1>6
  <1>9. f = [i \in 0 .. n |-> IF i = 0 THEN e ELSE IF f[i - 1] = None THEN None ELSE u[f[i - 1]]]
    BY ONLY <1>7, <1>8
  <1>10. PICK a : a = CHOOSE k : k = [i \in 0 .. n |-> IF i = 0 THEN e
                                      ELSE IF k[i - 1] = None THEN None ELSE u[k[i - 1]]]
    OBVIOUS
  <1>11. a = [i \in 0 .. n |-> IF i = 0 THEN e ELSE IF a[i - 1] = None THEN None ELSE u[a[i - 1]]]
    BY ONLY <1>9, <1>10
  <1>12. Upwards(e) = a
    BY ONLY <1>1, <1>10 DEF Upwards
  <1>13. QED
    BY ONLY <1>1, <1>2, <1>11, <1>12 DEF Climbs

\* What is above an element that stays, stays.
LEMMA UpwardsStays ==
  ASSUME NsInv, NEW e \in Elt \cap Stay, NEW a, a = Upwards(e), NEW n, n = Cardinality(Elt)
  PROVE  n \in Nat /\ DOMAIN a = 0 .. n /\ \A k \in 0 .. n : a[k] \in (Elt \cap Stay) \cup {None}
  <1>1. n \in Nat /\ Climbs(a, e, n)
    BY UpwardsClimbs DEF NsInv
  <1>2. PICK u, C : u = up /\ C = (Elt \cap Stay) \cup {None}
    OBVIOUS
  <1>3. e \in C /\ None \in C /\ \A x \in C : x # None => u[x] \in C
    BY <1>2 DEF NsInv, NsBacked, NsTypeOK
  <1>4. a = [i \in 0 .. n |-> IF i = 0 THEN e ELSE IF a[i - 1] = None THEN None ELSE u[a[i - 1]]]
    BY ONLY <1>1, <1>2 DEF Climbs
  <1>5. DOMAIN a = 0 .. n
    BY ONLY <1>4
  <1>6. \A i \in 0 .. n : a[i] = IF i = 0 THEN e ELSE IF a[i - 1] = None THEN None ELSE u[a[i - 1]]
    BY ONLY <1>4
  <1> DEFINE T == {k \in Nat : k <= n => a[k] \in C}
  <1>7. 0 \in T
    BY ONLY <1>1, <1>3, <1>6
  <1>8. ASSUME NEW k \in T PROVE k + 1 \in T
    <2>1. SUFFICES ASSUME k + 1 <= n PROVE a[k + 1] \in C
      OBVIOUS
    <2>2. k + 1 \in 0 .. n /\ k + 1 # 0 /\ k + 1 - 1 = k /\ a[k] \in C
      BY ONLY <1>1, <1>8, <2>1
    <2>3. a[k + 1] = IF a[k + 1 - 1] = None THEN None ELSE u[a[k + 1 - 1]]
      BY ONLY <1>6, <2>2
    <2>4. a[k + 1] = IF a[k] = None THEN None ELSE u[a[k]]
      BY ONLY <2>2, <2>3
    <2>5. QED
      BY ONLY <1>3, <2>2, <2>4
  <1>9. T = Nat
    BY ONLY <1>7, <1>8, SetInduction
  <1>10. ASSUME NEW k \in 0 .. n PROVE a[k] \in C
    <2>1. k \in T /\ k <= n
      BY ONLY <1>1, <1>9, k \in 0 .. n
    <2>2. QED
      BY ONLY <2>1
  <1>11. QED
    BY ONLY <1>1, <1>2, <1>5, <1>10

\* What a search from an element that stays finds, stays.
LEMMA NearestStays ==
  ASSUME NsInv, NEW e \in Elt \cap Stay, NEW fits
  PROVE  Nearest(e, fits) \subseteq Stay \cap Space
  <1>1. PICK rung, n : rung = Upwards(e) /\ n = Cardinality(Elt)
    OBVIOUS
  <1>2. n \in Nat /\ DOMAIN rung = 0 .. n /\ \A k \in 0 .. n : rung[k] \in (Elt \cap Stay) \cup {None}
    BY <1>1, UpwardsStays
  <1> DEFINE here(i) == IF rung[i] = None THEN {}
                        ELSE ((nsDef[rung[i]] \cup IF i > 0 THEN {ns[rung[i]]} ELSE {}) \ {None}) \cap fits[i]
             levels == {i \in DOMAIN rung : here(i) # {}}
  <1>3. ASSUME NEW i \in 0 .. n PROVE here(i) \subseteq Stay \cap Space
    <2>1. CASE rung[i] = None
      BY <2>1
    <2>2. CASE rung[i] # None
      <3>1. rung[i] \in Elt \cap Stay
        BY <1>2, <2>2
      <3>2. PICK D, s : D = nsDef[rung[i]] /\ s = ns[rung[i]]
        OBVIOUS
      <3>3. D \subseteq Stay \cap Space /\ s \in (Stay \cap Space) \cup {None}
        BY <3>1, <3>2, SpaceAssumption DEF NsInv, NsBacked, NsTypeOK
      <3>4. here(i) \subseteq (D \cup {s}) \ {None}
        BY <2>2, <3>2
      <3>5. QED
        BY <3>3, <3>4
    <2>3. QED
      BY <2>1, <2>2
  <1>4. Nearest(e, fits) = IF levels = {} THEN {} ELSE here(CHOOSE i \in levels : \A j \in levels : i <= j)
    BY ONLY <1>1 DEF Nearest
  <1>5. levels \in SUBSET Nat /\ levels \subseteq 0 .. n
    BY <1>2
  <1> HIDE DEF here, levels
  <1>6. CASE levels = {}
    BY <1>4, <1>6
  <1>7. CASE levels # {}
    <2>1. \E i \in levels : \A j \in levels : i <= j
      BY <1>5, <1>7, LeastNumber
    <2>2. PICK m : m = CHOOSE i \in levels : \A j \in levels : i <= j
      OBVIOUS
    <2>3. m \in levels
      BY <2>1, <2>2
    <2>4. QED
      BY <1>3, <1>4, <1>5, <1>7, <2>2, <2>3
  <1>8. QED
    BY <1>6, <1>7

LEMMA SearchesStay ==
  ASSUME NsInv, NEW e \in Elt \cap Stay
  PROVE  /\ \A p : SearchByPrefix(e, p) \subseteq Stay \cap Space
         /\ \A u : SearchByUri(e, u) \subseteq Stay \cap Space
  BY NearestStays DEF SearchByPrefix, SearchByUri

\* A call makes up what it needs anew, for one element d, and leaves the
\* rest alone.
LEMMA Grown ==
  ASSUME NsInv, Calm, sweep' = {}, runs' \in BOOLEAN,
         there \subseteq there', there' \subseteq Elt \cup Space, script' \subseteq there',
         up' \in [Elt -> Elt \cup {None}], nsDef' \in [Elt -> SUBSET Space],
         ns' \in [Elt -> Space \cup {None}], label' \in [Space -> Labels],
         \A e \in Elt :
           \/ /\ e \in there' /\ nsDef'[e] \subseteq there'
              /\ ns'[e] \in there' \cup {None} /\ up'[e] \in there' \cup {None}
           \/ nsDef'[e] = nsDef[e] /\ ns'[e] = ns[e] /\ up'[e] = up[e],
         NEW d, \A e \in Elt : nsDef'[e] = nsDef[e] \/ (e = d /\ (nsDef'[e] \ nsDef[e]) \cap there = {})
  PROVE  NsInv'
  <1>1. Stay = there /\ Stay' = there'
    BY DEF Calm, Stay
  <1>2. NsTypeOK /\ None \notin there'
    BY SpaceAssumption DEF NsInv, NsTypeOK
  <1>3. NsTypeOK'
    BY DEF NsTypeOK
  <1>4. NsAbsent'
    BY DEF NsAbsent, NsInv
  <1>5. ASSUME NEW e \in Elt, e \in there'
        PROVE  nsDef'[e] \subseteq there' /\ ns'[e] \in there' \cup {None} /\ up'[e] \in there' \cup {None}
    <2>1. CASE nsDef'[e] = nsDef[e] /\ ns'[e] = ns[e] /\ up'[e] = up[e]
      <3>1. CASE e \in there
        BY <1>1, <2>1, <3>1 DEF NsInv, NsBacked
      <3>2. CASE e \notin there
        BY <2>1, <3>2 DEF NsInv, NsAbsent
      <3>3. QED
        BY <3>1, <3>2
    <2>2. QED
      BY <1>5, <2>1
  <1>6. NsBacked'
    <2>1. \A e \in Elt : up'[e] \in there' => e \in there'
      BY <1>2, <1>4 DEF NsAbsent
    <2>2. QED
      BY <1>1, <1>5, <2>1 DEF NsBacked
  <1>7. NsApart'
    <2>1. \A e \in Elt : nsDef[e] \subseteq there
      BY <1>1 DEF NsInv, NsBacked, NsAbsent
    <2>2. \A e, f \in Elt : e # f => nsDef[e] \cap nsDef[f] = {}
      BY DEF NsInv, NsApart
    <2>3. ASSUME NEW e \in Elt, NEW f \in Elt, e # f PROVE nsDef'[e] \cap nsDef'[f] = {}
      <3>1. CASE nsDef'[e] = nsDef[e] /\ nsDef'[f] = nsDef[f]
        BY <2>2, <2>3, <3>1
      <3>2. CASE e = d /\ (nsDef'[e] \ nsDef[e]) \cap there = {} /\ nsDef'[f] = nsDef[f]
        BY <2>1, <2>2, <2>3, <3>2
      <3>3. CASE f = d /\ (nsDef'[f] \ nsDef[f]) \cap there = {} /\ nsDef'[e] = nsDef[e]
        BY <2>1, <2>2, <2>3, <3>3
      <3>4. QED
        BY <2>3, <3>1, <3>2, <3>3
    <2>4. QED
      BY <2>3 DEF NsApart
  <1>8. QED
    BY <1>1, <1>3, <1>4, <1>6, <1>7 DEF NsInv

\* What script can get at, between collections, is there.
LEMMA NamespacesAtHand ==
  ASSUME NsInv, Calm, NEW x \in InReach
  PROVE  x \in there /\ x \in Stay /\ x # None
  BY ReachStays DEF Calm, Stay

\* What Grown asks of what a call leaves alone.
LEMMA LeftAlone ==
  ASSUME NsInv, Calm
  PROVE  /\ there \subseteq Elt \cup Space /\ script \subseteq there
         /\ up \in [Elt -> Elt \cup {None}] /\ nsDef \in [Elt -> SUBSET Space]
         /\ ns \in [Elt -> Space \cup {None}] /\ label \in [Space -> Labels] /\ runs \in BOOLEAN
         /\ \A e \in Elt \cap there :
              nsDef[e] \subseteq there /\ ns[e] \in there \cup {None} /\ up[e] \in there \cup {None}
         /\ \A e \in Elt \ there : nsDef[e] = {} /\ ns[e] = None /\ up[e] = None
         /\ Elt \cap Space = {} /\ None \notin Elt \cup Space
  BY SpaceAssumption DEF NsInv, NsTypeOK, NsBacked, NsAbsent, Calm, Stay

LEMMA FollowsNullKeeps ==
  ASSUME NsInv, FollowsNull
  PROVE  NsInv'
  BY LeftAlone, Grown DEF FollowsNull, Calm

LEMMA ConstructedKeeps ==
  ASSUME NsInv, NEW e \in Elt, NEW parent \in Elt \cup {None}, Calm => parent \in there \cup {None},
         NEW given, NEW p \in Prefix \cup {None}, NEW u \in Uri, Constructed(e, parent, given, p, u)
  PROVE  NsInv'
  <1>1. CASE FollowsNull
    BY <1>1, FollowsNullKeeps
  <1>2. ASSUME Calm, up' = [up EXCEPT ![e] = parent], Arise({e}, {e}), UNCHANGED <<nsDef, ns, label>>
        PROVE  NsInv'
    BY <1>2, LeftAlone, Grown DEF Arise, Grasp, Calm
  <1>3. ASSUME Calm, up' = [up EXCEPT ![e] = parent], NEW s \in Space, DeclaredNew(e, s, [href |-> u, prefix |-> p])
        PROVE  NsInv'
    <2>2. PICK l : l = [href |-> u, prefix |-> p]
      OBVIOUS
    <2>3. l \in Labels
      BY <2>2 DEF Labels
    <2>4. nsDef' = [nsDef EXCEPT ![e] = {s}] /\ ns' = [ns EXCEPT ![e] = s]
          /\ label' = [label EXCEPT ![s] = l] /\ Arise({e, s}, {e})
      BY <1>3, <2>2 DEF DeclaredNew
    <2>5. QED
      BY <1>3, <2>3, <2>4, LeftAlone, Grown DEF Arise, Grasp, Calm
  <1>4. QED
    BY <1>1, <1>2, <1>3 DEF Constructed

LEMMA DeclaringKeeps ==
  ASSUME NsInv, NEW e \in (Elt \cap Stay) \cup {None}, NEW s \in Space, NEW l \in Labels
  PROVE  /\ NewNamespace(e, s, l) => NsInv'
         /\ e # None /\ AddNamespace(e, s, l) => NsInv'
  <1>1. ASSUME NewNamespace(e, s, l) PROVE NsInv'
    <2>1. Calm /\ Stay = there
      BY <1>1 DEF NewNamespace, Calm, Stay
    <2>2. label' = [label EXCEPT ![s] = l] /\ Arise({s}, {s}) /\ up' = up /\ ns' = ns
      BY <1>1 DEF NewNamespace
    <2>3. CASE e = None
      <3>1. nsDef' = nsDef
        BY <1>1, <2>3 DEF NewNamespace
      <3>2. QED
        BY <2>1, <2>2, <3>1, LeftAlone, Grown DEF Arise, Grasp, Calm
    <2>4. CASE e # None
      <3>1. nsDef' = [nsDef EXCEPT ![e] = @ \cup {s}] /\ e \in Elt \cap there
        BY <1>1, <2>1, <2>4 DEF NewNamespace
      <3>2. QED
        BY <2>1, <2>2, <3>1, LeftAlone, Grown DEF Arise, Grasp, Calm
    <2>5. QED
      BY <2>3, <2>4
  <1>2. ASSUME e # None, AddNamespace(e, s, l) PROVE NsInv'
    <2>1. CASE NewNamespace(e, s, l)
      BY <1>1, <2>1
    <2>2. CASE s \in SearchByUri(e, l.href) /\ Grasp({s})
               /\ UNCHANGED <<up, nsDef, ns, label, there, sweep, runs>>
      <3>1. Calm /\ Stay = there
        BY <1>2 DEF AddNamespace, Calm, Stay
      <3>2. s \in there
        BY <1>2, <2>2, <3>1, SearchesStay
      <3>3. QED
        BY <2>2, <3>1, <3>2, LeftAlone, Grown DEF Grasp, Calm
    <2>3. QED
      BY <1>2, <2>1, <2>2 DEF AddNamespace
  <1>3. QED
    BY <1>1, <1>2

LEMMA ParseTreeKeeps ==
  ASSUME NsInv, NEW e \in Elt, NEW f \in Elt, NEW s \in Space, NEW l \in Labels, ParseTree(e, f, s, l)
  PROVE  NsInv'
  <1>1. /\ Calm /\ e # f /\ Arise({e, f, s}, {e})
        /\ up' = [up EXCEPT ![f] = e] /\ nsDef' = [nsDef EXCEPT ![e] = {s}]
        /\ ns' = [ns EXCEPT ![e] = s, ![f] = s] /\ label' = [label EXCEPT ![s] = l]
    BY DEF ParseTree
  <1>2. QED
    BY <1>1, LeftAlone, Grown DEF Arise, Grasp, Calm

LEMMA CopyElementKeeps ==
  ASSUME NsInv, NEW e \in Elt \cap Stay, NEW f \in Elt, CopyElement(e, f)
  PROVE  NsInv'
  <1>1. Calm /\ Stay = there /\ f \notin there /\ up' = up
    BY DEF CopyElement, Calm, Stay
  <1> DEFINE Image(c) == {c[s] : s \in nsDef[e]}
             Own(c) == {c[s] : s \in {r \in nsDef[e] : /\ ns[e] # None /\ label[r].prefix = label[ns[e]].prefix
                                                       /\ label[r].href # None}}
             Above == IF ns[e] = None THEN {} ELSE SearchByPrefix(e, label[ns[e]].prefix)
             Named(c) == [s \in Space |-> IF s \in Image(c) THEN label[CHOOSE r \in nsDef[e] : c[r] = s]
                                          ELSE label[s]]
             Same(c) == /\ \E s \in (IF Own(c) = {} THEN {None} ELSE Own(c)) : ns' = [ns EXCEPT ![f] = s]
                        /\ nsDef' = [nsDef EXCEPT ![f] = Image(c)] /\ label' = Named(c)
                        /\ Arise({f} \cup Image(c), {f})
             Anew(c) == \E s \in Space \ Image(c), r \in Above :
                          /\ ns' = [ns EXCEPT ![f] = s]
                          /\ nsDef' = [nsDef EXCEPT ![f] = Image(c) \cup {s}]
                          /\ label' = [Named(c) EXCEPT ![s] = label[r]]
                          /\ Arise({f, s} \cup Image(c), {f})
  <1>2. PICK copy \in [nsDef[e] -> Space \ there] : Same(copy) \/ Anew(copy)
    BY Zenon DEF CopyElement
  <1>3. PICK image, own, above, labels :
          image = Image(copy) /\ own = Own(copy) /\ above = Above /\ labels = Named(copy)
    OBVIOUS
  <1>4. \/ /\ \E s \in (IF own = {} THEN {None} ELSE own) : ns' = [ns EXCEPT ![f] = s]
           /\ nsDef' = [nsDef EXCEPT ![f] = image] /\ label' = labels
           /\ Arise({f} \cup image, {f})
        \/ \E s \in Space \ image, r \in above :
             /\ ns' = [ns EXCEPT ![f] = s]
             /\ nsDef' = [nsDef EXCEPT ![f] = image \cup {s}]
             /\ label' = [labels EXCEPT ![s] = label[r]]
             /\ Arise({f, s} \cup image, {f})
    <2> HIDE DEF Image, Own, Above, Named
    <2>1. QED
      BY ONLY <1>2, <1>3 DEF Same, Anew
  <1>5. nsDef[e] \subseteq Space /\ label \in [Space -> Labels]
    BY <1>1, LeftAlone
  <1>6. image \subseteq Space \ there /\ own \subseteq image
    BY <1>3, <1>5
  <1>7. above \subseteq Space
    BY <1>3, SearchesStay
  <1>8. labels \in [Space -> Labels]
    <2>1. ASSUME NEW s \in image PROVE (CHOOSE r \in nsDef[e] : copy[r] = s) \in Space
      <3>1. \E r \in nsDef[e] : copy[r] = s
        BY <1>3
      <3>2. QED
        BY <1>5, <3>1
    <2>2. QED
      BY <1>3, <1>5, <2>1
  <1>9. CASE /\ \E s \in (IF own = {} THEN {None} ELSE own) : ns' = [ns EXCEPT ![f] = s]
             /\ nsDef' = [nsDef EXCEPT ![f] = image] /\ label' = labels
             /\ Arise({f} \cup image, {f})
    <2>1. PICK s \in image \cup {None} : ns' = [ns EXCEPT ![f] = s]
      BY <1>6, <1>9
    <2>2. QED
      BY <1>1, <1>6, <1>8, <1>9, <2>1, LeftAlone, Grown DEF Arise, Grasp, Calm
  <1>10. CASE \E s \in Space \ image, r \in above :
                /\ ns' = [ns EXCEPT ![f] = s]
                /\ nsDef' = [nsDef EXCEPT ![f] = image \cup {s}]
                /\ label' = [labels EXCEPT ![s] = label[r]]
                /\ Arise({f, s} \cup image, {f})
    <2>1. PICK s \in Space \ image, r \in above :
            /\ ns' = [ns EXCEPT ![f] = s]
            /\ nsDef' = [nsDef EXCEPT ![f] = image \cup {s}]
            /\ label' = [labels EXCEPT ![s] = label[r]]
            /\ Arise({f, s} \cup image, {f})
      BY <1>10
    <2>2. PICK l : l = label[r]
      OBVIOUS
    <2>3. l \in Labels /\ label' = [labels EXCEPT ![s] = l]
      BY <1>5, <1>7, <2>1, <2>2
    <2>4. QED
      BY <1>1, <1>6, <1>8, <2>1, <2>3, LeftAlone, Grown DEF Arise, Grasp, Calm
  <1>11. QED
    BY <1>4, <1>9, <1>10

LEMMA SmallCallsKeep ==
  ASSUME NsInv, Calm
  PROVE  /\ \A e \in Elt : ClearNamespace(e) => NsInv'
         /\ \A e \in Elt, f \in (Elt \cap Stay) \cup {None} : e \in Stay /\ MoveElement(e, f) => NsInv'
         /\ \A s \in Space, u \in Uri \cup {None} : SetHref(s, u) => NsInv'
         /\ \A s \in Space, p \in Prefix \cup {None} : SetPrefix(s, p) => NsInv'
         /\ \A x \in Stay : TakeUp(x) => NsInv'
         /\ \A x : LetGo(x) => NsInv'
  <1>1. Stay = there
    BY DEF Calm, Stay
  <1>2. ASSUME NEW e \in Elt, ClearNamespace(e) PROVE NsInv'
    BY <1>2, LeftAlone, Grown, FollowsNullKeeps DEF ClearNamespace, Calm
  <1>3. ASSUME NEW e \in Elt, NEW f \in (Elt \cap Stay) \cup {None}, e \in Stay, MoveElement(e, f)
        PROVE  NsInv'
    BY <1>1, <1>3, LeftAlone, Grown DEF MoveElement, Calm
  <1>4. ASSUME NEW s \in Space, NEW l \in Labels, Relabel(s, l) PROVE NsInv'
    BY <1>4, LeftAlone, Grown DEF Relabel, Calm
  <1>5. ASSUME NEW s \in Space
        PROVE  /\ \A u \in Uri \cup {None} : [label[s] EXCEPT !.href = u] \in Labels
               /\ \A p \in Prefix \cup {None} : [label[s] EXCEPT !.prefix = p] \in Labels
    BY LeftAlone DEF Labels
  <1>6. ASSUME NEW x \in Stay, TakeUp(x) PROVE NsInv'
    BY <1>1, <1>6, LeftAlone, Grown DEF TakeUp, Grasp, Calm
  <1>7. ASSUME NEW x, LetGo(x) PROVE NsInv'
    BY <1>7, LeftAlone, Grown DEF LetGo, Calm
  <1>8. QED
    BY <1>2, <1>3, <1>4, <1>5, <1>6, <1>7 DEF SetHref, SetPrefix

LEMMA SweepsKeep ==
  ASSUME NsInv
  PROVE  /\ Sweep => NsInv'
         /\ \A e \in Elt : FinalizeElt(e) => NsInv'
         /\ \A s \in Space : FinalizeSpace(s) => NsInv'
  <1>1. ASSUME Sweep PROVE NsInv'
    <2>1. PICK S, K : S = script /\ K = Reach(S)
      OBVIOUS
    <2>2. Calm /\ Stay = there /\ sweep' = there \ Marks(S)
      BY <1>1, <2>1 DEF Sweep, Calm, Stay, Marks
    <2>3. S \in SUBSET (Elt \cup Space) /\ NsTypeOK
      BY <2>1, <2>2, LeftAlone DEF NsInv
    <2>4. Marks(S) = K /\ S \subseteq K
      BY ONLY <2>1, <2>3, Reached
    <2>5. \A x \in K : Given(x) \ {None} \subseteq K
      BY ONLY <2>1, <2>3, Reached
    <2>6. K \subseteq there
      BY <2>1, <2>2, ReachStays DEF InReach, Reach
    <2>7. UNCHANGED <<up, nsDef, ns, label, there, script, runs>> /\ Stay' = K
      BY <1>1, <2>2, <2>4, <2>6 DEF Sweep, Stay
    <2>8. \A e \in Elt \cap K : nsDef[e] \subseteq K /\ ns[e] \in K \cup {None} /\ up[e] \in K \cup {None}
      BY <2>2, <2>5, LeftAlone DEF Given
    <2>9. ASSUME NEW e \in Elt, up[e] \in K PROVE e \in K
      <3>1. up[e] \in Elt
        BY <2>2, <2>6, <2>9, LeftAlone
      <3>2. e \in Given(up[e]) /\ e # None
        BY <2>2, <3>1, LeftAlone DEF Given, Down
      <3>3. QED
        BY <2>5, <2>9, <3>2
    <2>10. NsBacked'
      BY <2>7, <2>8, <2>9 DEF NsBacked
    <2>11. NsTypeOK' /\ NsAbsent' /\ NsApart'
      BY <2>2, <2>7 DEF NsInv, NsTypeOK, NsAbsent, NsApart
    <2>12. QED
      BY <2>1, <2>4, <2>7, <2>10, <2>11 DEF NsInv
  <1>2. ASSUME NEW e \in Elt, FinalizeElt(e) PROVE NsInv'
    <2>1. Stay' = Stay /\ e \notin Stay /\ script' = script
      BY <1>2 DEF FinalizeElt, Stay, NsInv, NsTypeOK
    <2>2. NsTypeOK'
      BY <1>2, <2>1, SpaceAssumption DEF FinalizeElt, Stay, NsInv, NsTypeOK
    <2>3. NsAbsent'
      BY <1>2 DEF FinalizeElt, NsInv, NsTypeOK, NsAbsent
    <2>4. None \notin Stay
      BY ReachStays
    <2>5. NsBacked'
      BY <1>2, <2>1, <2>4 DEF FinalizeElt, NsInv, NsTypeOK, NsBacked
    <2>6. NsApart'
      BY <1>2 DEF FinalizeElt, NsInv, NsTypeOK, NsApart
    <2>7. QED
      BY <2>1, <2>2, <2>3, <2>5, <2>6 DEF NsInv
  <1>3. ASSUME NEW s \in Space, FinalizeSpace(s) PROVE NsInv'
    <2>1. Stay' = Stay /\ s \notin Stay /\ script' = script
      BY <1>3 DEF FinalizeSpace, Stay, NsInv, NsTypeOK
    <2>2. Blank \in Labels
      BY DEF Blank, Labels
    <2>3. NsTypeOK'
      BY <1>3, <2>1, <2>2, SpaceAssumption DEF FinalizeSpace, Stay, NsInv, NsTypeOK
    <2>4. NsAbsent'
      BY <1>3, SpaceAssumption DEF FinalizeSpace, NsInv, NsTypeOK, NsAbsent
    <2>5. NsBacked'
      BY <1>3, <2>1 DEF FinalizeSpace, NsInv, NsTypeOK, NsBacked
    <2>6. NsApart'
      BY <1>3 DEF FinalizeSpace, NsInv, NsTypeOK, NsApart
    <2>7. QED
      BY <2>1, <2>3, <2>4, <2>5, <2>6 DEF NsInv
  <1>4. QED
    BY <1>1, <1>2, <1>3

LEMMA NsInvInductive ==
  /\ NsInit => NsInv
  /\ NsInv /\ [NsNext]_nsVars => NsInv'
  /\ NsInv => NamespacesStand
  <1>1. NsInit => NsInv
    BY SpaceAssumption DEF NsInit, Blank, Labels, NsInv, NsTypeOK, NsAbsent, NsBacked, NsApart, Stay
  <1>2. ASSUME NsInv, [NsNext]_nsVars PROVE NsInv'
    <2>1. CASE UNCHANGED nsVars
      BY <1>2, <2>1 DEF nsVars, NsInv, NsTypeOK, NsAbsent, NsBacked, NsApart, Stay
    <2>2. InReach \subseteq Stay
      BY <1>2, ReachStays
    <2>3. ASSUME NEW e \in InReach \cap Elt,
                 \/ ClearNamespace(e)
                 \/ \E f \in Elt, p \in Prefix \cup {None}, u \in Uri : AddNsNode(e, f, p, u)
                 \/ \E f \in Elt : CopyElement(e, f)
                 \/ \E f \in (InReach \cap Elt) \cup {None} : MoveElement(e, f)
                 \/ \E s \in Space, l \in Labels : NewNamespace(e, s, l) \/ AddNamespace(e, s, l)
          PROVE  NsInv'
      <3>1. e \in Elt \cap Stay /\ e # None
        BY <2>2, SpaceAssumption
      <3>2. CASE ClearNamespace(e)
        BY <1>2, <3>1, <3>2, SmallCallsKeep DEF ClearNamespace, FollowsNull
      <3>3. CASE \E f \in Elt, p \in Prefix \cup {None}, u \in Uri : AddNsNode(e, f, p, u)
        <4>1. PICK f \in Elt, p \in Prefix \cup {None}, u \in Uri : AddNsNode(e, f, p, u)
          BY <3>3
        <4>2. PICK passed : Constructed(f, e, passed, p, u)
          BY <4>1 DEF AddNsNode
        <4>3. e \in there
          BY <3>1 DEF Stay
        <4>4. QED
          BY <1>2, <3>1, <4>2, <4>3, ConstructedKeeps
      <3>4. CASE \E f \in Elt : CopyElement(e, f)
        BY <1>2, <3>1, <3>4, CopyElementKeeps
      <3>5. CASE \E f \in (InReach \cap Elt) \cup {None} : MoveElement(e, f)
        BY <1>2, <2>2, <3>1, <3>5, SmallCallsKeep DEF MoveElement
      <3>6. CASE \E s \in Space, l \in Labels : NewNamespace(e, s, l) \/ AddNamespace(e, s, l)
        BY <1>2, <3>1, <3>6, DeclaringKeeps
      <3>7. QED
        BY <2>3, <3>2, <3>3, <3>4, <3>5, <3>6
    <2>4. ASSUME NEW s \in InReach \cap Space,
                 \/ \E u \in Uri \cup {None} : SetHref(s, u)
                 \/ \E p \in Prefix \cup {None} : SetPrefix(s, p)
          PROVE  NsInv'
      <3>1. Calm
        BY <2>4 DEF SetHref, SetPrefix, Relabel
      <3>2. QED
        BY <1>2, <2>4, <3>1, SmallCallsKeep
    <2>5. ASSUME NEW s \in Space, NEW l \in Labels, NewNamespace(None, s, l) PROVE NsInv'
      BY <1>2, <2>5, DeclaringKeeps
    <2>6. ASSUME NEW e \in Elt, NEW p \in Prefix \cup {None}, NEW u \in Uri, NewNsNode(e, p, u) PROVE NsInv'
      <3>1. PICK given : Constructed(e, None, given, p, u)
        BY <2>6 DEF NewNsNode
      <3>2. QED
        BY <1>2, <3>1, ConstructedKeeps
    <2>7. ASSUME NEW e \in Elt, NEW f \in Elt, NEW s \in Space, NEW l \in Labels, ParseTree(e, f, s, l)
          PROVE  NsInv'
      BY <1>2, <2>7, ParseTreeKeeps
    <2>8. ASSUME NEW x \in InReach, TakeUp(x) PROVE NsInv'
      BY <1>2, <2>2, <2>8, SmallCallsKeep DEF TakeUp
    <2>9. ASSUME NEW x \in script, LetGo(x) PROVE NsInv'
      BY <1>2, <2>9, SmallCallsKeep DEF LetGo
    <2>10. QED
      BY <1>2, <2>1, <2>3, <2>4, <2>5, <2>6, <2>7, <2>8, <2>9, SweepsKeep DEF NsNext
  <1>3. ASSUME NsInv PROVE NamespacesStand
    <2>1. InReach \subseteq Stay
      BY <1>3, ReachStays
    <2>2. QED
      BY <1>3, <2>1 DEF NamespacesStand, NsInv, NsBacked, NsApart, Stay
  <1>4. QED
    BY <1>1, <1>2, <1>3

\* A namespace that an element which stays declares or is in, or that script
\* can get at, is not freed, and one element at most declares it, whatever
\* the elements, namespaces, hrefs and prefixes (node::trace,
\* namespace_::~namespace_, node::~node).
THEOREM NamespacesStandHolds == NsSpec => []NamespacesStand
  BY NsInvInductive, PTL DEF NsSpec

-----------------------------------------------------------------------------
(* The attributes of the XML plugin. *)

Link == [parent : Elem \cup {Null}, next : Attr \cup {Null}, prev : Attr \cup {Null}]
Lists == [first : [Elem -> Attr \cup {Null}], link : [Attr -> Link]]

\* What follows a.
Next(l, a) == l.link[a].next

LEMMA LinkIs ==
  ASSUME NEW l \in Lists, NEW a \in Attr
  PROVE  /\ l.link[a] \in Link
         /\ l.link[a].parent \in Elem \cup {Null}
         /\ l.link[a].next \in Attr \cup {Null}
         /\ l.link[a].prev \in Attr \cup {Null}
  BY DEF Lists, Link

LEMMA AttrCounted == Counts(Cardinality(Attr), Attr) /\ Counts(Cardinality(Nodes), Nodes)
  <1>1. IsFiniteSet(Elem \cup Attr) /\ IsFiniteSet(Attr)
    BY AttrAssumption, FS_Subset
  <1>2. QED
    BY <1>1, FS_CardinalityType DEF Counts, Nodes

\* A chain has its first attribute and what follows its attributes, and
\* nothing else.
LEMMA ChainIs ==
  ASSUME NEW l \in Lists, NEW a \in Attr \cup {Null}
  PROVE  /\ Chain(l, a) \in SUBSET Attr
         /\ a # Null => a \in Chain(l, a)
         /\ \A b \in Chain(l, a) : Next(l, b) \in Chain(l, a) \cup {Null}
         /\ \A C \in SUBSET Attr :
              a \in C \cup {Null} /\ (\A b \in C : Next(l, b) \in C \cup {Null}) => Chain(l, a) \subseteq C
  <1>1. PICK n, S, G :
          n = Cardinality(Attr) /\ S = {a} \ {Null} /\ G = [b \in Attr |-> {Next(l, b)} \ {Null}]
    OBVIOUS
  <1>2. Counts(n, Attr) /\ n \in Nat /\ S \in SUBSET Attr /\ Null \notin Attr
    BY <1>1, AttrCounted, AttrAssumption DEF Counts
  <1>3. \A b \in Attr : G[b] = {Next(l, b)} \ {Null} /\ G[b] \in SUBSET Attr
    BY <1>1, LinkIs DEF Next
  <1>4. G \in [Attr -> SUBSET Attr]
    BY <1>1, <1>3
  <1> DEFINE On(B) == B \cup ({l.link[b].next : b \in B} \ {Null})
             Seen(s) == s = [i \in 0 .. n |-> IF i = 0 THEN {a} \ {Null} ELSE On(s[i - 1])]
  <1>5. ASSUME NEW B \in SUBSET Attr
        PROVE  \A y : y \in On(B) <=> y \in B \/ \E x \in B : y \in G[x]
    BY <1>3 DEF Next
  <1>6. PICK f \in [0 .. n -> SUBSET Attr] : Spreads(f, Attr, S, G, n)
    BY <1>2, <1>4, SpreadExists
  <1>7. Seen(f)
    <2>1. ASSUME NEW i \in 0 .. n PROVE f[i] = IF i = 0 THEN {a} \ {Null} ELSE On(f[i - 1])
      <3>1. CASE i = 0
        BY <1>1, <1>6, <3>1 DEF Spreads
      <3>2. CASE i # 0
        <4>1. i \in 1 .. n /\ i - 1 \in 0 .. n
          BY <1>2, <3>2
        <4>2. f[i - 1] \in SUBSET Attr
          BY <1>6, <4>1
        <4>3. \A y : y \in f[i] <=> y \in f[i - 1] \/ \E x \in f[i - 1] : y \in G[x]
          BY <1>6, <4>1, <4>2 DEF Spreads
        <4>4. \A y : y \in f[i] <=> y \in On(f[i - 1])
          BY ONLY <1>5, <4>2, <4>3
        <4>5. f[i] = On(f[i - 1])
          BY ONLY <4>4
        <4>6. QED
          BY ONLY <3>2, <4>5
      <3>3. QED
        BY <3>1, <3>2
    <2>2. f = [i \in 0 .. n |-> f[i]]
      BY <1>6
    <2> HIDE DEF On
    <2>3. QED
      BY ONLY <2>1, <2>2
  <1>8. PICK h : h = CHOOSE s : Seen(s)
    OBVIOUS
  <1>9. Seen(h)
    BY ONLY <1>7, <1>8
  <1>10. Spreads(h, Attr, S, G, n)
    <2>1. h[0] = S
      BY <1>1, <1>2, <1>9
    <2>2. ASSUME NEW i \in 1 .. n, h[i - 1] \in SUBSET Attr
          PROVE  \A y : y \in h[i] <=> y \in h[i - 1] \/ \E x \in h[i - 1] : y \in G[x]
      <3>1. h[i] = On(h[i - 1])
        <4>1. i \in 0 .. n /\ i # 0
          BY <1>2
        <4>2. \A j \in 0 .. n : h[j] = IF j = 0 THEN {a} \ {Null} ELSE On(h[j - 1])
          <5> HIDE DEF On
          <5>1. QED
            BY ONLY <1>9
        <4> HIDE DEF On
        <4>3. QED
          BY ONLY <4>1, <4>2
      <3>2. QED
        BY ONLY <1>5, <2>2, <3>1
    <2>3. QED
      BY <2>1, <2>2 DEF Spreads
  <1>11. Chain(l, a) = h[n]
    BY ONLY <1>1, <1>8 DEF Chain
  <1>12. Closes(h[n], Attr, S, G)
    <2>1. Counts(n, Attr) /\ S \in SUBSET Attr
      BY ONLY <1>2
    <2>2. QED
      BY ONLY <1>4, <1>10, <2>1, SpreadEnds
  <1>13. PICK K : K = Chain(l, a)
    OBVIOUS
  <1>14. \A b \in K : Next(l, b) \in K \cup {Null}
    BY <1>3, <1>11, <1>12, <1>13 DEF Closes
  <1>15. ASSUME NEW C \in SUBSET Attr, a \in C \cup {Null}, \A b \in C : Next(l, b) \in C \cup {Null}
         PROVE  K \subseteq C
    <2>1. S \subseteq C /\ \A x \in C : G[x] \subseteq C
      BY <1>1, <1>3, <1>15
    <2>2. QED
      BY <1>11, <1>12, <1>13, <2>1 DEF Closes
  <1>16. K \in SUBSET Attr /\ (a # Null => a \in K)
    BY ONLY <1>1, <1>11, <1>12, <1>13 DEF Closes
  <1>17. QED
    BY ONLY <1>13, <1>14, <1>15, <1>16

-----------------------------------------------------------------------------
\* Neighbours know each other and have one parent; what comes first in the
\* list of an element has it for its parent, and nothing before it.
Consistent(l) ==
  /\ \A a \in Attr : l.link[a].next # Null =>
       l.link[l.link[a].next].prev = a /\ l.link[l.link[a].next].parent = l.link[a].parent
  /\ \A a \in Attr : l.link[a].prev # Null => l.link[l.link[a].prev].next = a
  /\ \A e \in Elem : l.first[e] # Null =>
       l.link[l.first[e]].prev = Null /\ l.link[l.first[e]].parent = e

LEMMA ChainEmpty ==
  ASSUME NEW l \in Lists
  PROVE  Chain(l, Null) = {}
  <1>1. PICK z, C : z = Null /\ C = {}
    OBVIOUS
  <1>2. z \in Attr \cup {Null} /\ C \in SUBSET Attr /\ z \in C \cup {Null}
        /\ \A b \in C : Next(l, b) \in C \cup {Null}
    BY <1>1
  <1>3. Chain(l, z) \subseteq C
    BY ONLY <1>2, l \in Lists, ChainIs
  <1>4. QED
    BY <1>1, <1>3

\* A chain goes on with the chain of what is next.
LEMMA ChainGoesOn ==
  ASSUME NEW l \in Lists, NEW a \in Attr, NEW b \in Chain(l, a)
  PROVE  /\ b \in Attr /\ b \in Chain(l, b)
         /\ Chain(l, b) \subseteq Chain(l, a)
         /\ Chain(l, Next(l, b)) \subseteq Chain(l, b)
         /\ Chain(l, b) = {b} \cup Chain(l, Next(l, b))
  <1>1. a \in Attr \cup {Null} /\ Null \notin Attr
    BY AttrAssumption
  <1>2. PICK K : K = Chain(l, a)
    OBVIOUS
  <1>3. K \in SUBSET Attr /\ \A x \in K : Next(l, x) \in K \cup {Null}
    BY <1>1, <1>2, ChainIs
  <1>4. b \in Attr /\ b \in K
    BY <1>2, <1>3
  <1>5. b \in Attr \cup {Null} /\ b # Null /\ Next(l, b) \in Attr \cup {Null}
    BY <1>1, <1>4, LinkIs DEF Next
  <1>6. PICK B : B = Chain(l, b)
    OBVIOUS
  <1>7. B \in SUBSET Attr /\ b \in B /\ \A x \in B : Next(l, x) \in B \cup {Null}
    BY <1>5, <1>6, ChainIs
  <1>8. B \subseteq K
    BY <1>3, <1>4, <1>5, <1>6, ChainIs
  <1>9. PICK N : N = Chain(l, Next(l, b))
    OBVIOUS
  <1>10. N \in SUBSET Attr /\ \A x \in N : Next(l, x) \in N \cup {Null}
    BY <1>5, <1>9, ChainIs
  <1>11. N \subseteq B
    <2>1. Next(l, b) \in B \cup {Null}
      BY <1>7
    <2>2. QED
      BY <1>5, <1>7, <1>9, <2>1, ChainIs
  <1>12. B \subseteq {b} \cup N
    <2>1. Next(l, b) # Null => Next(l, b) \in N
      BY <1>5, <1>9, ChainIs
    <2>2. PICK C : C = {b} \cup N
      OBVIOUS
    <2>3. C \in SUBSET Attr /\ b \in C \cup {Null} /\ \A x \in C : Next(l, x) \in C \cup {Null}
      BY <1>4, <1>10, <2>1, <2>2
    <2>4. QED
      BY <1>5, <1>6, <2>2, <2>3, ChainIs
  <1>13. QED
    BY <1>2, <1>4, <1>6, <1>7, <1>8, <1>9, <1>11, <1>12

\* What is in a chain and not first comes behind something of the chain.
LEMMA ChainBack ==
  ASSUME NEW l \in Lists, Consistent(l), NEW a \in Attr, NEW x \in Chain(l, a), x # a
  PROVE  l.link[x].prev \in Chain(l, a)
  <1>1. PICK K : K = Chain(l, a)
    OBVIOUS
  <1>2. a \in Attr \cup {Null} /\ a # Null /\ Null \notin Attr
    BY AttrAssumption
  <1>3. K \in SUBSET Attr /\ a \in K /\ \A y \in K : Next(l, y) \in K \cup {Null}
    BY <1>1, <1>2, ChainIs
  <1>4. PICK C : C = {y \in K : y = a \/ \E b \in K : Next(l, b) = y}
    OBVIOUS
  <1>5. C \in SUBSET Attr /\ a \in C \cup {Null}
    BY <1>2, <1>3, <1>4
  <1>6. \A y \in C : Next(l, y) \in C \cup {Null}
    BY <1>3, <1>4
  <1>7. K \subseteq C
    BY <1>1, <1>2, <1>5, <1>6, ChainIs
  <1>8. PICK b \in K : Next(l, b) = x
    BY <1>1, <1>4, <1>7
  <1>9. l.link[x].prev = b
    <2>1. b \in Attr /\ x # Null /\ l.link[b].next = x
      BY <1>1, <1>2, <1>3, <1>8 DEF Next
    <2>2. QED
      BY <2>1 DEF Consistent
  <1>10. QED
    BY <1>1, <1>8, <1>9

\* All of a chain have the same parent.
LEMMA ChainParent ==
  ASSUME NEW l \in Lists, Consistent(l), NEW a \in Attr, NEW x \in Chain(l, a)
  PROVE  l.link[x].parent = l.link[a].parent
  <1>1. PICK C : C = {y \in Chain(l, a) : l.link[y].parent = l.link[a].parent}
    OBVIOUS
  <1>2. a \in Attr \cup {Null} /\ a # Null /\ Null \notin Attr
    BY AttrAssumption
  <1>3. Chain(l, a) \in SUBSET Attr /\ a \in Chain(l, a) /\ \A y \in Chain(l, a) : Next(l, y) \in Chain(l, a) \cup {Null}
    BY <1>2, ChainIs
  <1>4. C \in SUBSET Attr /\ a \in C \cup {Null}
    BY <1>1, <1>3
  <1>5. ASSUME NEW y \in C, Next(l, y) # Null PROVE Next(l, y) \in C
    <2>1. y \in Attr /\ l.link[y].next # Null /\ l.link[l.link[y].next].parent = l.link[y].parent
      BY <1>1, <1>3, <1>5 DEF Consistent, Next
    <2>2. QED
      BY <1>1, <1>3, <1>5, <2>1 DEF Next
  <1>6. \A y \in C : Next(l, y) \in C \cup {Null}
    BY <1>5
  <1>7. Chain(l, a) \subseteq C
    BY <1>2, <1>4, <1>6, ChainIs
  <1>8. QED
    BY <1>1, <1>7

\* Where nothing comes before the first, nothing comes behind itself.
LEMMA ChainApart ==
  ASSUME NEW l \in Lists, Consistent(l), NEW a \in Attr, l.link[a].prev = Null,
         NEW x \in Chain(l, a)
  PROVE  x \notin Chain(l, Next(l, x))
  <1>1. PICK K : K = Chain(l, a)
    OBVIOUS
  <1>2. a \in Attr \cup {Null} /\ a # Null /\ Null \notin Attr
    BY AttrAssumption
  <1>3. K \in SUBSET Attr /\ a \in K /\ \A y \in K : Next(l, y) \in K \cup {Null}
    BY <1>1, <1>2, ChainIs
  \* An attribute that comes behind itself has one before it that does too.
  <1>4. ASSUME NEW y \in K, y \in Chain(l, Next(l, y))
        PROVE  l.link[y].prev # Null /\ l.link[y].prev \in K
               /\ l.link[y].prev \in Chain(l, Next(l, l.link[y].prev))
    <2>1. PICK m : m = Next(l, y)
      OBVIOUS
    <2>2. y \in Attr /\ m \in Attr \cup {Null}
      BY <1>3, <2>1, LinkIs DEF Next
    <2>3. m # Null /\ m \in Attr /\ m \in K
      BY <1>3, <1>4, <2>1, <2>2, ChainEmpty
    <2>4. l.link[m].prev = y
      BY <2>1, <2>2, <2>3 DEF Consistent, Next
    <2>5. CASE y = m
      <3>1. l.link[y].prev = y
        BY <2>4, <2>5
      <3>2. QED
        BY <1>2, <1>4, <2>2, <3>1
    <2>6. CASE y # m
      <3>1. y \in Chain(l, m)
        BY <1>4, <2>1
      <3>2. PICK p : p = l.link[y].prev
        OBVIOUS
      <3>3. p \in Chain(l, m)
        BY <2>3, <2>6, <3>1, <3>2, ChainBack
      <3>4. Chain(l, m) \subseteq K
        BY <1>1, <2>3, ChainGoesOn
      <3>5. p \in K /\ p \in Attr /\ p # Null
        BY <1>2, <1>3, <3>3, <3>4
      <3>6. Next(l, p) = y
        BY <2>2, <3>2, <3>5 DEF Consistent, Next
      <3>7. Chain(l, y) = {y} \cup Chain(l, m)
        BY <1>1, <1>4, <2>1, ChainGoesOn
      <3>8. QED
        BY <3>2, <3>3, <3>5, <3>6, <3>7
    <2>7. QED
      BY <2>5, <2>6
  <1>5. PICK C : C = {y \in K : y \notin Chain(l, Next(l, y))}
    OBVIOUS
  <1>6. C \in SUBSET Attr /\ a \in C \cup {Null}
    BY <1>3, <1>4, <1>5
  <1>7. ASSUME NEW y \in C, Next(l, y) # Null PROVE Next(l, y) \in C
    <2>1. y \in K /\ y \in Attr /\ Next(l, y) \in K
      BY <1>3, <1>5, <1>7
    <2>2. l.link[Next(l, y)].prev = y
      BY <1>7, <2>1 DEF Consistent, Next
    <2>3. SUFFICES ASSUME Next(l, y) \in Chain(l, Next(l, Next(l, y))) PROVE FALSE
      BY <1>5, <2>1
    <2>4. y \in Chain(l, Next(l, y))
      BY <1>4, <2>1, <2>2, <2>3
    <2>5. QED
      BY <1>5, <2>4
  <1>8. \A y \in C : Next(l, y) \in C \cup {Null}
    BY <1>7
  <1>9. K \subseteq C
    BY <1>1, <1>2, <1>6, <1>8, ChainIs
  <1>10. QED
    BY <1>1, <1>5, <1>9

\* And it has a last attribute, which is behind or at every one.
LEMMA ChainLast ==
  ASSUME NEW l \in Lists, Consistent(l), NEW a \in Attr, l.link[a].prev = Null
  PROVE  \E z \in Chain(l, a) : /\ Next(l, z) = Null
                                /\ \A x \in Chain(l, a) : z \in Chain(l, x)
                                /\ \A x \in Chain(l, a) : Next(l, x) = Null => x = z
  <1>1. PICK K : K = Chain(l, a)
    OBVIOUS
  <1>2. a \in Attr \cup {Null} /\ a # Null /\ Null \notin Attr
    BY AttrAssumption
  <1>3. K \in SUBSET Attr /\ a \in K /\ \A y \in K : Next(l, y) \in K \cup {Null}
    BY <1>1, <1>2, ChainIs
  <1>4. \E z \in K : Next(l, z) = Null
    <2> SUFFICES ASSUME \A z \in K : Next(l, z) # Null PROVE FALSE
      OBVIOUS
    <2>1. PICK f : f = [z \in K |-> Next(l, z)]
      OBVIOUS
    <2>2. ASSUME NEW z \in K PROVE f[z] \in K \ {a} /\ l.link[f[z]].prev = z
      <3>1. z \in Attr /\ f[z] = l.link[z].next /\ f[z] # Null /\ f[z] \in K
        BY <1>3, <2>1 DEF Next
      <3>2. l.link[f[z]].prev = z
        BY <3>1 DEF Consistent
      <3>3. z # Null
        BY <1>2, <3>1
      <3>4. QED
        BY <3>1, <3>2, <3>3
    <2>3. f \in [K -> K \ {a}]
      BY <2>1, <2>2
    <2>4. \A y, z \in K : f[y] = f[z] => y = z
      BY <2>2
    <2>5. IsFiniteSet(K) /\ IsFiniteSet(K \ {a})
      <3>1. IsFiniteSet(Attr)
        BY AttrCounted DEF Counts
      <3>2. QED
        BY <1>3, <3>1, FS_Subset
    <2>6. Cardinality(K \ {a}) = Cardinality(K) - 1 /\ Cardinality(K) \in Nat
      BY <1>3, <2>5, FS_RemoveElement, FS_CardinalityType
    <2>7. Cardinality(K) <= Cardinality(K \ {a})
      <3>1. f \in Injection(K, K \ {a})
        BY <2>3, <2>4 DEF Injection, IsInjective
      <3>2. QED
        BY <2>5, <3>1, FS_Injection
    <2>8. QED
      BY <2>6, <2>7
  <1>5. PICK z \in K : Next(l, z) = Null
    BY <1>4
  <1>6. \A x \in K : z \in Chain(l, x)
    <2>1. PICK C : C = {x \in K : z \in Chain(l, x)}
      OBVIOUS
    <2>2. C \in SUBSET Attr /\ a \in C \cup {Null}
      BY <1>1, <1>3, <1>5, <2>1
    <2>3. ASSUME NEW x \in C, Next(l, x) # Null PROVE Next(l, x) \in C
      <3>1. x \in Chain(l, a) /\ x # z /\ z \in Chain(l, x)
        BY <1>1, <1>5, <2>1, <2>3
      <3>2. Chain(l, x) = {x} \cup Chain(l, Next(l, x))
        BY <3>1, ChainGoesOn
      <3>3. Next(l, x) \in K
        BY <1>3, <2>1, <2>3
      <3>4. QED
        BY <2>1, <3>1, <3>2, <3>3
    <2>4. \A x \in C : Next(l, x) \in C \cup {Null}
      BY <2>3
    <2>5. K \subseteq C
      BY <1>1, <1>2, <2>2, <2>4, ChainIs
    <2>6. QED
      BY <2>1, <2>5
  <1>7. ASSUME NEW x \in K, Next(l, x) = Null PROVE x = z
    <2>1. Chain(l, x) = {x} \cup Chain(l, Null)
      <3>1. x \in Chain(l, a)
        BY <1>1
      <3>2. QED
        BY <1>7, <3>1, ChainGoesOn
    <2>2. z \in Chain(l, x)
      BY <1>6
    <2>3. QED
      BY <2>1, <2>2, ChainEmpty
  <1>8. QED
    BY <1>1, <1>5, <1>6, <1>7

-----------------------------------------------------------------------------
\* Where a chain is alike in two states of the lists, it is the same.
LEMMA ChainSame ==
  ASSUME NEW l \in Lists, NEW m \in Lists, NEW a \in Attr \cup {Null},
         \A x \in Chain(l, a) : Next(m, x) = Next(l, x)
  PROVE  Chain(m, a) = Chain(l, a)
  <1>1. PICK K, M : K = Chain(l, a) /\ M = Chain(m, a)
    OBVIOUS
  <1>2. K \in SUBSET Attr /\ a \in K \cup {Null} /\ \A x \in K : Next(l, x) \in K \cup {Null}
    BY <1>1, ChainIs
  <1>3. M \in SUBSET Attr /\ a \in M \cup {Null} /\ \A x \in M : Next(m, x) \in M \cup {Null}
    BY <1>1, ChainIs
  <1>4. \A x \in K : Next(m, x) \in K \cup {Null}
    BY <1>1, <1>2
  <1>5. M \subseteq K
    BY <1>1, <1>2, <1>4, ChainIs
  <1>6. \A x \in M : Next(l, x) \in M \cup {Null}
    BY <1>1, <1>3, <1>5
  <1>7. K \subseteq M
    BY <1>1, <1>3, <1>6, ChainIs
  <1>8. QED
    BY <1>1, <1>5, <1>7

\* What is in the list of an element: attributes that have it for parent;
\* what comes before one is in the list too.
LEMMA AttributesAre ==
  ASSUME NEW l \in Lists, Consistent(l), NEW e \in Elem
  PROVE  /\ l.first[e] \in Attr \cup {Null}
         /\ Attributes(l, e) \in SUBSET Attr
         /\ l.first[e] # Null => l.first[e] \in Attributes(l, e)
         /\ l.first[e] = Null => Attributes(l, e) = {}
         /\ \A a \in Attributes(l, e) :
              /\ l.link[a].parent = e
              /\ Next(l, a) \in Attributes(l, e) \cup {Null}
              /\ a = l.first[e] => l.link[a].prev = Null
              /\ a # l.first[e] => l.link[a].prev \in Attributes(l, e)
              /\ a \notin Chain(l, Next(l, a))
  <1>1. PICK f, A : f = l.first[e] /\ A = Attributes(l, e)
    OBVIOUS
  <1>2. f \in Attr \cup {Null} /\ Null \notin Attr
    BY <1>1, AttrAssumption DEF Lists
  <1>3. A = Chain(l, f)
    BY <1>1 DEF Attributes
  <1>4. CASE f = Null
    BY <1>1, <1>2, <1>3, <1>4, ChainEmpty
  <1>5. CASE f # Null
    <2>1. f \in Attr /\ l.link[f].prev = Null /\ l.link[f].parent = e
      BY <1>1, <1>2, <1>5 DEF Consistent
    <2>2. A \in SUBSET Attr /\ f \in A /\ \A x \in A : Next(l, x) \in A \cup {Null}
      BY <1>2, <1>3, <1>5, ChainIs
    <2>3. ASSUME NEW a \in A
          PROVE  /\ l.link[a].parent = e
                 /\ a # f => l.link[a].prev \in A
                 /\ a \notin Chain(l, Next(l, a))
      BY <1>3, <2>1, <2>3, ChainParent, ChainBack, ChainApart
    <2>4. QED
      BY <1>1, <1>2, <1>5, <2>1, <2>2, <2>3
  <1>6. QED
    BY <1>4, <1>5

\* The last attribute of an element, Null if it has none.
IsLast(l, e, z) ==
  IF l.first[e] = Null THEN z = Null
  ELSE /\ z \in Attributes(l, e) /\ Next(l, z) = Null
       /\ \A x \in Attributes(l, e) : z \in Chain(l, x) /\ (Next(l, x) = Null => x = z)

LEMMA LastIs ==
  ASSUME NEW l \in Lists, Consistent(l), NEW e \in Elem
  PROVE  \E z : IsLast(l, e, z)
  <1>1. CASE l.first[e] = Null
    BY <1>1 DEF IsLast
  <1>2. CASE l.first[e] # Null
    <2>1. PICK a : a = l.first[e]
      OBVIOUS
    <2>2. a \in Attr /\ l.link[a].prev = Null /\ Attributes(l, e) = Chain(l, a)
      BY <1>2, <2>1 DEF Lists, Consistent, Attributes
    <2>3. PICK z \in Chain(l, a) : /\ Next(l, z) = Null
                                   /\ \A x \in Chain(l, a) : z \in Chain(l, x)
                                   /\ \A x \in Chain(l, a) : Next(l, x) = Null => x = z
      BY <2>2, ChainLast
    <2>4. QED
      BY <1>2, <2>2, <2>3 DEF IsLast
  <1>3. QED
    BY <1>1, <1>2

LEMMA AppendedIs ==
  ASSUME NEW l \in Lists, NEW e \in Elem, NEW a, NEW z, IsLast(l, e, z), Consistent(l)
  PROVE  Appended(l, e, a) =
           [first |-> IF z = Null THEN [l.first EXCEPT ![e] = a] ELSE l.first,
            link |-> [b \in Attr |-> IF b = a THEN [parent |-> e, next |-> Null, prev |-> z]
                                     ELSE IF b = z THEN [l.link[b] EXCEPT !.next = a]
                                     ELSE l.link[b]]]
  <1>1. PICK S, final : /\ S = {b \in Attributes(l, e) : l.link[b].next = Null}
                       /\ final = IF S = {} THEN Null ELSE CHOOSE b \in S : TRUE
    OBVIOUS
  <1>2. final = z
    <2>1. CASE l.first[e] = Null
      <3>1. Attributes(l, e) = {}
        BY <2>1, AttributesAre
      <3>2. QED
        BY <1>1, <2>1, <3>1 DEF IsLast
    <2>2. CASE l.first[e] # Null
      <3>1. S = {z}
        BY <1>1, <2>2 DEF IsLast, Next
      <3>2. QED
        BY <1>1, <3>1
    <2>3. QED
      BY <2>1, <2>2
  <1>3. QED
    BY <1>1, <1>2 DEF Appended

\* A loose attribute that is appended to the list of e is its last one then;
\* other lists stay.
LEMMA AppendedFits ==
  ASSUME NEW l \in Lists, Consistent(l), NEW e \in Elem, NEW a \in Attr, l.link[a] = Loose,
         NEW m, m = Appended(l, e, a)
  PROVE  /\ m \in Lists /\ Consistent(m)
         /\ a \notin Attributes(l, e)
         /\ Attributes(m, e) = Attributes(l, e) \cup {a}
         /\ \A f \in Elem : f # e => Attributes(m, f) = Attributes(l, f) /\ a \notin Attributes(l, f)
                                     /\ m.first[f] = l.first[f]
         /\ \A x \in Attributes(l, e) : a \in Chain(m, Next(m, x))
         /\ Next(m, a) = Null /\ m.link[a].parent = e
         /\ \A b \in Attr : b # a => m.link[b].parent = l.link[b].parent
         /\ \A b \in Attr : b # a /\ l.link[b] = Loose => m.link[b] = Loose
  <1>1. PICK z : IsLast(l, e, z)
    BY LastIs
  <1>2. PICK A : A = Attributes(l, e)
    OBVIOUS
  <1>3. /\ A \in SUBSET Attr /\ Null \notin Attr /\ Null \notin Elem
        /\ \A x \in A : l.link[x].parent = e /\ Next(l, x) \in A \cup {Null}
        /\ l.first[e] \in A \cup {Null} /\ (l.first[e] = Null => A = {})
    BY <1>2, AttributesAre, AttrAssumption
  <1>4. ASSUME NEW f \in Elem PROVE a \notin Attributes(l, f)
    <2>1. l.link[a].parent # f
      BY <1>3 DEF Loose
    <2>2. QED
      BY <2>1, AttributesAre
  <1>5. /\ z = Null <=> l.first[e] = Null
        /\ z # Null => z \in A /\ z \in Attr /\ z # a /\ Next(l, z) = Null
        /\ \A x \in A : Next(l, x) = Null => x = z
    BY <1>1, <1>2, <1>3, <1>4 DEF IsLast
  <1>6. m = [first |-> IF z = Null THEN [l.first EXCEPT ![e] = a] ELSE l.first,
             link |-> [b \in Attr |-> IF b = a THEN [parent |-> e, next |-> Null, prev |-> z]
                                      ELSE IF b = z THEN [l.link[b] EXCEPT !.next = a]
                                      ELSE l.link[b]]]
    BY <1>1, AppendedIs
  <1>7. /\ l.first \in [Elem -> Attr \cup {Null}] /\ l.link \in [Attr -> Link]
        /\ m.first = IF z = Null THEN [l.first EXCEPT ![e] = a] ELSE l.first
        /\ m.link = [b \in Attr |-> IF b = a THEN [parent |-> e, next |-> Null, prev |-> z]
                                    ELSE IF b = z THEN [l.link[b] EXCEPT !.next = a]
                                    ELSE l.link[b]]
    BY <1>6 DEF Lists
  <1>8. /\ m.link[a] = [parent |-> e, next |-> Null, prev |-> z]
        /\ \A b \in Attr : b # a /\ b # z => m.link[b] = l.link[b]
        /\ z # Null => /\ m.link[z].next = a /\ m.link[z].prev = l.link[z].prev
                       /\ m.link[z].parent = l.link[z].parent /\ m.link[z] \in Link
    <2>1. z # Null => m.link[z] = [l.link[z] EXCEPT !.next = a] /\ l.link[z] \in Link
      BY <1>5, <1>7
    <2>2. z # Null => /\ m.link[z].next = a /\ m.link[z].prev = l.link[z].prev
                      /\ m.link[z].parent = l.link[z].parent /\ m.link[z] \in Link
      BY <2>1 DEF Link
    <2>3. QED
      BY <1>7, <2>2
  <1>9. m \in Lists
    <2>1. m.first \in [Elem -> Attr \cup {Null}]
      BY <1>7
    <2>2. \A b \in Attr : m.link[b] \in Link
      BY <1>3, <1>5, <1>7, <1>8 DEF Link
    <2>3. m.link \in [Attr -> Link]
      BY <1>7, <2>2
    <2>4. QED
      BY <1>6, <2>1, <2>3 DEF Lists
  <1>10. l.link[a].next = Null /\ l.link[a].prev = Null /\ l.link[a].parent = Null
    BY DEF Loose
  \* Nothing leads to a loose attribute.
  <1>11. \A b \in Attr : l.link[b].next # a /\ l.link[b].prev # a
    BY <1>3, <1>10 DEF Consistent
  <1>12. Consistent(m)
    <2>1. ASSUME NEW b \in Attr, m.link[b].next # Null
          PROVE  m.link[m.link[b].next].prev = b /\ m.link[m.link[b].next].parent = m.link[b].parent
      <3>1. b # a
        BY <1>8, <2>1
      <3>2. CASE b = z
        <4>1. z # Null /\ z \in A /\ m.link[z].next = a /\ m.link[z].parent = e
          BY <1>3, <1>5, <1>8, <3>2
        <4>2. QED
          BY <1>8, <3>2, <4>1
      <3>3. CASE b # z
        <4>1. m.link[b] = l.link[b]
          BY <1>8, <3>1, <3>3
        <4>2. PICK c : c = l.link[b].next
          OBVIOUS
        <4>3. c \in Attr /\ c # a /\ l.link[c].prev = b /\ l.link[c].parent = l.link[b].parent
          BY <1>11, <2>1, <4>1, <4>2, LinkIs DEF Consistent
        <4>4. m.link[c].prev = l.link[c].prev /\ m.link[c].parent = l.link[c].parent
          BY <1>3, <1>8, <4>3
        <4>5. QED
          BY <4>1, <4>2, <4>3, <4>4
      <3>4. QED
        BY <3>2, <3>3
    <2>2. ASSUME NEW b \in Attr, m.link[b].prev # Null
          PROVE  m.link[m.link[b].prev].next = b
      <3>1. CASE b = a
        BY <1>8, <2>2, <3>1
      <3>2. CASE b # a
        <4>1. m.link[b].prev = l.link[b].prev
          BY <1>3, <1>8, <3>2
        <4>2. PICK c : c = l.link[b].prev
          OBVIOUS
        <4>3. c \in Attr /\ c # a /\ l.link[c].next = b
          BY <1>11, <2>2, <4>1, <4>2, LinkIs DEF Consistent
        <4>4. c # z
          BY <1>3, <1>5, <4>3 DEF Next
        <4>5. QED
          BY <1>8, <4>1, <4>2, <4>3, <4>4
      <3>3. QED
        BY <3>1, <3>2
    <2>3. ASSUME NEW f \in Elem, m.first[f] # Null
          PROVE  m.link[m.first[f]].prev = Null /\ m.link[m.first[f]].parent = f
      <3>1. CASE z = Null /\ f = e
        BY <1>7, <1>8, <3>1
      <3>2. CASE ~(z = Null /\ f = e)
        <4>1. PICK c : c = m.first[f]
          OBVIOUS
        <4>2. c = l.first[f] /\ c # Null
          BY <1>7, <2>3, <3>2, <4>1
        <4>3. c \in Attr /\ l.link[c].prev = Null /\ l.link[c].parent = f
          BY <1>7, <4>2 DEF Consistent
        <4>4. c # a
          BY <1>3, <1>10, <4>3
        <4>5. m.link[c].prev = l.link[c].prev /\ m.link[c].parent = l.link[c].parent
          BY <1>3, <1>8, <4>3, <4>4
        <4>6. QED
          BY <4>1, <4>3, <4>5
      <3>3. QED
        BY <3>1, <3>2
    <2>4. QED
      BY <2>1, <2>2, <2>3 DEF Consistent
  <1>13. ASSUME NEW f \in Elem, f # e
         PROVE  Attributes(m, f) = Attributes(l, f) /\ m.first[f] = l.first[f]
    <2>1. PICK c : c = l.first[f]
      OBVIOUS
    <2>2. c \in Attr \cup {Null} /\ m.first[f] = c
      BY <1>7, <1>13, <2>1
    <2>3. ASSUME NEW x \in Chain(l, c) PROVE Next(m, x) = Next(l, x)
      <3>1. x \in Attributes(l, f)
        BY <2>1, <2>3 DEF Attributes
      <3>2. x \in Attr /\ x # a /\ l.link[x].parent = f
        BY <1>4, <3>1, AttributesAre
      <3>3. x # z
        BY <1>3, <1>5, <1>13, <3>2
      <3>4. QED
        BY <1>8, <3>2, <3>3 DEF Next
    <2>4. Chain(m, c) = Chain(l, c)
      BY <1>9, <2>2, <2>3, ChainSame
    <2>5. QED
      BY <2>1, <2>2, <2>4 DEF Attributes
  <1>14. PICK M, c : M = Attributes(m, e) /\ c = m.first[e]
    OBVIOUS
  <1>15. c = IF z = Null THEN a ELSE l.first[e]
    BY <1>7, <1>14
  <1>16. /\ M \in SUBSET Attr /\ c \in Attr /\ c \in M /\ M = Chain(m, c)
         /\ \A x \in M : Next(m, x) \in M \cup {Null}
    <2>1. c \in Attr \cup {Null} /\ c # Null
      BY <1>3, <1>5, <1>15
    <2>2. M = Chain(m, c)
      BY <1>14 DEF Attributes
    <2>3. QED
      BY <1>9, <2>1, <2>2, ChainIs
  <1>17. \A x \in A : Next(m, x) = IF x = z THEN a ELSE Next(l, x)
    <2>1. a \notin A
      BY <1>2, <1>4
    <2>2. QED
      BY <1>3, <1>8, <2>1 DEF Next
  <1>18. Next(m, a) = Null
    BY <1>8 DEF Next
  <1>19. M \subseteq A \cup {a}
    <2>1. PICK C : C = A \cup {a}
      OBVIOUS
    <2>2. C \in SUBSET Attr /\ c \in C \cup {Null}
      BY <1>3, <1>5, <1>15, <2>1
    <2>3. \A x \in C : Next(m, x) \in C \cup {Null}
      BY <1>3, <1>17, <1>18, <2>1
    <2>4. c \in Attr \cup {Null}
      BY <1>16
    <2>5. QED
      BY <1>9, <1>16, <2>1, <2>2, <2>3, <2>4, ChainIs
  <1>20. A \subseteq M /\ a \in M
    <2>1. CASE z = Null
      BY <1>3, <1>5, <1>15, <1>16, <2>1
    <2>2. CASE z # Null
      <3>1. PICK C : C = {x \in A : x \in M}
        OBVIOUS
      <3>2. l.first[e] \in Attr \cup {Null} /\ A = Chain(l, l.first[e])
        BY <1>2, <1>3 DEF Attributes
      <3>3. C \in SUBSET Attr /\ l.first[e] \in C \cup {Null}
        BY <1>3, <1>15, <1>16, <2>2, <3>1
      <3>4. ASSUME NEW x \in C PROVE Next(l, x) \in C \cup {Null}
        <4>1. x \in A /\ x \in M /\ Next(l, x) \in A \cup {Null}
          BY <1>3, <3>1
        <4>2. CASE x = z
          BY <1>5, <2>2, <4>2
        <4>3. CASE x # z
          <5>1. Next(m, x) = Next(l, x)
            BY <1>17, <4>1, <4>3
          <5>2. QED
            BY <1>16, <3>1, <4>1, <5>1
        <4>4. QED
          BY <4>2, <4>3
      <3>5. A \subseteq C
        BY <3>2, <3>3, <3>4, ChainIs
      <3>6. z \in M /\ Next(m, z) = a
        BY <1>5, <1>17, <2>2, <3>1, <3>5
      <3>7. a \in M
        BY <1>3, <1>16, <3>6
      <3>8. QED
        BY <3>1, <3>5, <3>7
    <2>3. QED
      BY <2>1, <2>2
  <1>21. ASSUME NEW x \in A PROVE a \in Chain(m, Next(m, x))
    <2>1. c \in Attr /\ m.link[c].prev = Null
      BY <1>3, <1>12, <1>14, <1>16 DEF Consistent
    <2>2. PICK y \in Chain(m, c) : /\ \A b \in Chain(m, c) : y \in Chain(m, b)
                                   /\ \A b \in Chain(m, c) : Next(m, b) = Null => b = y
      BY <1>9, <1>12, <2>1, ChainLast
    <2>3. y = a
      BY <1>16, <1>18, <1>20, <2>2
    <2>4. x \in Chain(m, c) /\ x # a
      BY <1>2, <1>4, <1>16, <1>20
    <2>5. Chain(m, x) = {x} \cup Chain(m, Next(m, x))
      BY <1>9, <2>1, <2>4, ChainGoesOn
    <2>6. QED
      BY <2>2, <2>3, <2>4, <2>5
  <1>22. \A b \in Attr : b # a => m.link[b].parent = l.link[b].parent
    BY <1>3, <1>8
  <1>23. ASSUME NEW b \in Attr, b # a, l.link[b] = Loose PROVE m.link[b] = Loose
    <2>1. b # z
      BY <1>3, <1>5, <1>23 DEF Loose
    <2>2. QED
      BY <1>8, <1>23, <2>1
  <1>24. Attributes(m, e) = Attributes(l, e) \cup {a} /\ m.link[a].parent = e
    BY <1>2, <1>8, <1>14, <1>19, <1>20
  <1>25. QED
    BY <1>2, <1>4, <1>9, <1>12, <1>13, <1>18, <1>21, <1>22, <1>23, <1>24

\* An attribute that is unlinked is loose and leaves its list; the others
\* stay in order.
LEMMA UnlinkedFits ==
  ASSUME NEW l \in Lists, Consistent(l), NEW a \in Attr, NEW m, m = Unlinked(l, a)
  PROVE  /\ m \in Lists /\ Consistent(m)
         /\ \A f \in Elem : Attributes(m, f) = Attributes(l, f) \ {a}
         /\ m.link[a] = Loose
         /\ \A b \in Attr : b # a => m.link[b].parent = l.link[b].parent
         /\ \A b \in Attr : b # a /\ l.link[b].next # a /\ l.link[b].prev # a => m.link[b] = l.link[b]
         /\ \A f \in Elem : l.first[f] # a => m.first[f] = l.first[f]
  <1>1. PICK p, n, u : p = l.link[a].prev /\ n = l.link[a].next /\ u = l.link[a].parent
    OBVIOUS
  <1>2. /\ p \in Attr \cup {Null} /\ n \in Attr \cup {Null} /\ u \in Elem \cup {Null}
        /\ Null \notin Attr /\ Null \notin Elem
        /\ l.first \in [Elem -> Attr \cup {Null}] /\ l.link \in [Attr -> Link]
    BY <1>1, LinkIs, AttrAssumption DEF Lists
  <1>3. /\ n # Null => l.link[n].prev = a /\ l.link[n].parent = u
        /\ p # Null => l.link[p].next = a /\ l.link[p].parent = u
    BY <1>1, <1>2 DEF Consistent
  <1>4. /\ m.first = [e \in Elem |-> IF e = u /\ l.first[e] = a THEN n ELSE l.first[e]]
        /\ m.link = [b \in Attr |->
             IF b = a THEN Loose
             ELSE [l.link[b] EXCEPT !.prev = IF b = n THEN p ELSE @, !.next = IF b = p THEN n ELSE @]]
        /\ m = [first |-> m.first, link |-> m.link]
    BY <1>1 DEF Unlinked
  <1>5. m.link[a] = Loose
    BY <1>4
  <1>6. ASSUME NEW b \in Attr, b # a
        PROVE  /\ m.link[b] \in Link
               /\ m.link[b].parent = l.link[b].parent
               /\ m.link[b].prev = IF b = n THEN p ELSE l.link[b].prev
               /\ m.link[b].next = IF b = p THEN n ELSE l.link[b].next
    <2>1. l.link[b] \in Link
      BY <1>2
    <2>2. m.link[b] = [l.link[b] EXCEPT !.prev = IF b = n THEN p ELSE @, !.next = IF b = p THEN n ELSE @]
      BY <1>4, <1>6
    <2>3. QED
      BY <1>2, <2>1, <2>2 DEF Link
  <1>7. m \in Lists
    <2>1. Loose \in Link
      BY DEF Loose, Link
    <2>2. m.link \in [Attr -> Link]
      BY <1>4, <1>5, <1>6, <2>1
    <2>3. m.first \in [Elem -> Attr \cup {Null}]
      <3>1. \A e \in Elem : (IF e = u /\ l.first[e] = a THEN n ELSE l.first[e]) \in Attr \cup {Null}
        BY <1>2
      <3>2. QED
        BY <1>4, <3>1
    <2>4. QED
      BY <1>4, <2>2, <2>3 DEF Lists
  \* What leads to a is its neighbours, and the element where it is first.
  <1>8. \A b \in Attr : (l.link[b].next = a => b = p) /\ (l.link[b].prev = a => b = n)
    BY <1>1, <1>2 DEF Consistent
  <1>9. \A f \in Elem : l.first[f] = a => f = u /\ p = Null
    BY <1>1, <1>2 DEF Consistent
  <1>10. ASSUME NEW f \in Elem PROVE m.first[f] = IF l.first[f] = a THEN n ELSE l.first[f]
    BY <1>4, <1>9
  \* Where an attribute is its own neighbour it is alone.
  <1>11. n = a <=> p = a
    BY <1>1, <1>2 DEF Consistent
  <1>12. Consistent(m)
    <2>1. ASSUME NEW b \in Attr, m.link[b].next # Null
          PROVE  m.link[m.link[b].next].prev = b /\ m.link[m.link[b].next].parent = m.link[b].parent
      <3>1. b # a
        BY <1>5, <2>1 DEF Loose
      <3>2. CASE b = p
        <4>1. m.link[b].next = n /\ n # Null /\ n # a
          BY <1>6, <1>11, <2>1, <3>1, <3>2
        <4>2. m.link[n].prev = p /\ m.link[n].parent = l.link[n].parent /\ l.link[n].parent = u
          BY <1>2, <1>3, <1>6, <4>1
        <4>3. m.link[b].parent = u
          BY <1>2, <1>3, <1>6, <3>1, <3>2
        <4>4. QED
          BY <3>2, <4>1, <4>2, <4>3
      <3>3. CASE b # p
        <4>1. PICK c : c = l.link[b].next
          OBVIOUS
        <4>2. m.link[b].next = c /\ m.link[b].parent = l.link[b].parent
          BY <1>6, <3>1, <3>3, <4>1
        <4>3. c \in Attr /\ c # a /\ l.link[c].prev = b /\ l.link[c].parent = l.link[b].parent
          BY <1>8, <2>1, <3>3, <4>1, <4>2, LinkIs DEF Consistent
        <4>4. c # n
          BY <1>2, <1>3, <3>1, <4>3
        <4>5. m.link[c].prev = b /\ m.link[c].parent = l.link[c].parent
          BY <1>6, <4>3, <4>4
        <4>6. QED
          BY <4>2, <4>3, <4>5
      <3>4. QED
        BY <3>2, <3>3
    <2>2. ASSUME NEW b \in Attr, m.link[b].prev # Null
          PROVE  m.link[m.link[b].prev].next = b
      <3>1. b # a
        BY <1>5, <2>2 DEF Loose
      <3>2. CASE b = n
        <4>1. m.link[b].prev = p /\ p # Null /\ p # a
          BY <1>6, <1>11, <2>2, <3>1, <3>2
        <4>2. m.link[p].next = n
          BY <1>2, <1>6, <4>1
        <4>3. QED
          BY <3>2, <4>1, <4>2
      <3>3. CASE b # n
        <4>1. PICK c : c = l.link[b].prev
          OBVIOUS
        <4>2. m.link[b].prev = c
          BY <1>6, <3>1, <3>3, <4>1
        <4>3. c \in Attr /\ c # a /\ l.link[c].next = b
          BY <1>8, <2>2, <3>3, <4>1, <4>2, LinkIs DEF Consistent
        <4>4. c # p
          BY <1>2, <1>3, <3>1, <4>3
        <4>5. m.link[c].next = b
          BY <1>6, <4>3, <4>4
        <4>6. QED
          BY <4>2, <4>5
      <3>4. QED
        BY <3>2, <3>3
    <2>3. ASSUME NEW f \in Elem, m.first[f] # Null
          PROVE  m.link[m.first[f]].prev = Null /\ m.link[m.first[f]].parent = f
      <3>1. CASE l.first[f] = a
        <4>1. m.first[f] = n /\ f = u /\ p = Null /\ n # Null
          BY <1>9, <1>10, <2>3, <3>1
        <4>2. n # a
          BY <1>2, <1>11, <4>1
        <4>3. m.link[n].prev = Null /\ m.link[n].parent = u
          BY <1>2, <1>3, <1>6, <4>1, <4>2
        <4>4. QED
          BY <4>1, <4>3
      <3>2. CASE l.first[f] # a
        <4>1. PICK c : c = l.first[f]
          OBVIOUS
        <4>2. m.first[f] = c /\ c # Null /\ c \in Attr /\ c # a
          BY <1>2, <1>10, <2>3, <3>2, <4>1
        <4>3. l.link[c].prev = Null /\ l.link[c].parent = f
          BY <4>1, <4>2 DEF Consistent
        <4>4. c # n
          BY <1>2, <1>3, <4>2, <4>3
        <4>5. m.link[c].prev = Null /\ m.link[c].parent = f
          BY <1>6, <4>2, <4>3, <4>4
        <4>6. QED
          BY <4>2, <4>5
      <3>3. QED
        BY <3>1, <3>2
    <2>4. QED
      BY <2>1, <2>2, <2>3 DEF Consistent
  <1>13. ASSUME NEW f \in Elem PROVE Attributes(m, f) = Attributes(l, f) \ {a}
    <2>1. PICK A, M, c, d : A = Attributes(l, f) /\ M = Attributes(m, f) /\ c = l.first[f] /\ d = m.first[f]
      OBVIOUS
    <2>2. /\ A \in SUBSET Attr /\ c \in A \cup {Null} /\ c \in Attr \cup {Null} /\ A = Chain(l, c)
          /\ \A x \in A : Next(l, x) \in A \cup {Null} /\ (x # c => l.link[x].prev \in A)
      BY <2>1, AttributesAre DEF Attributes
    <2>3. /\ M \in SUBSET Attr /\ d \in M \cup {Null} /\ d \in Attr \cup {Null} /\ M = Chain(m, d)
          /\ \A x \in M : Next(m, x) \in M \cup {Null}
      BY <1>7, <1>12, <2>1, AttributesAre DEF Attributes
    <2>4. d = IF c = a THEN n ELSE c
      BY <1>10, <2>1
    <2>5. n \in Attr => n # a \/ c # a
      BY <1>2, <1>9, <1>11, <2>1
    <2>6. M \subseteq A \ {a}
      <3>1. PICK C : C = A \ {a}
        OBVIOUS
      <3>2. C \in SUBSET Attr /\ d \in C \cup {Null}
        <4>1. CASE c = a
          <5>1. a \in A /\ n \in A \cup {Null}
            BY <1>1, <1>2, <2>2, <4>1 DEF Next
          <5>2. QED
            BY <1>2, <2>2, <2>4, <2>5, <3>1, <4>1, <5>1
        <4>2. CASE c # a
          BY <2>2, <2>4, <3>1, <4>2
        <4>3. QED
          BY <4>1, <4>2
      <3>3. ASSUME NEW x \in C PROVE Next(m, x) \in C \cup {Null}
        <4>1. x \in A /\ x \in Attr /\ x # a /\ Next(l, x) \in A \cup {Null}
          BY <2>2, <3>1
        <4>2. CASE x = p
          <5>1. Next(m, x) = n /\ n # a
            BY <1>6, <1>11, <4>1, <4>2 DEF Next
          <5>2. l.link[x].next = a
            BY <1>2, <1>3, <4>1, <4>2
          <5>3. a \in A
            BY <1>2, <4>1, <5>2 DEF Next
          <5>4. n \in A \cup {Null}
            BY <1>1, <2>2, <5>3 DEF Next
          <5>5. QED
            BY <3>1, <5>1, <5>4
        <4>3. CASE x # p
          <5>1. Next(m, x) = Next(l, x) /\ Next(l, x) # a
            BY <1>6, <1>8, <4>1, <4>3 DEF Next
          <5>2. QED
            BY <3>1, <4>1, <5>1
        <4>4. QED
          BY <4>2, <4>3
      <3>4. QED
        BY <1>7, <2>3, <3>1, <3>2, <3>3, ChainIs
    <2>7. A \subseteq M \cup {a}
      <3>1. PICK C : C = {x \in A : (x # a => x \in M) /\ (x = a => n \in M \cup {Null})}
        OBVIOUS
      <3>2. C \in SUBSET Attr /\ c \in C \cup {Null}
        BY <2>2, <2>3, <2>4, <3>1
      <3>3. ASSUME NEW x \in C, Next(l, x) # Null PROVE Next(l, x) \in C
        <4>1. PICK y : y = Next(l, x)
          OBVIOUS
        <4>2. x \in A /\ x \in Attr /\ y \in A /\ y # Null
          BY <2>2, <3>1, <3>3, <4>1
        <4>3. CASE x = a
          <5>1. y = n /\ n \in M
            BY <1>1, <3>1, <4>1, <4>2, <4>3 DEF Next
          <5>2. n # a
            BY <2>6, <5>1
          <5>3. QED
            BY <3>1, <4>1, <4>2, <5>1, <5>2
        <4>4. CASE x # a /\ y = a
          <5>1. x = p /\ x \in M
            BY <1>8, <3>1, <4>1, <4>2, <4>4 DEF Next
          <5>2. Next(m, x) = n
            BY <1>6, <4>2, <4>4, <5>1 DEF Next
          <5>3. n \in M \cup {Null}
            BY <2>3, <5>1, <5>2
          <5>4. QED
            BY <3>1, <4>1, <4>2, <4>4, <5>3
        <4>5. CASE x # a /\ y # a
          <5>1. x # p
            BY <1>2, <1>3, <4>1, <4>2, <4>5 DEF Next
          <5>2. Next(m, x) = y /\ x \in M
            BY <1>6, <3>1, <4>1, <4>2, <4>5, <5>1 DEF Next
          <5>3. y \in M
            BY <2>3, <4>2, <5>2
          <5>4. QED
            BY <3>1, <4>1, <4>2, <4>5, <5>3
        <4>6. QED
          BY <4>3, <4>4, <4>5
      <3>4. \A x \in C : Next(l, x) \in C \cup {Null}
        BY <3>3
      <3>5. A \subseteq C
        BY <2>2, <3>2, <3>4, ChainIs
      <3>6. QED
        BY <3>1, <3>5
    <2>8. QED
      BY <2>1, <2>6, <2>7
  <1>14. ASSUME NEW b \in Attr, b # a, l.link[b].next # a, l.link[b].prev # a
         PROVE  m.link[b] = l.link[b]
    <2>1. b # n /\ b # p
      BY <1>2, <1>3, <1>14
    <2>2. /\ m.link[b].parent = l.link[b].parent /\ m.link[b].prev = l.link[b].prev
          /\ m.link[b].next = l.link[b].next /\ m.link[b] \in Link /\ l.link[b] \in Link
      BY <1>2, <1>6, <1>14, <2>1
    <2>3. QED
      BY <2>2 DEF Link
  <1>15. \A b \in Attr : b # a => m.link[b].parent = l.link[b].parent
    BY <1>6
  <1>16. \A f \in Elem : l.first[f] # a => m.first[f] = l.first[f]
    BY <1>10
  <1>17. QED
    BY <1>5, <1>7, <1>12, <1>13, <1>14, <1>15, <1>16

\* The lists without the one of e.
Emptied(l, e) == [l EXCEPT !.first[e] = Null]

\* An element whose first attribute is taken from it has none.
LEMMA ClearedFits ==
  ASSUME NEW l \in Lists, Consistent(l), NEW e \in Elem, NEW m, m = Emptied(l, e)
  PROVE  /\ m \in Lists /\ Consistent(m) /\ m.link = l.link
         /\ Attributes(m, e) = {} /\ m.first[e] = Null
         /\ \A f \in Elem : f # e => Attributes(m, f) = Attributes(l, f) /\ m.first[f] = l.first[f]
         /\ \A f \in Elem : Attributes(m, f) = Attributes(l, f) \ Attributes(l, e)
  <1>1. /\ m.first = [l.first EXCEPT ![e] = Null] /\ m.link = l.link
        /\ l.first \in [Elem -> Attr \cup {Null}] /\ l.link \in [Attr -> Link]
        /\ m \in Lists
    BY DEF Lists, Emptied
  <1>2. Consistent(m)
    BY <1>1 DEF Consistent
  <1>3. m.first[e] = Null /\ Attributes(m, e) = {}
    <2>1. m.first[e] = Null
      BY <1>1
    <2>2. QED
      BY ONLY <1>1, <1>2, <2>1, e \in Elem, AttributesAre
  <1>4. ASSUME NEW f \in Elem, f # e
        PROVE  Attributes(m, f) = Attributes(l, f) /\ m.first[f] = l.first[f]
    <2>1. PICK c : c = l.first[f]
      OBVIOUS
    <2>2. c \in Attr \cup {Null} /\ m.first[f] = c
      BY <1>1, <1>4, <2>1
    <2>3. Chain(m, c) = Chain(l, c)
      BY <1>1, <2>2, ChainSame DEF Next
    <2>4. QED
      BY <2>1, <2>2, <2>3 DEF Attributes
  <1>5. ASSUME NEW f \in Elem, f # e PROVE Attributes(l, f) \cap Attributes(l, e) = {}
    <2>1. \A x \in Attributes(l, f) \cap Attributes(l, e) : l.link[x].parent = f /\ l.link[x].parent = e
      BY AttributesAre
    <2>2. QED
      BY <1>5, <2>1
  <1>6. ASSUME NEW f \in Elem PROVE Attributes(m, f) = Attributes(l, f) \ Attributes(l, e)
    <2>1. CASE f = e
      BY <1>3, <2>1
    <2>2. CASE f # e
      BY <1>4, <1>5, <2>2
    <2>3. QED
      BY <2>1, <2>2
  <1>7. QED
    BY <1>1, <1>2, <1>3, <1>4, <1>6

\* The lists with a first in the one of e.
Begun(l, e, a) == [l EXCEPT !.first[e] = a, !.link[a].parent = e]

\* The attributes of e are then those that a begins.
LEMMA SetFirstFits ==
  ASSUME NEW l \in Lists, Consistent(l), NEW e \in Elem, NEW a \in Attr, l.link[a].prev = Null,
         (\A b \in Chain(l, a) : l.link[b].parent = e) \/ l.link[a] = Loose,
         NEW m, m = Begun(l, e, a)
  PROVE  /\ m \in Lists /\ Consistent(m)
         /\ Attributes(m, e) = Chain(l, a) /\ m.first[e] = a
         /\ \A f \in Elem : f # e => Attributes(m, f) = Attributes(l, f) /\ m.first[f] = l.first[f]
         /\ m.link[a].parent = e
         /\ \A b \in Attr : b # a => m.link[b] = l.link[b]
  <1>1. a \in Chain(l, a) /\ Null \notin Attr /\ Null \notin Elem
    <2>1. a \in Attr \cup {Null} /\ a # Null /\ Null \notin Attr /\ Null \notin Elem
      BY AttrAssumption
    <2>2. QED
      BY <2>1, ChainIs
  <1>2. /\ m.first = [l.first EXCEPT ![e] = a] /\ m.link = [l.link EXCEPT ![a] = [@ EXCEPT !.parent = e]]
        /\ m = [first |-> m.first, link |-> m.link]
        /\ l.first \in [Elem -> Attr \cup {Null}] /\ l.link \in [Attr -> Link]
    BY DEF Lists, Begun
  <1>3. /\ m.link[a].parent = e /\ m.link[a].next = l.link[a].next /\ m.link[a].prev = l.link[a].prev
        /\ m.link[a] \in Link
        /\ \A b \in Attr : b # a => m.link[b] = l.link[b]
    BY <1>2 DEF Link
  <1>4. \A b \in Attr : m.link[b].next = l.link[b].next /\ m.link[b].prev = l.link[b].prev
    BY <1>3
  <1>5. m \in Lists
    BY <1>2 DEF Lists, Link
  <1>6. l.link[a].parent \in {e, Null} /\ (l.link[a].parent = Null => l.link[a].next = Null)
    BY <1>1 DEF Loose
  <1>7. Consistent(m)
    <2>1. ASSUME NEW b \in Attr, m.link[b].next # Null
          PROVE  m.link[m.link[b].next].prev = b /\ m.link[m.link[b].next].parent = m.link[b].parent
      <3>1. PICK c : c = l.link[b].next
        OBVIOUS
      <3>2. m.link[b].next = c /\ c \in Attr /\ l.link[c].prev = b /\ l.link[c].parent = l.link[b].parent
        BY <1>4, <2>1, <3>1, LinkIs DEF Consistent
      <3>3. c # a /\ m.link[c].prev = b
        BY <1>1, <1>4, <3>2
      <3>4. m.link[c].parent = l.link[c].parent
        BY <1>3, <3>2, <3>3
      <3>5. b = a => l.link[a].parent = e
        BY <1>1, <1>6, <3>1, <3>2
      <3>6. QED
        BY <1>3, <3>2, <3>3, <3>4, <3>5
    <2>2. ASSUME NEW b \in Attr, m.link[b].prev # Null
          PROVE  m.link[m.link[b].prev].next = b
      <3>1. PICK c : c = l.link[b].prev
        OBVIOUS
      <3>2. m.link[b].prev = c /\ c \in Attr /\ l.link[c].next = b
        BY <1>4, <2>2, <3>1, LinkIs DEF Consistent
      <3>3. QED
        BY <1>4, <3>2
    <2>3. ASSUME NEW f \in Elem, m.first[f] # Null
          PROVE  m.link[m.first[f]].prev = Null /\ m.link[m.first[f]].parent = f
      <3>1. CASE f = e
        BY <1>2, <1>3, <3>1
      <3>2. CASE f # e
        <4>1. PICK c : c = l.first[f]
          OBVIOUS
        <4>2. m.first[f] = c /\ c \in Attr /\ l.link[c].prev = Null /\ l.link[c].parent = f
          BY <1>2, <2>3, <3>2, <4>1 DEF Consistent
        <4>3. c # a
          BY <1>1, <1>6, <3>2, <4>2
        <4>4. QED
          BY <1>3, <4>2, <4>3
      <3>3. QED
        BY <3>1, <3>2
    <2>4. QED
      BY <2>1, <2>2, <2>3 DEF Consistent
  <1>8. ASSUME NEW c \in Attr \cup {Null} PROVE Chain(m, c) = Chain(l, c)
    <2>1. \A x \in Chain(l, c) : Next(m, x) = Next(l, x)
      BY <1>4, ChainIs DEF Next
    <2>2. QED
      BY <1>5, <2>1, ChainSame
  <1>9. m.first[e] = a /\ \A f \in Elem : f # e => m.first[f] = l.first[f] /\ l.first[f] \in Attr \cup {Null}
    BY <1>2
  <1>10. Attributes(m, e) = Chain(l, a)
    <2>1. a \in Attr \cup {Null}
      OBVIOUS
    <2>2. QED
      BY <1>8, <1>9, <2>1 DEF Attributes
  <1>11. \A f \in Elem : f # e => Attributes(m, f) = Attributes(l, f)
    BY <1>8, <1>9 DEF Attributes
  <1>12. QED
    BY <1>3, <1>5, <1>7, <1>9, <1>10, <1>11

\* What follows has the greater number: no list leads back to itself.
Ordered(l) ==
  \E r \in [Attr -> Nat] : \A a \in Attr : l.link[a].next # Null => r[a] < r[l.link[a].next]

\* An order of the lists is one after what was appended has a place in it,
\* and after others have left.
LEMMA OrderKept ==
  ASSUME NEW l \in Lists, Ordered(l), NEW m \in Lists,
         \A b \in Attr : m.link[b].next \in {Null, l.link[b].next}
  PROVE  Ordered(m)
  <1>1. PICK r \in [Attr -> Nat] : \A a \in Attr : l.link[a].next # Null => r[a] < r[l.link[a].next]
    BY DEF Ordered
  <1>2. ASSUME NEW a \in Attr, m.link[a].next # Null PROVE r[a] < r[m.link[a].next]
    <2>1. m.link[a].next = l.link[a].next
      BY <1>2
    <2>2. QED
      BY <1>1, <1>2, <2>1
  <1>3. QED
    BY <1>2 DEF Ordered

LEMMA AppendedOrdered ==
  ASSUME NEW l \in Lists, Consistent(l), Ordered(l), NEW e \in Elem, NEW a \in Attr, l.link[a] = Loose
  PROVE  Ordered(Appended(l, e, a))
  <1>1. PICK r \in [Attr -> Nat] : \A b \in Attr : l.link[b].next # Null => r[b] < r[l.link[b].next]
    BY DEF Ordered
  <1>2. PICK z : IsLast(l, e, z)
    BY LastIs
  <1>3. PICK m : m = Appended(l, e, a)
    OBVIOUS
  <1>4. Null \notin Attr /\ Null \notin Elem
    BY AttrAssumption
  <1>5. z # Null => z \in Attr /\ z # a /\ l.link[z].next = Null
    <2>1. z # Null => z \in Attributes(l, e) /\ Next(l, z) = Null
      BY <1>2 DEF IsLast
    <2>2. z # Null => z \in Attr /\ l.link[z].parent = e
      BY <2>1, AttributesAre
    <2>3. l.link[a].parent # e
      BY <1>4 DEF Loose
    <2>4. QED
      BY <2>1, <2>2, <2>3 DEF Next
  <1>6. l.link \in [Attr -> Link] /\
        m.link = [b \in Attr |-> IF b = a THEN [parent |-> e, next |-> Null, prev |-> z]
                                 ELSE IF b = z THEN [l.link[b] EXCEPT !.next = a]
                                 ELSE l.link[b]]
    BY <1>2, <1>3, AppendedIs DEF Lists
  <1>7. /\ m.link[a].next = Null
        /\ z # Null => m.link[z].next = a
        /\ \A b \in Attr : b # a /\ b # z => m.link[b].next = l.link[b].next
    BY <1>5, <1>6 DEF Link
  <1>8. \A b \in Attr : l.link[b].next # a
    <2>1. l.link[a].prev = Null
      BY DEF Loose
    <2>2. QED
      BY <1>4, <2>1 DEF Consistent
  <1>9. PICK k \in Nat : z # Null => k > r[z]
    <2>1. CASE z = Null
      BY <2>1
    <2>2. CASE z # Null
      <3>1. r[z] \in Nat /\ r[z] + 1 \in Nat /\ r[z] + 1 > r[z]
        BY <1>5, <2>2
      <3>2. QED
        BY <3>1
    <2>3. QED
      BY <2>1, <2>2
  <1>10. PICK q : q = [r EXCEPT ![a] = k]
    OBVIOUS
  <1>11. q \in [Attr -> Nat] /\ q[a] = k /\ \A b \in Attr : b # a => q[b] = r[b]
    BY <1>10
  <1>12. ASSUME NEW b \in Attr, m.link[b].next # Null PROVE q[b] < q[m.link[b].next]
    <2>1. b # a
      BY <1>7, <1>12
    <2>2. CASE b = z
      <3>1. z # Null /\ z \in Attr /\ z # a /\ m.link[z].next = a
        BY <1>4, <1>5, <1>7, <2>2
      <3>2. r[z] < k /\ q[z] = r[z] /\ q[a] = k
        BY <1>9, <1>11, <3>1
      <3>3. QED
        BY <2>2, <3>1, <3>2
    <2>3. CASE b # z
      <3>1. PICK c : c = l.link[b].next
        OBVIOUS
      <3>2. m.link[b].next = c /\ c \in Attr /\ c # a
        BY <1>7, <1>8, <1>12, <2>1, <2>3, <3>1, LinkIs
      <3>3. r[b] < r[c]
        BY <1>1, <1>12, <3>1, <3>2
      <3>4. QED
        BY <1>11, <2>1, <3>2, <3>3
    <2>4. QED
      BY <2>2, <2>3
  <1>13. QED
    BY <1>3, <1>11, <1>12 DEF Ordered

LEMMA UnlinkedOrdered ==
  ASSUME NEW l \in Lists, Consistent(l), Ordered(l), NEW a \in Attr
  PROVE  Ordered(Unlinked(l, a))
  <1>1. PICK r \in [Attr -> Nat] : \A b \in Attr : l.link[b].next # Null => r[b] < r[l.link[b].next]
    BY DEF Ordered
  <1>2. PICK m, p, n : m = Unlinked(l, a) /\ p = l.link[a].prev /\ n = l.link[a].next
    OBVIOUS
  <1>3. /\ l.link \in [Attr -> Link]
        /\ m.link = [b \in Attr |->
             IF b = a THEN Loose
             ELSE [l.link[b] EXCEPT !.prev = IF b = n THEN p ELSE @, !.next = IF b = p THEN n ELSE @]]
    BY <1>2 DEF Unlinked, Lists
  <1>4. ASSUME NEW b \in Attr, m.link[b].next # Null PROVE r[b] < r[m.link[b].next]
    <2>1. b # a
      <3>1. m.link[a] = Loose
        BY <1>3
      <3>2. m.link[a].next = Null
        BY <3>1 DEF Loose
      <3>3. QED
        BY <1>4, <3>2
    <2>2. m.link[b].next = IF b = p THEN n ELSE l.link[b].next
      <3>1. m.link[b] = [l.link[b] EXCEPT !.prev = IF b = n THEN p ELSE @, !.next = IF b = p THEN n ELSE @]
        BY <1>3, <2>1
      <3>2. l.link[b] \in Link
        BY <1>3
      <3>3. QED
        BY <3>1, <3>2 DEF Link
    <2>3. CASE b = p
      <3>1. l.link[b].next = a /\ a # Null
        BY <1>2, <2>3, AttrAssumption DEF Consistent
      <3>2. r[b] < r[a]
        BY <1>1, <3>1
      <3>3. n # Null /\ n \in Attr
        BY <1>2, <1>4, <2>2, <2>3, LinkIs
      <3>4. r[a] < r[n]
        BY <1>1, <1>2, <3>3
      <3>5. r[a] \in Nat /\ r[b] \in Nat /\ r[n] \in Nat
        BY <3>3
      <3>6. r[b] < r[n]
        BY ONLY <3>2, <3>4, <3>5
      <3>7. QED
        BY ONLY <2>2, <2>3, <3>6
    <2>4. CASE b # p
      BY <1>1, <1>4, <2>2, <2>4
    <2>5. QED
      BY <2>3, <2>4
  <1>5. QED
    BY <1>2, <1>4 DEF Ordered

\* The lists with a cut off from what stands before it.
CutOff(l, a) ==
  [l EXCEPT !.link = [b \in Attr |->
     IF b = l.link[a].prev THEN [@[b] EXCEPT !.next = Null]
     ELSE IF b = a THEN [@[b] EXCEPT !.prev = Null] ELSE @[b]]]

LEMMA CutFits ==
  ASSUME NEW l \in Lists, Consistent(l), Ordered(l), NEW a \in Attr, NEW m, m = CutOff(l, a),
         l.link[a].prev # Null
  PROVE  /\ m \in Lists /\ Consistent(m) /\ Ordered(m)
         /\ \A f \in Elem : Attributes(m, f) = Attributes(l, f) \ Chain(l, a) /\ m.first[f] = l.first[f]
         /\ \A b \in Attr : m.link[b].parent = l.link[b].parent
         /\ \A b \in Attr : l.link[b] = Loose => m.link[b] = Loose
  <1>1. PICK p : p = l.link[a].prev
    OBVIOUS
  <1>2. /\ p \in Attr /\ l.link[p].next = a /\ Null \notin Attr /\ a # Null
        /\ l.first \in [Elem -> Attr \cup {Null}] /\ l.link \in [Attr -> Link]
    BY <1>1, LinkIs, AttrAssumption DEF Consistent, Lists
  <1>3. /\ m.first = l.first
        /\ m.link = [b \in Attr |-> IF b = p THEN [l.link[b] EXCEPT !.next = Null]
                                    ELSE IF b = a THEN [l.link[b] EXCEPT !.prev = Null] ELSE l.link[b]]
        /\ m = [first |-> m.first, link |-> m.link]
    BY <1>1 DEF CutOff, Lists
  <1>4. p # a
    BY <1>2 DEF Ordered
  <1>5. ASSUME NEW b \in Attr
        PROVE  /\ m.link[b] \in Link
               /\ m.link[b].parent = l.link[b].parent
               /\ m.link[b].next = IF b = p THEN Null ELSE l.link[b].next
               /\ m.link[b].prev = IF b = a THEN Null ELSE l.link[b].prev
    <2>1. l.link[b] \in Link
      BY <1>2
    <2>2. m.link[b] = IF b = p THEN [l.link[b] EXCEPT !.next = Null]
                      ELSE IF b = a THEN [l.link[b] EXCEPT !.prev = Null] ELSE l.link[b]
      BY <1>3
    <2>3. QED
      BY <1>4, <2>1, <2>2 DEF Link
  <1>6. m \in Lists
    <2>1. m.link \in [Attr -> Link]
      BY <1>3, <1>5
    <2>2. QED
      BY <1>2, <1>3, <2>1 DEF Lists
  <1>7. \A b \in Attr : (l.link[b].next = a => b = p) /\ (l.link[b].prev = p => b = a)
    BY <1>1, <1>2 DEF Consistent
  <1>8. Consistent(m)
    <2>1. ASSUME NEW b \in Attr, m.link[b].next # Null
          PROVE  m.link[m.link[b].next].prev = b /\ m.link[m.link[b].next].parent = m.link[b].parent
      <3>1. PICK c : c = l.link[b].next
        OBVIOUS
      <3>2. b # p /\ m.link[b].next = c
        BY <1>5, <2>1, <3>1
      <3>3. c \in Attr /\ l.link[c].prev = b /\ l.link[c].parent = l.link[b].parent /\ c # a
        BY <1>7, <2>1, <3>1, <3>2, LinkIs DEF Consistent
      <3>4. QED
        BY <1>5, <3>2, <3>3
    <2>2. ASSUME NEW b \in Attr, m.link[b].prev # Null
          PROVE  m.link[m.link[b].prev].next = b
      <3>1. PICK c : c = l.link[b].prev
        OBVIOUS
      <3>2. b # a /\ m.link[b].prev = c
        BY <1>5, <2>2, <3>1
      <3>3. c \in Attr /\ l.link[c].next = b /\ c # p
        BY <1>7, <2>2, <3>1, <3>2, LinkIs DEF Consistent
      <3>4. QED
        BY <1>5, <3>2, <3>3
    <2>3. ASSUME NEW f \in Elem, m.first[f] # Null
          PROVE  m.link[m.first[f]].prev = Null /\ m.link[m.first[f]].parent = f
      <3>1. PICK c : c = l.first[f]
        OBVIOUS
      <3>2. m.first[f] = c /\ c \in Attr /\ l.link[c].prev = Null /\ l.link[c].parent = f
        BY <1>2, <1>3, <2>3, <3>1 DEF Consistent
      <3>3. QED
        BY <1>5, <3>2
    <2>4. QED
      BY <2>1, <2>2, <2>3 DEF Consistent
  <1>9. Ordered(m)
    BY <1>5, <1>6, OrderKept
  <1>10. PICK K : K = Chain(l, a)
    OBVIOUS
  <1>11. /\ K \in SUBSET Attr /\ a \in K /\ \A x \in K : Next(l, x) \in K \cup {Null}
         /\ \A x \in K : x # a => l.link[x].prev \in K
    <2>1. a \in Attr \cup {Null}
      OBVIOUS
    <2>2. QED
      BY <1>2, <1>10, <2>1, ChainIs, ChainBack
  <1>12. ASSUME NEW f \in Elem PROVE Attributes(m, f) = Attributes(l, f) \ K
    <2>1. PICK A, M, c : A = Attributes(l, f) /\ M = Attributes(m, f) /\ c = l.first[f]
      OBVIOUS
    <2>2. /\ A \in SUBSET Attr /\ c \in A \cup {Null} /\ c \in Attr \cup {Null} /\ A = Chain(l, c)
          /\ \A x \in A : /\ Next(l, x) \in A \cup {Null}
                          /\ x # c => l.link[x].prev \in A
                          /\ x = c => l.link[x].prev = Null
      BY <2>1, AttributesAre DEF Attributes
    <2>3. /\ M \in SUBSET Attr /\ c \in M \cup {Null} /\ M = Chain(m, c)
          /\ \A x \in M : Next(m, x) \in M \cup {Null}
      BY <1>3, <1>6, <1>8, <2>1, AttributesAre DEF Attributes
    <2>4. c \notin K
      <3>1. SUFFICES ASSUME c \in K PROVE FALSE
        OBVIOUS
      <3>2. c \in A /\ l.link[c].prev = Null /\ c # a
        BY <1>1, <1>2, <1>11, <2>2, <3>1
      <3>3. QED
        BY <1>2, <1>11, <3>1, <3>2
    <2>5. M \subseteq A \ K
      <3>1. PICK C : C = A \ K
        OBVIOUS
      <3>2. C \in SUBSET Attr /\ c \in C \cup {Null}
        BY <2>2, <2>4, <3>1
      <3>3. ASSUME NEW x \in C, Next(m, x) # Null PROVE Next(m, x) \in C
        <4>1. PICK y : y = Next(l, x)
          OBVIOUS
        <4>2. x \in Attr /\ x \in A /\ x \notin K /\ Next(m, x) = y /\ x # p
          BY <1>5, <2>2, <3>1, <3>3, <4>1 DEF Next
        <4>3. y \in A /\ y \in Attr /\ y # a /\ l.link[y].prev = x
          BY <1>7, <2>2, <3>3, <4>1, <4>2 DEF Next, Consistent
        <4>4. y \notin K
          BY <1>11, <4>2, <4>3
        <4>5. QED
          BY <3>1, <4>2, <4>3, <4>4
      <3>4. \A x \in C : Next(m, x) \in C \cup {Null}
        BY <3>3
      <3>5. QED
        BY <1>6, <2>2, <2>3, <3>1, <3>2, <3>4, ChainIs
    <2>6. A \subseteq M \cup K
      <3>1. PICK C : C = {x \in A : x \in M \/ x \in K}
        OBVIOUS
      <3>2. C \in SUBSET Attr /\ c \in C \cup {Null}
        BY <2>2, <2>3, <3>1
      <3>3. ASSUME NEW x \in C, Next(l, x) # Null PROVE Next(l, x) \in C
        <4>1. x \in Attr /\ x \in A /\ Next(l, x) \in A
          BY <2>2, <3>1, <3>3
        <4>2. CASE x \in K
          BY <1>11, <3>1, <3>3, <4>1, <4>2
        <4>3. CASE x = p
          BY <1>2, <1>11, <3>1, <4>1, <4>3 DEF Next
        <4>4. CASE x \notin K /\ x # p
          <5>1. x \in M /\ Next(m, x) = Next(l, x)
            BY <1>5, <3>1, <4>1, <4>4 DEF Next
          <5>2. QED
            BY <2>3, <3>1, <3>3, <4>1, <5>1
        <4>5. QED
          BY <4>2, <4>3, <4>4
      <3>4. \A x \in C : Next(l, x) \in C \cup {Null}
        BY <3>3
      <3>5. A \subseteq C
        BY <2>2, <3>2, <3>4, ChainIs
      <3>6. QED
        BY <3>1, <3>5
    <2>7. QED
      BY <2>1, <2>5, <2>6
  <1>13. ASSUME NEW b \in Attr, l.link[b] = Loose PROVE m.link[b] = Loose
    <2>1. b # a /\ b # p
      BY <1>1, <1>2, <1>13 DEF Loose
    <2>2. QED
      BY <1>3, <1>13, <2>1
  <1>14. QED
    BY <1>3, <1>5, <1>6, <1>8, <1>9, <1>10, <1>12, <1>13

-----------------------------------------------------------------------------
\* Nodes that are there and are not about to be finalized.
Lasting == alive \ doomed

\* What is not there leads nowhere.
NoneLeft ==
  /\ \A a \in Attr \ alive : lists.link[a] = Loose
  /\ \A e \in Elem \ alive : lists.first[e] = Null

\* What lasts leads to what lasts.
LeadsToLasting ==
  /\ \A a \in Attr \cap Lasting :
       {lists.link[a].parent, lists.link[a].next, lists.link[a].prev} \subseteq Lasting \cup {Null}
  /\ \A e \in Elem \cap Lasting : lists.first[e] \in Lasting \cup {Null}

\* The attributes A, called nm and with the contents tx, are what sd says.
Says(A, nm, tx, sd) ==
  \A k \in Key :
    IF sd[k] = Null THEN \A a \in A : nm[a] # k
    ELSE \E a \in A : nm[a] = k /\ tx[a] = sd[k] /\ \A b \in A : nm[b] = k => b = a

AttrTypes ==
  /\ lists \in Lists
  /\ name \in [Attr -> Key]
  /\ text \in [Attr -> Seq(Letter)] /\ \A a \in Attr : Len(text[a]) <= MaxText
  /\ said \in [Elem -> [Key -> Seq(Letter) \cup {Null}]]
  /\ doomed \subseteq alive /\ kept \subseteq alive /\ alive \subseteq Nodes
  /\ kept \cap doomed = {}
  /\ orderly \in BOOLEAN

AttrFits ==
  /\ Consistent(lists) /\ Ordered(lists)
  /\ NoneLeft /\ LeadsToLasting
  /\ \A e \in Elem \ doomed : Says(Attributes(lists, e), name, text, said[e])

AttrInv == AttrTypes /\ (orderly => AttrFits)

-----------------------------------------------------------------------------
\* What script comes by from S.
LEMMA SpreadLeads ==
  ASSUME AttrTypes, NEW S \in SUBSET Nodes
  PROVE  \E G \in [Nodes -> SUBSET Nodes] :
           /\ \A n \in Nodes : G[n] = Leads(n) \ {Null}
           /\ Closes(Spread(S, Leads), Nodes, S, G)
  <1>1. PICK n, G : n = Cardinality(Nodes) /\ G = [x \in Nodes |-> Leads(x) \ {Null}]
    OBVIOUS
  <1>2. Counts(n, Nodes) /\ n \in Nat /\ Null \notin Nodes
    BY <1>1, AttrCounted, AttrAssumption DEF Counts, Nodes
  <1>3. \A x \in Nodes : G[x] = Leads(x) \ {Null} /\ G[x] \in SUBSET Nodes
    <2>1. ASSUME NEW x \in Nodes PROVE Leads(x) \ {Null} \in SUBSET Nodes
      <3>1. CASE x \in Elem
        <4>1. Attributes(lists, x) \in SUBSET Attr
          BY <3>1, ChainIs DEF AttrTypes, Lists, Attributes
        <4>2. QED
          BY <3>1, <4>1 DEF Leads, Nodes
      <3>2. CASE x \in Attr
        BY <3>2, LinkIs, AttrAssumption DEF Leads, Nodes, AttrTypes
      <3>3. QED
        BY <3>1, <3>2 DEF Nodes
    <2>2. QED
      BY <1>1, <2>1
  <1>4. G \in [Nodes -> SUBSET Nodes]
    BY <1>1, <1>3
  <1> DEFINE On(B) == B \cup ((UNION {Leads(x) : x \in B}) \ {Null})
             Widening(s) == s = [i \in 0 .. n |-> IF i = 0 THEN S ELSE On(s[i - 1])]
  <1>5. ASSUME NEW B \in SUBSET Nodes
        PROVE  \A y : y \in On(B) <=> y \in B \/ \E x \in B : y \in G[x]
    <2>1. PICK T : T = {Leads(x) : x \in B}
      OBVIOUS
    <2>2. \A y : y \in UNION T <=> \E x \in B : y \in Leads(x)
      <3>1. \A t : t \in T <=> \E x \in B : t = Leads(x)
        BY <2>1
      <3>2. QED
        BY <3>1
    <2>3. \A x \in B : G[x] = Leads(x) \ {Null} /\ Null \notin B
      BY <1>2, <1>3
    <2>4. On(B) = B \cup ((UNION T) \ {Null})
      BY ONLY <2>1
    <2> HIDE DEF On
    <2>5. QED
      BY ONLY <2>2, <2>3, <2>4
  <1> HIDE DEF On
  <1>6. PICK f \in [0 .. n -> SUBSET Nodes] : Spreads(f, Nodes, S, G, n)
    BY <1>2, <1>4, SpreadExists
  <1>7. Widening(f)
    <2>1. ASSUME NEW i \in 0 .. n PROVE f[i] = IF i = 0 THEN S ELSE On(f[i - 1])
      <3>1. CASE i = 0
        BY <1>6, <3>1 DEF Spreads
      <3>2. CASE i # 0
        <4>1. i \in 1 .. n /\ i - 1 \in 0 .. n
          BY <1>2, <3>2
        <4>2. f[i - 1] \in SUBSET Nodes
          BY <1>6, <4>1
        <4>3. \A y : y \in f[i] <=> y \in f[i - 1] \/ \E x \in f[i - 1] : y \in G[x]
          BY <1>6, <4>1, <4>2 DEF Spreads
        <4>4. \A y : y \in f[i] <=> y \in On(f[i - 1])
          BY ONLY <1>5, <4>2, <4>3
        <4>5. f[i] = On(f[i - 1])
          BY ONLY <4>4
        <4>6. QED
          BY ONLY <3>2, <4>5
      <3>3. QED
        BY <3>1, <3>2
    <2>2. f = [i \in 0 .. n |-> f[i]]
      BY <1>6
    <2>3. QED
      BY ONLY <2>1, <2>2
  <1>8. PICK h : h = CHOOSE s : Widening(s)
    OBVIOUS
  <1>9. Widening(h)
    BY ONLY <1>7, <1>8
  <1>10. Spreads(h, Nodes, S, G, n)
    <2>1. \A j \in 0 .. n : h[j] = IF j = 0 THEN S ELSE On(h[j - 1])
      BY ONLY <1>9
    <2>2. h[0] = S
      BY <1>2, <2>1
    <2>3. ASSUME NEW i \in 1 .. n, h[i - 1] \in SUBSET Nodes
          PROVE  \A y : y \in h[i] <=> y \in h[i - 1] \/ \E x \in h[i - 1] : y \in G[x]
      <3>1. i \in 0 .. n /\ i # 0
        BY <1>2
      <3>2. h[i] = On(h[i - 1])
        BY ONLY <2>1, <3>1
      <3>3. QED
        BY ONLY <1>5, <2>3, <3>2
    <2>4. QED
      BY <2>2, <2>3 DEF Spreads
  <1>11. Spread(S, Leads) = h[n]
    BY ONLY <1>1, <1>8 DEF Spread, On
  <1>12. Closes(h[n], Nodes, S, G)
    <2>1. Counts(n, Nodes) /\ S \in SUBSET Nodes
      BY ONLY <1>2, S \in SUBSET Nodes
    <2>2. QED
      BY ONLY <1>4, <1>10, <2>1, SpreadEnds
  <1>13. QED
    BY ONLY <1>3, <1>4, <1>11, <1>12

\* What is marked from S.
LEMMA SpreadMarked ==
  ASSUME AttrTypes, NEW S \in SUBSET Nodes
  PROVE  \E G \in [Nodes -> SUBSET Nodes] :
           /\ \A n \in Nodes : G[n] = MarkedBy(n) \ {Null}
           /\ Closes(Spread(S, MarkedBy), Nodes, S, G)
  <1>1. PICK n, G : n = Cardinality(Nodes) /\ G = [x \in Nodes |-> MarkedBy(x) \ {Null}]
    OBVIOUS
  <1>2. Counts(n, Nodes) /\ n \in Nat /\ Null \notin Nodes
    BY <1>1, AttrCounted, AttrAssumption DEF Counts, Nodes
  <1>3. \A x \in Nodes : G[x] = MarkedBy(x) \ {Null} /\ G[x] \in SUBSET Nodes
    <2>1. ASSUME NEW x \in Nodes PROVE MarkedBy(x) \ {Null} \in SUBSET Nodes
      <3>1. CASE x \in Elem
        BY <3>1 DEF MarkedBy, Nodes, AttrTypes, Lists
      <3>2. CASE x \in Attr
        BY <3>2, LinkIs, AttrAssumption DEF MarkedBy, Nodes, AttrTypes
      <3>3. QED
        BY <3>1, <3>2 DEF Nodes
    <2>2. QED
      BY <1>1, <2>1
  <1>4. G \in [Nodes -> SUBSET Nodes]
    BY <1>1, <1>3
  <1> DEFINE On(B) == B \cup ((UNION {MarkedBy(x) : x \in B}) \ {Null})
             Widening(s) == s = [i \in 0 .. n |-> IF i = 0 THEN S ELSE On(s[i - 1])]
  <1>5. ASSUME NEW B \in SUBSET Nodes
        PROVE  \A y : y \in On(B) <=> y \in B \/ \E x \in B : y \in G[x]
    <2>1. PICK T : T = {MarkedBy(x) : x \in B}
      OBVIOUS
    <2>2. \A y : y \in UNION T <=> \E x \in B : y \in MarkedBy(x)
      <3>1. \A t : t \in T <=> \E x \in B : t = MarkedBy(x)
        BY <2>1
      <3>2. QED
        BY <3>1
    <2>3. \A x \in B : G[x] = MarkedBy(x) \ {Null} /\ Null \notin B
      BY <1>2, <1>3
    <2>4. On(B) = B \cup ((UNION T) \ {Null})
      BY ONLY <2>1
    <2> HIDE DEF On
    <2>5. QED
      BY ONLY <2>2, <2>3, <2>4
  <1> HIDE DEF On
  <1>6. PICK f \in [0 .. n -> SUBSET Nodes] : Spreads(f, Nodes, S, G, n)
    BY <1>2, <1>4, SpreadExists
  <1>7. Widening(f)
    <2>1. ASSUME NEW i \in 0 .. n PROVE f[i] = IF i = 0 THEN S ELSE On(f[i - 1])
      <3>1. CASE i = 0
        BY <1>6, <3>1 DEF Spreads
      <3>2. CASE i # 0
        <4>1. i \in 1 .. n /\ i - 1 \in 0 .. n
          BY <1>2, <3>2
        <4>2. f[i - 1] \in SUBSET Nodes
          BY <1>6, <4>1
        <4>3. \A y : y \in f[i] <=> y \in f[i - 1] \/ \E x \in f[i - 1] : y \in G[x]
          BY <1>6, <4>1, <4>2 DEF Spreads
        <4>4. \A y : y \in f[i] <=> y \in On(f[i - 1])
          BY ONLY <1>5, <4>2, <4>3
        <4>5. f[i] = On(f[i - 1])
          BY ONLY <4>4
        <4>6. QED
          BY ONLY <3>2, <4>5
      <3>3. QED
        BY <3>1, <3>2
    <2>2. f = [i \in 0 .. n |-> f[i]]
      BY <1>6
    <2>3. QED
      BY ONLY <2>1, <2>2
  <1>8. PICK h : h = CHOOSE s : Widening(s)
    OBVIOUS
  <1>9. Widening(h)
    BY ONLY <1>7, <1>8
  <1>10. Spreads(h, Nodes, S, G, n)
    <2>1. \A j \in 0 .. n : h[j] = IF j = 0 THEN S ELSE On(h[j - 1])
      BY ONLY <1>9
    <2>2. h[0] = S
      BY <1>2, <2>1
    <2>3. ASSUME NEW i \in 1 .. n, h[i - 1] \in SUBSET Nodes
          PROVE  \A y : y \in h[i] <=> y \in h[i - 1] \/ \E x \in h[i - 1] : y \in G[x]
      <3>1. i \in 0 .. n /\ i # 0
        BY <1>2
      <3>2. h[i] = On(h[i - 1])
        BY ONLY <2>1, <3>1
      <3>3. QED
        BY ONLY <1>5, <2>3, <3>2
    <2>4. QED
      BY <2>2, <2>3 DEF Spreads
  <1>11. Spread(S, MarkedBy) = h[n]
    BY ONLY <1>1, <1>8 DEF Spread, On
  <1>12. Closes(h[n], Nodes, S, G)
    <2>1. Counts(n, Nodes) /\ S \in SUBSET Nodes
      BY ONLY <1>2, S \in SUBSET Nodes
    <2>2. QED
      BY ONLY <1>4, <1>10, <2>1, SpreadEnds
  <1>13. QED
    BY ONLY <1>3, <1>4, <1>11, <1>12

\* Script comes by nothing but what lasts.
LEMMA AtHandLasts ==
  ASSUME AttrTypes, AttrFits
  PROVE  kept \subseteq AtHand /\ AtHand \subseteq Lasting /\ Lasting \subseteq Nodes /\ AtHand \subseteq alive
  <1>1. Lasting \subseteq Nodes /\ kept \subseteq Lasting
    BY DEF AttrTypes, Lasting
  <1>2. kept \in SUBSET Nodes
    BY <1>1
  <1>3. PICK G \in [Nodes -> SUBSET Nodes] :
          (\A n \in Nodes : G[n] = Leads(n) \ {Null}) /\ Closes(AtHand, Nodes, kept, G)
    BY <1>2, SpreadLeads DEF AtHand
  <1>4. \A n \in Lasting : G[n] \subseteq Lasting
    <2>1. ASSUME NEW n \in Lasting, n \in Attr PROVE Leads(n) \ {Null} \subseteq Lasting
      <3>1. n \notin Elem
        BY <2>1, AttrAssumption
      <3>2. QED
        BY <2>1, <3>1 DEF Leads, AttrFits, LeadsToLasting
    <2>2. ASSUME NEW n \in Lasting, n \in Elem PROVE Leads(n) \ {Null} \subseteq Lasting
      <3>1. PICK C, c : C = Attr \cap Lasting /\ c = lists.first[n]
        OBVIOUS
      <3>2. c \in Attr \cup {Null} /\ c \in Lasting \cup {Null}
        BY <2>2, <3>1 DEF AttrTypes, Lists, AttrFits, LeadsToLasting
      <3>3. \A b \in C : Next(lists, b) \in C \cup {Null}
        BY <3>1, LinkIs DEF AttrTypes, AttrFits, LeadsToLasting, Next
      <3>4. Chain(lists, c) \subseteq C
        BY <3>1, <3>2, <3>3, ChainIs DEF AttrTypes
      <3>5. QED
        BY <2>2, <3>1, <3>4 DEF Leads, Attributes
    <2>3. QED
      BY <1>1, <1>3, <2>1, <2>2 DEF Nodes
  <1>5. Lasting \in SUBSET Nodes /\ kept \subseteq Lasting /\ (\A n \in Lasting : G[n] \subseteq Lasting)
    BY <1>1, <1>4
  <1>6. QED
    BY <1>3, <1>5 DEF Closes, Lasting

\* When no collection is under way, it is enough that neighbours are
\* consistent, that nothing leads from what is not there, and that parents
\* are there.
LEMMA LeadsKept ==
  ASSUME NEW l \in Lists, Consistent(l), NEW A \in SUBSET Nodes,
         \A a \in Attr \ A : l.link[a] = Loose,
         \A a \in Attr \cap A : l.link[a].parent \in A \cup {Null}
  PROVE  /\ \A a \in Attr \cap A : {l.link[a].parent, l.link[a].next, l.link[a].prev} \subseteq A \cup {Null}
         /\ \A e \in Elem \cap A : l.first[e] \in A \cup {Null}
  <1>1. Null \notin Attr /\ Null \notin Elem
    BY AttrAssumption
  <1>2. ASSUME NEW a \in Attr \cap A, NEW c, c \in {l.link[a].next, l.link[a].prev}, c # Null
        PROVE  c \in A
    <2>1. c \in Attr
      BY <1>2, LinkIs
    <2>2. l.link[c].prev = a \/ l.link[c].next = a
      BY <1>2, <2>1 DEF Consistent
    <2>3. l.link[c] # Loose
      BY <1>1, <2>2 DEF Loose
    <2>4. QED
      BY <2>1, <2>3
  <1>3. ASSUME NEW e \in Elem \cap A, l.first[e] # Null PROVE l.first[e] \in A
    <2>1. l.first[e] \in Attr /\ l.link[l.first[e]].parent = e
      BY <1>3 DEF Lists, Consistent
    <2>2. l.link[l.first[e]] # Loose
      BY <1>1, <2>1 DEF Loose
    <2>3. QED
      BY <2>1, <2>2
  <1>4. QED
    BY <1>2, <1>3

-----------------------------------------------------------------------------
(* What script said of the attributes of an element *)

LEMMA SaysSame ==
  ASSUME NEW A, NEW nm, NEW tx, NEW sd, Says(A, nm, tx, sd),
         NEW n2, NEW t2, \A a \in A : n2[a] = nm[a] /\ t2[a] = tx[a]
  PROVE  Says(A, n2, t2, sd)
  BY DEF Says

\* The attributes C have left.
LEMMA SaysLess ==
  ASSUME NEW A, NEW nm, NEW tx, NEW sd, Says(A, nm, tx, sd), NEW C, NEW s2,
         \A k \in Key : s2[k] = IF \E a \in C \cap A : nm[a] = k THEN Null ELSE sd[k]
  PROVE  Says(A \ C, nm, tx, s2)
  <1> SUFFICES ASSUME NEW k \in Key
               PROVE  IF s2[k] = Null THEN \A a \in A \ C : nm[a] # k
                      ELSE \E a \in A \ C : nm[a] = k /\ tx[a] = s2[k] /\ \A b \in A \ C : nm[b] = k => b = a
    BY DEF Says
  <1>1. IF sd[k] = Null THEN \A a \in A : nm[a] # k
        ELSE \E a \in A : nm[a] = k /\ tx[a] = sd[k] /\ \A b \in A : nm[b] = k => b = a
    BY DEF Says
  <1>2. CASE \E a \in C \cap A : nm[a] = k
    <2>1. s2[k] = Null
      BY <1>2
    <2>2. QED
      BY <1>1, <1>2, <2>1
  <1>3. CASE ~ \E a \in C \cap A : nm[a] = k
    <2>1. s2[k] = sd[k]
      BY <1>3
    <2>2. QED
      BY <1>1, <1>3, <2>1
  <1>4. QED
    BY <1>2, <1>3

\* There is an attribute a more, called k, with the content t.
LEMMA SaysMore ==
  ASSUME NEW A, NEW nm, NEW tx, NEW sd, Says(A, nm, tx, sd),
         NEW a, a \notin A, NEW n2, NEW t2, \A b \in A : n2[b] = nm[b] /\ t2[b] = tx[b],
         NEW k, \A b \in A : nm[b] # k,
         n2[a] = k, NEW t, t2[a] = t, t # Null,
         NEW s2, \A j \in Key : s2[j] = IF j = k THEN t ELSE sd[j]
  PROVE  Says(A \cup {a}, n2, t2, s2)
  <1> SUFFICES ASSUME NEW j \in Key
               PROVE  IF s2[j] = Null THEN \A b \in A \cup {a} : n2[b] # j
                      ELSE \E c \in A \cup {a} : n2[c] = j /\ t2[c] = s2[j] /\ \A b \in A \cup {a} : n2[b] = j => b = c
    BY DEF Says
  <1>1. IF sd[j] = Null THEN \A b \in A : nm[b] # j
        ELSE \E c \in A : nm[c] = j /\ tx[c] = sd[j] /\ \A b \in A : nm[b] = j => b = c
    BY DEF Says
  <1>2. CASE j = k
    <2>1. s2[j] = t
      BY <1>2
    <2>2. QED
      BY <1>2, <2>1
  <1>3. CASE j # k
    <2>1. s2[j] = sd[j]
      BY <1>3
    <2>2. CASE sd[j] = Null
      BY <1>1, <1>3, <2>1, <2>2
    <2>3. CASE sd[j] # Null
      <3>1. PICK c \in A : nm[c] = j /\ tx[c] = sd[j] /\ \A b \in A : nm[b] = j => b = c
        BY <1>1, <2>3
      <3>2. n2[c] = j /\ t2[c] = s2[j] /\ \A b \in A \cup {a} : n2[b] = j => b = c
        BY <1>3, <2>1, <3>1
      <3>3. QED
        BY <2>1, <2>3, <3>1, <3>2
    <2>4. QED
      BY <2>2, <2>3
  <1>4. QED
    BY <1>2, <1>3

\* The attribute a has other contents.
LEMMA SaysWritten ==
  ASSUME NEW A, NEW nm, NEW tx, NEW sd, Says(A, nm, tx, sd),
         NEW a, NEW t2, \A b \in A : b # a => t2[b] = tx[b], t2[a] # Null,
         NEW s2, \A j \in Key : s2[j] = IF a \in A /\ nm[a] = j THEN t2[a] ELSE sd[j]
  PROVE  Says(A, nm, t2, s2)
  <1> SUFFICES ASSUME NEW j \in Key
               PROVE  IF s2[j] = Null THEN \A b \in A : nm[b] # j
                      ELSE \E c \in A : nm[c] = j /\ t2[c] = s2[j] /\ \A b \in A : nm[b] = j => b = c
    BY DEF Says
  <1>1. IF sd[j] = Null THEN \A b \in A : nm[b] # j
        ELSE \E c \in A : nm[c] = j /\ tx[c] = sd[j] /\ \A b \in A : nm[b] = j => b = c
    BY DEF Says
  <1>2. CASE a \in A /\ nm[a] = j
    <2>1. s2[j] = t2[a] /\ s2[j] # Null
      BY <1>2
    <2>2. \A b \in A : nm[b] = j => b = a
      BY <1>1, <1>2
    <2>3. QED
      BY <1>2, <2>1, <2>2
  <1>3. CASE ~(a \in A /\ nm[a] = j)
    <2>1. s2[j] = sd[j]
      BY <1>3
    <2>2. QED
      BY <1>1, <1>3, <2>1
  <1>4. QED
    BY <1>2, <1>3

-----------------------------------------------------------------------------
(* Steps *)

\* When no collection is under way.
LEMMA TurnFits ==
  ASSUME AttrTypes', doomed' = {}, Consistent(lists'), Ordered(lists'), NoneLeft',
         \A a \in Attr \cap alive' : lists'.link[a].parent \in alive' \cup {Null},
         \A e \in Elem : Says(Attributes(lists', e), name', text', said'[e])
  PROVE  AttrFits'
  <1>1. PICK l, A : l = lists' /\ A = alive'
    OBVIOUS
  <1>2. /\ l \in Lists /\ Consistent(l) /\ A \in SUBSET Nodes
        /\ \A a \in Attr \ A : l.link[a] = Loose
        /\ \A a \in Attr \cap A : l.link[a].parent \in A \cup {Null}
    BY <1>1 DEF AttrTypes, NoneLeft
  <1>3. /\ \A a \in Attr \cap A : {l.link[a].parent, l.link[a].next, l.link[a].prev} \subseteq A \cup {Null}
        /\ \A e \in Elem \cap A : l.first[e] \in A \cup {Null}
    BY ONLY <1>2, LeadsKept
  <1>4. Lasting' = A
    BY <1>1 DEF Lasting
  <1>5. LeadsToLasting'
    BY <1>1, <1>3, <1>4 DEF LeadsToLasting
  <1>6. QED
    BY <1>5 DEF AttrFits

LEMMA TurnIs ==
  ASSUME AttrInv, Turn
  PROVE  /\ orderly = TRUE /\ doomed = {} /\ Lasting = alive
         /\ AttrTypes /\ AttrFits
         /\ AtHand \subseteq alive /\ kept \subseteq AtHand
         /\ Null \notin Attr /\ Null \notin Elem /\ Elem \cap Attr = {}
         /\ \A a \in Attr : lists.link[a].parent \in alive \cup {Null}
         /\ \A e \in Elem : Says(Attributes(lists, e), name, text, said[e])
         /\ \A a \in Attr : text[a] # Null
  <1>1. orderly = TRUE /\ doomed = {} /\ Lasting = alive /\ AttrTypes /\ AttrFits
    BY DEF Turn, AttrInv, Lasting
  <1>2. AtHand \subseteq alive /\ kept \subseteq AtHand
    BY <1>1, AtHandLasts
  <1>3. Null \notin Attr /\ Null \notin Elem /\ Elem \cap Attr = {}
    BY AttrAssumption
  <1>4. ASSUME NEW a \in Attr PROVE lists.link[a].parent \in alive \cup {Null}
    <2>1. CASE a \in alive
      BY <1>1, <2>1 DEF AttrFits, LeadsToLasting
    <2>2. CASE a \notin alive
      BY <1>1, <2>2 DEF AttrFits, NoneLeft, Loose
    <2>3. QED
      BY <2>1, <2>2
  <1>5. \A e \in Elem : Says(Attributes(lists, e), name, text, said[e])
    BY <1>1 DEF AttrFits
  <1>6. \A a \in Attr : text[a] # Null
    BY <1>1, AttrAssumption DEF AttrTypes
  <1>7. QED
    BY <1>1, <1>2, <1>3, <1>4, <1>5, <1>6

\* An attribute that is not there is loose and in no list.
LEMMA AbsentIs ==
  ASSUME AttrTypes, AttrFits, NEW a \in Attr \ alive
  PROVE  lists.link[a] = Loose /\ \A e \in Elem : a \notin Attributes(lists, e)
  <1>1. lists.link[a] = Loose
    BY DEF AttrFits, NoneLeft
  <1>2. lists.link[a].parent = Null /\ Null \notin Elem
    BY <1>1, AttrAssumption DEF Loose
  <1>3. QED
    BY <1>1, <1>2, AttributesAre DEF AttrTypes, AttrFits

LEMMA WordIs ==
  ASSUME NEW t \in Words
  PROVE  t \in Seq(Letter) /\ t # Null /\ Len(t) <= MaxText
  BY AttrAssumption

LEMMA NewElementFits ==
  ASSUME AttrInv, NEW e \in Elem, NewElement(e)
  PROVE  AttrInv'
  <1>1. Turn /\ alive' = alive \cup {e} /\ kept' = kept \cup {e}
        /\ UNCHANGED <<lists, name, text, doomed, orderly, said>>
    BY DEF NewElement
  <1>2. /\ orderly = TRUE /\ doomed = {} /\ AttrTypes /\ AttrFits
        /\ \A a \in Attr : lists.link[a].parent \in alive \cup {Null}
        /\ \A f \in Elem : Says(Attributes(lists, f), name, text, said[f])
    BY <1>1, TurnIs
  <1>3. AttrTypes'
    BY <1>1, <1>2 DEF AttrTypes, Nodes
  <1>4. NoneLeft' /\ Consistent(lists') /\ Ordered(lists') /\ doomed' = {}
    BY <1>1, <1>2 DEF AttrFits, NoneLeft
  <1>5. AttrFits'
    <2>1. \A a \in Attr \cap alive' : lists'.link[a].parent \in alive' \cup {Null}
      BY <1>1, <1>2
    <2>2. \A f \in Elem : Says(Attributes(lists', f), name', text', said'[f])
      BY <1>1, <1>2
    <2>3. QED
      BY ONLY <1>3, <1>4, <2>1, <2>2, TurnFits
  <1>6. QED
    BY <1>3, <1>5 DEF AttrInv

\* What comes to be has its types.
LEMMA BornTypes ==
  ASSUME AttrTypes, AttrFits, doomed = {}, NEW a, NEW k \in Key, NEW t \in Words, Born(a, k, t),
         lists' \in Lists, kept' \subseteq kept \cup {a},
         said' \in [Elem -> [Key -> Seq(Letter) \cup {Null}]], orderly' \in BOOLEAN
  PROVE  /\ AttrTypes' /\ a \in Attr \ alive /\ doomed' = {}
         /\ name'[a] = k /\ text'[a] = t /\ t # Null
         /\ \A b \in Attr : b # a => name'[b] = name[b] /\ text'[b] = text[b]
         /\ alive' = alive \cup {a}
  <1>1. /\ a \in Attr \ alive /\ alive' = alive \cup {a} /\ doomed' = {}
        /\ name' = [name EXCEPT ![a] = k] /\ text' = [text EXCEPT ![a] = t]
    BY DEF Born
  <1>2. t \in Seq(Letter) /\ t # Null /\ Len(t) <= MaxText
    BY WordIs
  <1>3. /\ name \in [Attr -> Key] /\ text \in [Attr -> Seq(Letter)]
        /\ \A b \in Attr : Len(text[b]) <= MaxText
    BY DEF AttrTypes
  <1>4. /\ name' \in [Attr -> Key] /\ text' \in [Attr -> Seq(Letter)]
        /\ name'[a] = k /\ text'[a] = t
        /\ \A b \in Attr : b # a => name'[b] = name[b] /\ text'[b] = text[b]
    BY <1>1, <1>2, <1>3
  <1>5. \A b \in Attr : Len(text'[b]) <= MaxText
    BY <1>2, <1>3, <1>4
  <1>6. kept' \subseteq alive' /\ alive' \subseteq Nodes /\ doomed' \subseteq alive' /\ kept' \cap doomed' = {}
    BY <1>1 DEF AttrTypes, Nodes
  <1>7. AttrTypes'
    BY <1>4, <1>5, <1>6 DEF AttrTypes
  <1>8. QED
    BY <1>1, <1>2, <1>4, <1>7

LEMMA NewAttributeFits ==
  ASSUME AttrInv, NEW a \in Attr, NEW k \in Names, NEW t \in Words, NewAttribute(a, k, t)
  PROVE  AttrInv'
  <1>1. Turn /\ Born(a, k, t) /\ kept' = kept \cup {a} /\ UNCHANGED <<lists, orderly, said>> /\ k \in Key
    BY DEF NewAttribute, Key
  <1>2. /\ orderly = TRUE /\ doomed = {} /\ AttrTypes /\ AttrFits
        /\ \A b \in Attr : lists.link[b].parent \in alive \cup {Null}
        /\ \A f \in Elem : Says(Attributes(lists, f), name, text, said[f])
    BY <1>1, TurnIs
  <1>3. /\ AttrTypes' /\ a \in Attr \ alive /\ doomed' = {}
        /\ \A b \in Attr : b # a => name'[b] = name[b] /\ text'[b] = text[b]
        /\ alive' = alive \cup {a}
    <2>1. /\ lists' \in Lists /\ kept' \subseteq kept \cup {a}
          /\ said' \in [Elem -> [Key -> Seq(Letter) \cup {Null}]] /\ orderly' \in BOOLEAN
      BY <1>1, <1>2 DEF AttrTypes
    <2>2. k \in Key
      BY <1>1
    <2>3. QED
      BY <1>1, <1>2, <2>1, <2>2, BornTypes
  <1>4. NoneLeft' /\ Consistent(lists') /\ Ordered(lists')
    BY <1>1, <1>2, <1>3 DEF AttrFits, NoneLeft
  <1>5. ASSUME NEW f \in Elem PROVE Says(Attributes(lists', f), name', text', said'[f])
    <2>1. PICK A : A = Attributes(lists, f)
      OBVIOUS
    <2>2. a \notin A /\ A \in SUBSET Attr
      BY <1>2, <1>3, <2>1, AbsentIs, AttributesAre DEF AttrTypes, AttrFits
    <2>3. Says(A, name, text, said[f]) /\ \A b \in A : name'[b] = name[b] /\ text'[b] = text[b]
      BY <1>2, <1>3, <2>1, <2>2
    <2>4. Says(A, name', text', said[f])
      BY <2>3, SaysSame
    <2>5. QED
      BY <1>1, <2>1, <2>4
  <1>6. AttrFits'
    <2>1. \A b \in Attr \cap alive' : lists'.link[b].parent \in alive' \cup {Null}
      BY <1>1, <1>2, <1>3
    <2>2. QED
      BY <1>3, <1>4, <1>5, <2>1, TurnFits
  <1>7. QED
    BY <1>3, <1>6 DEF AttrInv

\* What an appended attribute does to the lists and to what script said.
LEMMA AppendedSays ==
  ASSUME AttrInv, Turn, NEW e \in Elem, e \in alive, NEW a, NEW k \in Key, NEW t \in Words, Born(a, k, t),
         kept' \subseteq kept \cup {a}, orderly' \in BOOLEAN,
         lists' = Appended(lists, e, a), said' = [said EXCEPT ![e][k] = t]
  PROVE  AttrTypes' /\ (Found(e, k) = {} => AttrFits')
  <1>1. /\ orderly = TRUE /\ doomed = {} /\ AttrTypes /\ AttrFits
        /\ \A b \in Attr : lists.link[b].parent \in alive \cup {Null}
        /\ \A f \in Elem : Says(Attributes(lists, f), name, text, said[f])
    BY TurnIs
  <1>2. a \in Attr \ alive
    BY DEF Born
  <1>3. lists \in Lists /\ Consistent(lists) /\ Ordered(lists) /\ lists.link[a] = Loose
    BY <1>1, <1>2, AbsentIs DEF AttrTypes, AttrFits
  <1>4. PICK m : m = lists'
    OBVIOUS
  <1>5. /\ m \in Lists /\ Consistent(m)
        /\ a \notin Attributes(lists, e)
        /\ Attributes(m, e) = Attributes(lists, e) \cup {a}
        /\ \A f \in Elem : f # e => Attributes(m, f) = Attributes(lists, f) /\ a \notin Attributes(lists, f)
                                    /\ m.first[f] = lists.first[f]
        /\ m.link[a].parent = e
        /\ \A b \in Attr : b # a => m.link[b].parent = lists.link[b].parent
        /\ \A b \in Attr : b # a /\ lists.link[b] = Loose => m.link[b] = Loose
    BY <1>2, <1>3, <1>4, AppendedFits
  <1>6. Ordered(m)
    BY <1>2, <1>3, <1>4, AppendedOrdered
  <1>7. t \in Seq(Letter) /\ t # Null
    BY WordIs
  <1>8. /\ said' \in [Elem -> [Key -> Seq(Letter) \cup {Null}]]
        /\ \A f \in Elem : f # e => said'[f] = said[f]
        /\ \A j \in Key : said'[e][j] = IF j = k THEN t ELSE said[e][j]
    BY <1>1, <1>7 DEF AttrTypes
  <1>9. /\ AttrTypes' /\ doomed' = {}
        /\ name'[a] = k /\ text'[a] = t
        /\ \A b \in Attr : b # a => name'[b] = name[b] /\ text'[b] = text[b]
        /\ alive' = alive \cup {a}
    <2>1. /\ AttrTypes /\ AttrFits /\ doomed = {} /\ k \in Key /\ t \in Words /\ Born(a, k, t)
          /\ lists' \in Lists /\ kept' \subseteq kept \cup {a}
          /\ said' \in [Elem -> [Key -> Seq(Letter) \cup {Null}]] /\ orderly' \in BOOLEAN
      BY <1>1, <1>4, <1>5, <1>8
    <2>2. QED
      BY ONLY <2>1, BornTypes
  <1>10. ASSUME Found(e, k) = {} PROVE AttrFits'
    <2>1. NoneLeft'
      BY <1>1, <1>4, <1>5, <1>9 DEF AttrFits, NoneLeft
    <2>2. \A b \in Attr \cap alive' : lists'.link[b].parent \in alive' \cup {Null}
      BY <1>1, <1>4, <1>5, <1>9
    <2>3. ASSUME NEW f \in Elem PROVE Says(Attributes(lists', f), name', text', said'[f])
      <3>1. PICK A : A = Attributes(lists, f)
        OBVIOUS
      <3>2. a \notin A /\ A \in SUBSET Attr /\ Says(A, name, text, said[f])
        BY <1>1, <1>2, <1>3, <3>1, AbsentIs, AttributesAre
      <3>3. \A b \in A : name'[b] = name[b] /\ text'[b] = text[b]
        BY <1>9, <3>2
      <3>4. CASE f = e
        <4>1. \A b \in A : name[b] # k
          BY <1>10, <3>1, <3>4 DEF Found
        <4>2. /\ Says(A, name, text, said[e]) /\ a \notin A /\ name'[a] = k /\ text'[a] = t /\ t # Null
              /\ \A j \in Key : said'[e][j] = IF j = k THEN t ELSE said[e][j]
          BY <1>7, <1>8, <1>9, <3>2, <3>4
        <4>3. PICK s, n2, t2, s2 : s = said[e] /\ n2 = name' /\ t2 = text' /\ s2 = said'[e]
          OBVIOUS
        <4>4. /\ Says(A, name, text, s) /\ a \notin A /\ n2[a] = k /\ t2[a] = t /\ t # Null
              /\ \A b \in A : n2[b] = name[b] /\ t2[b] = text[b]
              /\ \A j \in Key : s2[j] = IF j = k THEN t ELSE s[j]
          BY ONLY <3>3, <4>2, <4>3
        <4>5. Says(A \cup {a}, n2, t2, s2)
          BY ONLY <4>1, <4>4, SaysMore
        <4>6. QED
          BY <1>4, <1>5, <3>1, <3>4, <4>3, <4>5
      <3>5. CASE f # e
        <4>1. Says(A, name', text', said[f])
          BY <3>2, <3>3, SaysSame
        <4>2. QED
          BY <1>4, <1>5, <1>8, <3>1, <3>5, <4>1
      <3>6. QED
        BY <3>4, <3>5
    <2>4. QED
      BY <1>4, <1>5, <1>6, <1>9, <2>1, <2>2, <2>3, TurnFits
  <1>11. QED
    BY <1>9, <1>10

LEMMA NewAttributeOfFits ==
  ASSUME AttrInv, NEW e \in Elem, e \in AtHand, NEW a, NEW k \in Names, NEW t \in Words,
         NewAttributeOf(e, a, k, t)
  PROVE  AttrInv'
  <1>1. /\ Turn /\ Born(a, k, t) /\ kept' = kept \cup {a} /\ k \in Key
        /\ lists' = Appended(lists, e, a) /\ orderly' = (Found(e, k) = {})
        /\ said' = [said EXCEPT ![e][k] = t]
    BY DEF NewAttributeOf, Key
  <1>2. e \in alive
    BY <1>1, TurnIs
  <1>3. kept' \subseteq kept \cup {a} /\ orderly' \in BOOLEAN /\ k \in Key
    BY <1>1
  <1>4. AttrTypes' /\ (Found(e, k) = {} => AttrFits')
    BY <1>1, <1>2, <1>3, AppendedSays
  <1>5. QED
    BY <1>1, <1>4 DEF AttrInv

\* Where an element is given an attribute of a name that it has, the one it
\* has goes.
LEMMA PurgedIs ==
  ASSUME AttrInv, Turn, NEW e \in Elem, NEW a, NEW k \in Key, NEW t \in Words, Born(a, k, t),
         NEW m, m = Appended(lists, e, a)
  PROVE  \/ Found(e, k) = {} /\ Purged(m, e, name') = m
         \/ \E x \in Attr : Found(e, k) = {x} /\ x # a /\ Purged(m, e, name') = Unlinked(m, x)
  <1>1. /\ AttrTypes /\ AttrFits /\ Says(Attributes(lists, e), name, text, said[e])
    BY TurnIs
  <1>2. /\ a \in Attr \ alive /\ name' = [name EXCEPT ![a] = k]
        /\ name \in [Attr -> Key]
    BY <1>1 DEF Born, AttrTypes
  <1>3. lists \in Lists /\ Consistent(lists) /\ lists.link[a] = Loose
    BY <1>1, <1>2, AbsentIs DEF AttrTypes, AttrFits
  <1>4. PICK A, M : A = Attributes(lists, e) /\ M = Attributes(m, e)
    OBVIOUS
  <1>5. /\ m \in Lists /\ Consistent(m)
        /\ a \notin A /\ M = A \cup {a}
        /\ \A x \in A : a \in Chain(m, Next(m, x))
        /\ Next(m, a) = Null
    BY <1>2, <1>3, <1>4, AppendedFits
  <1>6. A \in SUBSET Attr
    BY <1>3, <1>4, AttributesAre
  <1>7. name'[a] = k /\ \A x \in A : name'[x] = name[x] /\ name[x] \in Key
    BY <1>2, <1>5, <1>6
  <1>8. \A x, y \in A : name[x] = name[y] => x = y
    BY <1>1, <1>4, <1>7 DEF Says
  <1>9. ASSUME NEW x \in M PROVE Chain(m, Next(m, x)) \subseteq M \ {x}
    <2>1. x \notin Chain(m, Next(m, x)) /\ Next(m, x) \in M \cup {Null}
      BY <1>4, <1>5, AttributesAre
    <2>2. PICK c : c = m.first[e]
      OBVIOUS
    <2>3. c \in Attr /\ M = Chain(m, c)
      BY <1>4, <1>5, <2>2, AttributesAre DEF Attributes
    <2>4. x \in Chain(m, c)
      BY <2>3
    <2>5. Chain(m, Next(m, x)) \subseteq M
      BY <1>5, <2>3, <2>4, ChainGoesOn
    <2>6. QED
      BY <2>1, <2>5
  <1>10. PICK twice : twice = {x \in M : \E b \in Chain(m, m.link[x].next) : name'[b] = name'[x]}
    OBVIOUS
  <1>11. twice = Found(e, k)
    <2>1. a \notin twice
      BY <1>5, <1>10, ChainEmpty DEF Next
    <2>2. ASSUME NEW x \in A, x \in twice PROVE name[x] = k
      <3>1. PICK b \in Chain(m, Next(m, x)) : name'[b] = name'[x]
        BY <1>10, <2>2 DEF Next
      <3>2. b \in M /\ b # x
        BY <1>5, <1>9, <3>1
      <3>3. b = a
        BY <1>5, <1>7, <1>8, <3>1, <3>2
      <3>4. QED
        BY <1>7, <3>1, <3>3
    <2>3. ASSUME NEW x \in A, name[x] = k PROVE x \in twice
      BY <1>5, <1>7, <1>10, <2>3 DEF Next
    <2>4. Found(e, k) = {x \in A : name[x] = k}
      BY <1>4 DEF Found
    <2>5. QED
      BY <1>5, <1>10, <2>1, <2>2, <2>3, <2>4
  <1>12. Purged(m, e, name') = IF twice = {} THEN m ELSE Unlinked(m, CHOOSE x \in twice : TRUE)
    BY <1>4, <1>10 DEF Purged
  <1>13. CASE twice = {}
    BY <1>11, <1>12, <1>13
  <1>14. CASE twice # {}
    <2>1. PICK x : x = CHOOSE y \in twice : TRUE
      OBVIOUS
    <2>2. x \in twice /\ x \in A
      BY <1>4, <1>11, <1>14, <2>1 DEF Found
    <2>3. Found(e, k) = {x}
      BY <1>4, <1>8, <1>11, <2>2 DEF Found
    <2>4. x \in Attr /\ x # a
      BY <1>5, <1>6, <2>2
    <2>5. QED
      BY <1>12, <1>14, <2>1, <2>3, <2>4
  <1>15. QED
    BY <1>13, <1>14

LEMMA AddAttributeFits ==
  ASSUME AttrInv, NEW e \in Elem, e \in AtHand, NEW a, NEW k \in Names, NEW t \in Words,
         AddAttribute(e, a, k, t)
  PROVE  AttrInv'
  <1>1. /\ Turn /\ Born(a, k, t) /\ kept' = kept \cup {a} /\ k \in Key /\ orderly' = orderly
        /\ lists' = Purged(Appended(lists, e, a), e, name')
        /\ said' = [said EXCEPT ![e][k] = t]
    BY DEF AddAttribute, Key
  <1>2. /\ orderly = TRUE /\ doomed = {} /\ AttrTypes /\ AttrFits /\ e \in alive
        /\ Null \notin Attr /\ Null \notin Elem
        /\ \A b \in Attr : lists.link[b].parent \in alive \cup {Null}
        /\ \A f \in Elem : Says(Attributes(lists, f), name, text, said[f])
    BY <1>1, TurnIs
  <1>3. kept' \subseteq kept \cup {a} /\ orderly' \in BOOLEAN /\ k \in Key /\ a \in Attr \ alive
    BY <1>1, <1>2 DEF Born
  <1>4. PICK m : m = Appended(lists, e, a)
    OBVIOUS
  <1>5. CASE Found(e, k) = {} /\ lists' = m
    BY <1>1, <1>2, <1>3, <1>4, <1>5, AppendedSays DEF AttrInv
  <1>6. ASSUME NEW x \in Attr, Found(e, k) = {x}, x # a, lists' = Unlinked(m, x)
        PROVE  AttrInv'
    <2>1. lists \in Lists /\ Consistent(lists) /\ Ordered(lists) /\ lists.link[a] = Loose
      BY <1>2, <1>3, AbsentIs DEF AttrTypes, AttrFits
    <2>2. /\ m \in Lists /\ Consistent(m)
          /\ a \notin Attributes(lists, e)
          /\ Attributes(m, e) = Attributes(lists, e) \cup {a}
          /\ \A f \in Elem : f # e => Attributes(m, f) = Attributes(lists, f) /\ a \notin Attributes(lists, f)
                                      /\ m.first[f] = lists.first[f]
          /\ m.link[a].parent = e
          /\ \A b \in Attr : b # a => m.link[b].parent = lists.link[b].parent
          /\ \A b \in Attr : b # a /\ lists.link[b] = Loose => m.link[b] = Loose
      BY <1>3, <1>4, <2>1, AppendedFits
    <2>3. Ordered(m)
      BY <1>3, <1>4, <2>1, AppendedOrdered
    <2>4. PICK n : n = lists'
      OBVIOUS
    <2>5. /\ n \in Lists /\ Consistent(n)
          /\ \A f \in Elem : Attributes(n, f) = Attributes(m, f) \ {x}
          /\ n.link[x] = Loose
          /\ \A b \in Attr : b # x => n.link[b].parent = m.link[b].parent
          /\ \A b \in Attr : b # x /\ m.link[b].next # x /\ m.link[b].prev # x => n.link[b] = m.link[b]
          /\ \A f \in Elem : m.first[f] # x => n.first[f] = m.first[f]
      BY <1>6, <2>2, <2>4, UnlinkedFits
    <2>6. Ordered(n)
      BY <1>6, <2>2, <2>3, <2>4, UnlinkedOrdered
    <2>7. t \in Seq(Letter) /\ t # Null
      BY WordIs
    <2>8. /\ said' \in [Elem -> [Key -> Seq(Letter) \cup {Null}]]
          /\ \A f \in Elem : f # e => said'[f] = said[f]
          /\ \A j \in Key : said'[e][j] = IF j = k THEN t ELSE said[e][j]
      BY <1>1, <1>2, <1>3, <2>7 DEF AttrTypes
    <2>9. /\ AttrTypes' /\ doomed' = {}
          /\ name'[a] = k /\ text'[a] = t
          /\ \A b \in Attr : b # a => name'[b] = name[b] /\ text'[b] = text[b]
          /\ alive' = alive \cup {a}
      <3>1. lists' \in Lists
        BY <2>4, <2>5
      <3>2. QED
        BY <1>1, <1>2, <1>3, <2>8, <3>1, BornTypes
    <2>10. x \in Attributes(lists, e) /\ name[x] = k /\ \A y \in Attributes(lists, e) : name[y] = k => y = x
      BY <1>6 DEF Found
    <2>11. NoneLeft'
      <3>1. ASSUME NEW b \in Attr \ alive' PROVE n.link[b] = Loose
        <4>1. b # a /\ b \notin alive
          BY <2>9
        <4>2. m.link[b] = Loose
          BY <1>2, <2>2, <4>1 DEF AttrFits, NoneLeft
        <4>3. m.link[b].next # x /\ m.link[b].prev # x
          BY <1>2, <4>2 DEF Loose
        <4>4. QED
          BY <2>5, <4>2, <4>3
      <3>2. ASSUME NEW f \in Elem \ alive' PROVE n.first[f] = Null
        <4>1. f # e /\ f \notin alive
          BY <1>2, <2>9
        <4>2. m.first[f] = Null
          BY <1>2, <2>2, <4>1 DEF AttrFits, NoneLeft
        <4>3. QED
          BY <1>2, <2>5, <4>2
      <3>3. QED
        BY <2>4, <3>1, <3>2 DEF NoneLeft
    <2>12. ASSUME NEW b \in Attr \cap alive' PROVE n.link[b].parent \in alive' \cup {Null}
      <3>1. CASE b = x
        BY <2>5, <3>1 DEF Loose
      <3>2. CASE b = a
        BY <1>2, <1>6, <2>2, <2>5, <2>9, <3>2
      <3>3. CASE b # x /\ b # a
        BY <1>2, <2>2, <2>5, <2>9, <3>3
      <3>4. QED
        BY <3>1, <3>2, <3>3
    <2>13. ASSUME NEW f \in Elem PROVE Says(Attributes(n, f), name', text', said'[f])
      <3>1. PICK A : A = Attributes(lists, f)
        OBVIOUS
      <3>2. a \notin A /\ A \in SUBSET Attr /\ Says(A, name, text, said[f])
        BY <1>2, <1>3, <2>1, <3>1, AbsentIs, AttributesAre
      <3>3. \A b \in A : name'[b] = name[b] /\ text'[b] = text[b]
        BY <2>9, <3>2
      <3>4. CASE f = e
        <4>1. PICK s1, C : s1 = [j \in Key |-> IF j = k THEN Null ELSE said[e][j]] /\ C = {x}
          OBVIOUS
        <4>2. \A j \in Key : s1[j] = IF \E b \in C \cap A : name[b] = j THEN Null ELSE said[f][j]
          BY <2>10, <3>1, <3>4, <4>1
        <4>3. Says(A \ C, name, text, s1)
          BY <3>2, <4>2, SaysLess
        <4>4. PICK B : B = A \ C
          OBVIOUS
        <4>5. /\ Says(B, name, text, s1) /\ a \notin B
              /\ \A b \in B : name'[b] = name[b] /\ text'[b] = text[b]
              /\ \A b \in B : name[b] # k
          BY <2>10, <3>1, <3>2, <3>3, <3>4, <4>1, <4>3, <4>4
        <4>6. \A j \in Key : said'[e][j] = IF j = k THEN t ELSE s1[j]
          BY <2>8, <4>1
        <4>7. Says(B \cup {a}, name', text', said'[e])
          BY <2>7, <2>9, <4>5, <4>6, SaysMore
        <4>8. Attributes(n, e) = B \cup {a}
          BY <1>6, <2>2, <2>5, <3>1, <3>4, <4>1, <4>4
        <4>9. QED
          BY <3>4, <4>7, <4>8
      <3>5. CASE f # e
        <4>1. Says(A, name', text', said[f])
          BY <3>2, <3>3, SaysSame
        <4>2. x \notin A
          <5>1. lists.link[x].parent = e
            BY <2>1, <2>10, AttributesAre
          <5>2. QED
            BY <2>1, <3>1, <3>5, <5>1, AttributesAre
        <4>3. Attributes(n, f) = A
          <5>1. Attributes(m, f) = A
            BY <2>2, <3>1, <3>5
          <5>2. Attributes(n, f) = Attributes(m, f) \ {x}
            BY <2>5
          <5>3. QED
            BY ONLY <4>2, <5>1, <5>2
        <4>4. QED
          BY <2>8, <3>5, <4>1, <4>3
      <3>6. QED
        BY <3>4, <3>5
    <2>14. AttrFits'
      BY <2>4, <2>5, <2>6, <2>9, <2>11, <2>12, <2>13, TurnFits
    <2>15. QED
      BY <2>9, <2>14 DEF AttrInv
  <1>7. QED
    BY <1>1, <1>3, <1>4, <1>5, <1>6, PurgedIs

\* The content of an attribute of e becomes t.
LEMMA WrittenFits ==
  ASSUME AttrInv, Turn, NEW e \in Elem, NEW k \in Key, NEW a \in Found(e, k), NEW t \in Words,
         text' = Assigned(a, t), kept' \subseteq kept \cup {a},
         said' = [said EXCEPT ![e][k] = t],
         UNCHANGED <<lists, name, alive, doomed, orderly>>
  PROVE  AttrInv'
  <1>1. /\ orderly = TRUE /\ doomed = {} /\ AttrTypes /\ AttrFits
        /\ Null \notin Attr /\ Null \notin Elem
        /\ \A b \in Attr : lists.link[b].parent \in alive \cup {Null}
        /\ \A f \in Elem : Says(Attributes(lists, f), name, text, said[f])
    BY TurnIs
  <1>2. a \in Attributes(lists, e) /\ name[a] = k
    BY DEF Found
  <1>3. /\ a \in Attr /\ lists.link[a].parent = e
        /\ \A f \in Elem : f # e => a \notin Attributes(lists, f)
    BY <1>1, <1>2, AttributesAre DEF AttrTypes, AttrFits
  <1>4. a \in alive
    BY <1>1, <1>3 DEF AttrFits, NoneLeft, Loose
  <1>5. t \in Seq(Letter) /\ t # Null /\ Len(t) <= MaxText
    BY WordIs
  <1>6. /\ text \in [Attr -> Seq(Letter)] /\ text' = [text EXCEPT ![a] = t]
        /\ \A b \in Attr : Len(text[b]) <= MaxText
        /\ said \in [Elem -> [Key -> Seq(Letter) \cup {Null}]]
    BY <1>1 DEF AttrTypes, Assigned
  <1>7. /\ text' \in [Attr -> Seq(Letter)] /\ text'[a] = t
        /\ \A b \in Attr : b # a => text'[b] = text[b]
    BY <1>3, <1>5, <1>6
  <1>8. /\ said' \in [Elem -> [Key -> Seq(Letter) \cup {Null}]]
        /\ \A f \in Elem : f # e => said'[f] = said[f]
        /\ \A j \in Key : said'[e][j] = IF j = k THEN t ELSE said[e][j]
    BY <1>5, <1>6
  <1>9. AttrTypes'
    <2>1. \A b \in Attr : Len(text'[b]) <= MaxText
      BY <1>5, <1>6, <1>7
    <2>2. QED
      BY <1>1, <1>4, <1>7, <1>8, <2>1 DEF AttrTypes
  <1>10. ASSUME NEW f \in Elem PROVE Says(Attributes(lists', f), name', text', said'[f])
    <2>1. PICK A, t2, s, s2 : A = Attributes(lists, f) /\ t2 = text' /\ s = said[f] /\ s2 = said'[f]
      OBVIOUS
    <2>2. Says(A, name, text, s) /\ A \in SUBSET Attr
      BY <1>1, <2>1, AttributesAre DEF AttrTypes, AttrFits
    <2>3. \A b \in A : b # a => t2[b] = text[b]
      BY <1>7, <2>1, <2>2
    <2>4. t2[a] # Null
      BY <1>5, <1>7, <2>1
    <2>5. \A j \in Key : s2[j] = IF a \in A /\ name[a] = j THEN t2[a] ELSE s[j]
      <3>1. CASE f = e
        BY <1>2, <1>7, <1>8, <2>1, <3>1
      <3>2. CASE f # e
        BY <1>3, <1>8, <2>1, <3>2
      <3>3. QED
        BY <3>1, <3>2
    <2>6. Says(A, name, t2, s2)
      BY ONLY <2>2, <2>3, <2>4, <2>5, SaysWritten
    <2>7. QED
      BY <2>1, <2>6
  <1>11. AttrFits'
    <2>1. doomed' = {} /\ Consistent(lists') /\ Ordered(lists') /\ NoneLeft'
      BY <1>1 DEF AttrFits, NoneLeft
    <2>2. \A b \in Attr \cap alive' : lists'.link[b].parent \in alive' \cup {Null}
      BY <1>1
    <2>3. QED
      BY ONLY <1>9, <1>10, <2>1, <2>2, TurnFits
  <1>12. QED
    BY <1>9, <1>11 DEF AttrInv

LEMMA SetAttributeFits ==
  ASSUME AttrInv, NEW e \in Elem, e \in AtHand, NEW k \in Names, NEW t \in Words, SetAttribute(e, k, t)
  PROVE  AttrInv'
  <1>1. CASE \E a \in Attr : AddAttribute(e, a, k, t)
    BY <1>1, AddAttributeFits
  <1>2. ASSUME NEW a \in Found(e, k), Turn, text' = Assigned(a, t), kept' = kept \cup {a},
               said' = [said EXCEPT ![e][k] = t],
               UNCHANGED <<lists, name, alive, doomed, orderly>>
        PROVE  AttrInv'
    <2>1. k \in Key /\ kept' \subseteq kept \cup {a}
      BY <1>2 DEF Key
    <2>2. QED
      BY <1>2, <2>1, WrittenFits
  <1>3. QED
    BY <1>1, <1>2 DEF SetAttribute

LEMMA SetLangFits ==
  ASSUME AttrInv, NEW e \in Elem, e \in AtHand, NEW t \in Words, SetLang(e, t)
  PROVE  AttrInv'
  <1>1. Turn /\ said' = [said EXCEPT ![e][Lang] = t] /\ kept' = kept /\ orderly' = orderly
    BY DEF SetLang
  <1>2. PICK k \in Key : k = Lang
    BY DEF Key
  <1>3. ASSUME Found(e, Lang) = {}, NEW a \in Attr, Born(a, Lang, t), lists' = Appended(lists, e, a)
        PROVE  AttrInv'
    <2>1. e \in alive /\ orderly \in BOOLEAN /\ orderly = TRUE
      BY <1>1, TurnIs
    <2>2. kept' \subseteq kept \cup {a} /\ orderly' \in BOOLEAN /\ Born(a, k, t)
          /\ said' = [said EXCEPT ![e][k] = t]
      BY <1>1, <1>2, <1>3, <2>1
    <2>3. AttrTypes' /\ (Found(e, k) = {} => AttrFits')
      BY <1>1, <1>3, <2>1, <2>2, AppendedSays
    <2>4. QED
      BY <1>2, <1>3, <2>3 DEF AttrInv
  <1>4. ASSUME NEW a \in Found(e, Lang), text' = Assigned(a, t), UNCHANGED <<lists, name, alive, doomed>>
        PROVE  AttrInv'
    <2>1. a \in Found(e, k) /\ kept' \subseteq kept \cup {a} /\ said' = [said EXCEPT ![e][k] = t]
      BY <1>1, <1>2, <1>4
    <2>2. QED
      BY <1>1, <1>4, <2>1, WrittenFits
  <1>5. QED
    BY <1>3, <1>4 DEF SetLang

\* The content of an attribute becomes what t has for it.
LEMMA WriteFits ==
  ASSUME AttrInv, NEW a \in Attr, NEW t, Write(a, t),
         t \in [Attr -> Seq(Letter)], Len(t[a]) <= MaxText,
         \A b \in Attr : b # a => t[b] = text[b]
  PROVE  AttrInv'
  <1>1. /\ Turn /\ text' = t
        /\ said' = [e \in Elem |-> [k \in Key |-> IF a \in Found(e, k) THEN t[a] ELSE said[e][k]]]
        /\ UNCHANGED <<lists, name, alive, kept, doomed, orderly>>
    BY DEF Write
  <1>2. /\ orderly = TRUE /\ doomed = {} /\ AttrTypes /\ AttrFits
        /\ \A b \in Attr : lists.link[b].parent \in alive \cup {Null}
        /\ \A f \in Elem : Says(Attributes(lists, f), name, text, said[f])
    BY <1>1, TurnIs
  <1>3. t[a] \in Seq(Letter) /\ t[a] # Null
    BY AttrAssumption
  <1>4. said' \in [Elem -> [Key -> Seq(Letter) \cup {Null}]]
    BY <1>1, <1>2, <1>3 DEF AttrTypes
  <1>5. AttrTypes'
    <2>1. \A b \in Attr : Len(t[b]) <= MaxText
      BY <1>2 DEF AttrTypes
    <2>2. QED
      BY <1>1, <1>2, <1>4, <2>1 DEF AttrTypes
  <1>6. ASSUME NEW f \in Elem PROVE Says(Attributes(lists', f), name', text', said'[f])
    <2>1. PICK A, s, s2 : A = Attributes(lists, f) /\ s = said[f] /\ s2 = said'[f]
      OBVIOUS
    <2>2. Says(A, name, text, s) /\ A \in SUBSET Attr
      BY <1>2, <2>1, AttributesAre DEF AttrTypes, AttrFits
    <2>3. \A b \in A : b # a => t[b] = text[b]
      BY <2>2
    <2>4. \A j \in Key : s2[j] = IF a \in A /\ name[a] = j THEN t[a] ELSE s[j]
      BY <1>1, <2>1 DEF Found
    <2>5. Says(A, name, t, s2)
      BY ONLY <1>3, <2>2, <2>3, <2>4, SaysWritten
    <2>6. QED
      BY <1>1, <2>1, <2>5
  <1>7. AttrFits'
    <2>1. doomed' = {} /\ Consistent(lists') /\ Ordered(lists') /\ NoneLeft'
      BY <1>1, <1>2 DEF AttrFits, NoneLeft
    <2>2. \A b \in Attr \cap alive' : lists'.link[b].parent \in alive' \cup {Null}
      BY <1>1, <1>2
    <2>3. QED
      BY ONLY <1>5, <1>6, <2>1, <2>2, TurnFits
  <1>8. QED
    BY <1>5, <1>7 DEF AttrInv

LEMMA SetContentFits ==
  ASSUME AttrInv, NEW a \in Attr, NEW t \in Words, SetContent(a, t)
  PROVE  AttrInv'
  <1>1. PICK x : x = Assigned(a, t)
    OBVIOUS
  <1>2. t \in Seq(Letter) /\ Len(t) <= MaxText /\ text \in [Attr -> Seq(Letter)]
    BY WordIs DEF AttrInv, AttrTypes
  <1>3. /\ Write(a, x) /\ x \in [Attr -> Seq(Letter)] /\ Len(x[a]) <= MaxText
        /\ \A b \in Attr : b # a => x[b] = text[b]
    BY <1>1, <1>2 DEF SetContent, Assigned
  <1>4. QED
    BY <1>3, WriteFits

LEMMA AddContentFits ==
  ASSUME AttrInv, NEW a \in Attr, NEW t \in Words, AddContent(a, t)
  PROVE  AttrInv'
  <1>1. PICK x : x = [text EXCEPT ![a] = @ \o t]
    OBVIOUS
  <1>2. t \in Seq(Letter) /\ text \in [Attr -> Seq(Letter)] /\ text[a] \in Seq(Letter)
        /\ Len(text[a]) + Len(t) <= MaxText
    BY WordIs DEF AttrInv, AttrTypes, AddContent
  <1>3. text[a] \o t \in Seq(Letter) /\ Len(text[a] \o t) = Len(text[a]) + Len(t)
    BY <1>2
  <1>4. x \in [Attr -> Seq(Letter)] /\ x[a] = text[a] \o t /\ \A b \in Attr : b # a => x[b] = text[b]
    BY <1>1, <1>2, <1>3
  <1>5. Write(a, x) /\ Len(x[a]) <= MaxText
    BY <1>1, <1>2, <1>3, <1>4 DEF AddContent
  <1>6. QED
    BY <1>4, <1>5, WriteFits

\* Other lists, in which the attributes C have left theirs.
LEMMA RelistFits ==
  ASSUME AttrInv, NEW l \in Lists, NEW C, NEW safe \in BOOLEAN, Relist(l, C, safe),
         safe => /\ Consistent(l) /\ Ordered(l)
                 /\ \A f \in Elem : Attributes(l, f) = Attributes(lists, f) \ C
                 /\ \A b \in Attr : l.link[b].parent \in {Null, lists.link[b].parent}
                 /\ \A b \in Attr : lists.link[b] = Loose => l.link[b] = Loose
                 /\ \A f \in Elem : lists.first[f] = Null => l.first[f] = Null
  PROVE  AttrInv'
  <1>1. /\ Turn /\ lists' = l /\ said' = Unsaid(C) /\ orderly' = safe
        /\ UNCHANGED <<name, text, alive, kept, doomed>>
    BY DEF Relist
  <1>2. /\ orderly = TRUE /\ doomed = {} /\ AttrTypes /\ AttrFits
        /\ \A b \in Attr : lists.link[b].parent \in alive \cup {Null}
        /\ \A f \in Elem : Says(Attributes(lists, f), name, text, said[f])
    BY <1>1, TurnIs
  <1>3. \A f \in Elem : \A k \in Key :
          said'[f][k] = IF \E a \in C \cap Attributes(lists, f) : name[a] = k THEN Null ELSE said[f][k]
    BY <1>1 DEF Unsaid
  <1>4. said' \in [Elem -> [Key -> Seq(Letter) \cup {Null}]]
    BY <1>1, <1>2 DEF AttrTypes, Unsaid
  <1>5. AttrTypes'
    BY <1>1, <1>2, <1>4 DEF AttrTypes
  <1>6. ASSUME safe PROVE AttrFits'
    <2>1. ASSUME NEW f \in Elem PROVE Says(Attributes(lists', f), name', text', said'[f])
      <3>1. PICK A, s, s2 : A = Attributes(lists, f) /\ s = said[f] /\ s2 = said'[f]
        OBVIOUS
      <3>2. Says(A, name, text, s) /\ \A k \in Key : s2[k] = IF \E a \in C \cap A : name[a] = k THEN Null ELSE s[k]
        BY <1>2, <1>3, <3>1
      <3>3. Says(A \ C, name, text, s2)
        BY ONLY <3>2, SaysLess
      <3>4. QED
        BY <1>1, <1>6, <3>1, <3>3
    <2>2. doomed' = {} /\ Consistent(lists') /\ Ordered(lists') /\ NoneLeft'
      BY <1>1, <1>2, <1>6 DEF AttrFits, NoneLeft
    <2>3. \A b \in Attr \cap alive' : lists'.link[b].parent \in alive' \cup {Null}
      BY <1>1, <1>2, <1>6
    <2>4. QED
      BY ONLY <1>5, <2>1, <2>2, <2>3, TurnFits
  <1>7. QED
    BY <1>1, <1>5, <1>6 DEF AttrInv

\* The attribute a is unlinked.
LEMMA UnlinkingFits ==
  ASSUME AttrInv, NEW a \in Attr, Relist(Unlinked(lists, a), {a}, TRUE)
  PROVE  AttrInv'
  <1>1. PICK l, C, safe : safe \in BOOLEAN /\ l = Unlinked(lists, a) /\ C = {a} /\ safe = TRUE
    OBVIOUS
  <1>2. lists \in Lists /\ Consistent(lists) /\ Ordered(lists) /\ Null \notin Attr
    BY TurnIs DEF Relist, AttrTypes, AttrFits
  <1>3. /\ l \in Lists /\ Consistent(l)
        /\ \A f \in Elem : Attributes(l, f) = Attributes(lists, f) \ {a}
        /\ l.link[a] = Loose
        /\ \A b \in Attr : b # a => l.link[b].parent = lists.link[b].parent
        /\ \A b \in Attr : b # a /\ lists.link[b].next # a /\ lists.link[b].prev # a => l.link[b] = lists.link[b]
        /\ \A f \in Elem : lists.first[f] # a => l.first[f] = lists.first[f]
    BY <1>1, <1>2, UnlinkedFits
  <1>4. Ordered(l)
    BY <1>1, <1>2, UnlinkedOrdered
  <1>5. \A b \in Attr : l.link[b].parent \in {Null, lists.link[b].parent}
    BY <1>3 DEF Loose
  <1>6. \A b \in Attr : lists.link[b] = Loose => l.link[b] = Loose
    BY <1>2, <1>3 DEF Loose
  <1>7. \A f \in Elem : lists.first[f] = Null => l.first[f] = Null
    BY <1>2, <1>3
  <1>8. Relist(l, C, safe)
    BY <1>1
  <1>9. \A f \in Elem : Attributes(l, f) = Attributes(lists, f) \ C
    BY <1>1, <1>3
  <1>10. l \in Lists /\ Consistent(l)
    BY <1>3
  <1>11. AttrInv /\ safe \in BOOLEAN
    BY <1>1
  <1>12. QED
    BY ONLY <1>4, <1>5, <1>6, <1>7, <1>8, <1>9, <1>10, <1>11, RelistFits

LEMMA ClearFirstFits ==
  ASSUME AttrInv, NEW e \in Elem, ClearFirst(e)
  PROVE  AttrInv'
  <1>1. PICK l, C, safe :
          safe \in BOOLEAN /\ l = [lists EXCEPT !.first[e] = Null] /\ C = Attributes(lists, e) /\ safe = TRUE
    OBVIOUS
  <1>2. lists \in Lists /\ Consistent(lists) /\ Ordered(lists)
    BY TurnIs DEF ClearFirst, Relist, AttrTypes, AttrFits
  <1>3. /\ l \in Lists /\ Consistent(l) /\ l.link = lists.link
        /\ l.first[e] = Null
        /\ \A f \in Elem : f # e => l.first[f] = lists.first[f]
        /\ \A f \in Elem : Attributes(l, f) = Attributes(lists, f) \ Attributes(lists, e)
    <2>1. PICK ls : ls = lists
      OBVIOUS
    <2>2. ls \in Lists /\ Consistent(ls) /\ e \in Elem /\ l = Emptied(ls, e)
      BY <1>1, <1>2, <2>1 DEF Emptied
    <2>3. /\ l \in Lists /\ Consistent(l) /\ l.link = ls.link
          /\ Attributes(l, e) = {} /\ l.first[e] = Null
          /\ \A f \in Elem : f # e => Attributes(l, f) = Attributes(ls, f) /\ l.first[f] = ls.first[f]
          /\ \A f \in Elem : Attributes(l, f) = Attributes(ls, f) \ Attributes(ls, e)
      BY ONLY <2>2, ClearedFits
    <2>4. QED
      BY <2>1, <2>3
  <1>4. Ordered(l)
    BY <1>2, <1>3 DEF Ordered
  <1>5. /\ \A f \in Elem : Attributes(l, f) = Attributes(lists, f) \ C
        /\ \A b \in Attr : l.link[b].parent \in {Null, lists.link[b].parent}
        /\ \A b \in Attr : lists.link[b] = Loose => l.link[b] = Loose
        /\ \A f \in Elem : lists.first[f] = Null => l.first[f] = Null
    BY <1>1, <1>3
  <1>6. AttrInv /\ safe \in BOOLEAN /\ Relist(l, C, safe) /\ l \in Lists /\ Consistent(l)
    BY <1>1, <1>3 DEF ClearFirst
  <1>7. QED
    BY ONLY <1>4, <1>5, <1>6, RelistFits

LEMMA AssignAttrParentFits ==
  ASSUME AttrInv, NEW a \in Attr, AssignAttrParent(a)
  PROVE  AttrInv'
  <1>1. PICK p : p = lists.link[a].prev
    OBVIOUS
  <1>2. PICK l, C, safe :
          safe \in BOOLEAN /\ l = CutOff(lists, a) /\ C = (IF p = Null THEN {} ELSE Chain(lists, a)) /\ safe = TRUE
    OBVIOUS
  <1>3. AttrInv /\ safe \in BOOLEAN /\ Relist(l, C, safe)
    BY <1>1, <1>2 DEF AssignAttrParent, CutOff
  <1>4. lists \in Lists /\ Consistent(lists) /\ Ordered(lists) /\ Null \notin Attr
    BY <1>3, TurnIs DEF Relist, AttrTypes, AttrFits
  <1>5. CASE p = Null
    <2>1. lists.link \in [Attr -> Link] /\ lists = [first |-> lists.first, link |-> lists.link]
      BY <1>4 DEF Lists
    <2>2. lists.link[a] = [lists.link[a] EXCEPT !.prev = Null]
      <3>1. lists.link[a] \in Link /\ lists.link[a].prev = Null
        BY <1>1, <1>5, <2>1
      <3>2. QED
        BY <3>1 DEF Link
    <2>3. [b \in Attr |-> IF b = p THEN [lists.link[b] EXCEPT !.next = Null]
                          ELSE IF b = a THEN [lists.link[b] EXCEPT !.prev = Null] ELSE lists.link[b]] = lists.link
      BY <1>4, <1>5, <2>1, <2>2
    <2>4. l = lists
      BY <1>1, <1>2, <2>1, <2>3 DEF CutOff
    <2>5. /\ \A f \in Elem : Attributes(l, f) = Attributes(lists, f) \ C
          /\ \A b \in Attr : l.link[b].parent \in {Null, lists.link[b].parent}
          /\ \A b \in Attr : lists.link[b] = Loose => l.link[b] = Loose
          /\ \A f \in Elem : lists.first[f] = Null => l.first[f] = Null
      BY <1>2, <1>5, <2>4
    <2>6. l \in Lists /\ Consistent(l) /\ Ordered(l)
      BY <1>4, <2>4
    <2>7. QED
      BY ONLY <1>3, <2>5, <2>6, RelistFits
  <1>6. CASE p # Null
    <2>1. /\ l \in Lists /\ Consistent(l) /\ Ordered(l)
          /\ \A f \in Elem : Attributes(l, f) = Attributes(lists, f) \ Chain(lists, a) /\ l.first[f] = lists.first[f]
          /\ \A b \in Attr : l.link[b].parent = lists.link[b].parent
          /\ \A b \in Attr : lists.link[b] = Loose => l.link[b] = Loose
      BY <1>1, <1>2, <1>4, <1>6, CutFits
    <2>2. /\ \A f \in Elem : Attributes(l, f) = Attributes(lists, f) \ C
          /\ \A b \in Attr : l.link[b].parent \in {Null, lists.link[b].parent}
          /\ \A f \in Elem : lists.first[f] = Null => l.first[f] = Null
      BY <1>2, <1>6, <2>1
    <2>3. QED
      BY ONLY <1>3, <2>1, <2>2, RelistFits
  <1>7. QED
    BY <1>5, <1>6

LEMMA ClearAttrParentFits ==
  ASSUME AttrInv, NEW a \in Attr, ClearAttrParent(a)
  PROVE  AttrInv'
  <1>1. PICK owner, p : owner = lists.link[a].parent /\ p = lists.link[a].prev
    OBVIOUS
  <1>2. PICK l, C, safe :
          /\ safe \in BOOLEAN
          /\ l = [first |-> [e \in Elem |-> IF e = owner /\ p = Null THEN Null ELSE lists.first[e]],
                  link |-> [b \in Attr |->
                    IF b = p THEN [lists.link[b] EXCEPT !.next = Null]
                    ELSE IF b = a THEN [lists.link[b] EXCEPT !.prev = Null, !.parent = Null]
                    ELSE lists.link[b]]]
          /\ C = {a}
          /\ safe = (lists.link[a].next = Null /\ (p # Null \/ lists.first[owner] = a))
    OBVIOUS
  <1>3. AttrInv /\ safe \in BOOLEAN /\ Relist(l, C, safe) /\ owner # Null
    BY <1>1, <1>2 DEF ClearAttrParent
  <1>4. /\ lists \in Lists /\ Consistent(lists) /\ Ordered(lists) /\ Null \notin Attr /\ Null \notin Elem
        /\ lists.link \in [Attr -> Link] /\ lists.first \in [Elem -> Attr \cup {Null}]
    BY <1>3, TurnIs DEF Relist, AttrTypes, AttrFits, Lists
  <1>5. l \in Lists
    <2>1. l.link \in [Attr -> Link]
      <3>1. ASSUME NEW b \in Attr
            PROVE  /\ [lists.link[b] EXCEPT !.next = Null] \in Link
                   /\ [lists.link[b] EXCEPT !.prev = Null, !.parent = Null] \in Link
                   /\ lists.link[b] \in Link
        <4>1. lists.link[b] \in Link
          BY <1>4
        <4>2. QED
          BY <4>1 DEF Link
      <3>2. l.link = [b \in Attr |->
                    IF b = p THEN [lists.link[b] EXCEPT !.next = Null]
                    ELSE IF b = a THEN [lists.link[b] EXCEPT !.prev = Null, !.parent = Null]
                    ELSE lists.link[b]]
        BY <1>2
      <3>3. QED
        BY <3>1, <3>2
    <2>2. l.first \in [Elem -> Attr \cup {Null}]
      BY <1>2, <1>4
    <2>3. QED
      BY <1>2, <2>1, <2>2 DEF Lists
  <1>6. ASSUME safe = TRUE PROVE l = Unlinked(lists, a)
    <2>1. lists.link[a].next = Null /\ (p # Null \/ lists.first[owner] = a)
      BY <1>2, <1>6
    <2>2. p # a
      BY <1>1, <1>4, <2>1 DEF Consistent
    <2>3. \A b \in Attr : l.link[b] = IF b = a THEN Loose
            ELSE [lists.link[b] EXCEPT !.prev = IF b = Null THEN p ELSE @, !.next = IF b = p THEN Null ELSE @]
      <3>1. lists.link[a] \in Link
        BY <1>4
      <3>2. l.link[a] = Loose
        <4>1. l.link[a] = [lists.link[a] EXCEPT !.prev = Null, !.parent = Null]
          BY <1>2, <2>2
        <4>2. QED
          BY <2>1, <3>1, <4>1 DEF Link, Loose
      <3>3. ASSUME NEW b \in Attr, b # a
            PROVE  l.link[b] = [lists.link[b] EXCEPT !.prev = IF b = Null THEN p ELSE @,
                                                     !.next = IF b = p THEN Null ELSE @]
        <4>1. lists.link[b] \in Link /\ b # Null
          BY <1>4
        <4>2. l.link[b] = IF b = p THEN [lists.link[b] EXCEPT !.next = Null] ELSE lists.link[b]
          BY <1>2, <3>3
        <4>3. QED
          BY <4>1, <4>2 DEF Link
      <3>4. QED
        BY <3>2, <3>3
    <2>4. \A e \in Elem : l.first[e] = IF e = owner /\ lists.first[e] = a THEN Null ELSE lists.first[e]
      <3>1. \A e \in Elem : lists.first[e] = a => p = Null
        BY <1>1, <1>4 DEF Consistent
      <3>2. \A e \in Elem : l.first[e] = IF e = owner /\ p = Null THEN Null ELSE lists.first[e]
        BY <1>2
      <3>3. QED
        BY <2>1, <3>1, <3>2
    <2>5. PICK m : m = Unlinked(lists, a)
      OBVIOUS
    <2>6. /\ m.first = [e \in Elem |-> IF e = owner /\ lists.first[e] = a THEN Null ELSE lists.first[e]]
          /\ m.link = [b \in Attr |-> IF b = a THEN Loose
            ELSE [lists.link[b] EXCEPT !.prev = IF b = Null THEN p ELSE @, !.next = IF b = p THEN Null ELSE @]]
          /\ m = [first |-> m.first, link |-> m.link]
      BY <1>1, <2>1, <2>5 DEF Unlinked
    <2>7. l.first \in [Elem -> Attr \cup {Null}] /\ l.link \in [Attr -> Link]
          /\ l = [first |-> l.first, link |-> l.link]
      BY <1>5 DEF Lists
    <2>8. l.link = m.link /\ l.first = m.first
      <3>1. \A b \in Attr : l.link[b] = m.link[b]
        BY <2>3, <2>6
      <3>2. \A e \in Elem : l.first[e] = m.first[e]
        BY <2>4, <2>6
      <3>3. l.link = [b \in Attr |-> l.link[b]] /\ m.link = [b \in Attr |-> m.link[b]]
        BY <2>6, <2>7
      <3>4. l.first = [e \in Elem |-> l.first[e]] /\ m.first = [e \in Elem |-> m.first[e]]
        BY <2>6, <2>7
      <3>5. QED
        BY <3>1, <3>2, <3>3, <3>4
    <2>9. QED
      BY <2>5, <2>6, <2>7, <2>8
  <1>7. CASE safe = TRUE
    <2>1. Relist(Unlinked(lists, a), {a}, TRUE)
      BY <1>2, <1>3, <1>6, <1>7
    <2>2. QED
      BY <2>1, UnlinkingFits
  <1>8. CASE safe = FALSE
    BY <1>3, <1>5, <1>8, RelistFits
  <1>9. QED
    BY <1>3, <1>7, <1>8

LEMMA SetFirstKeeps ==
  ASSUME AttrInv, NEW e \in Elem, e \in AtHand, NEW a \in Attr, a \in AtHand, SetFirst(e, a)
  PROVE  AttrInv'
  <1> DEFINE Named(k) == {b \in Chain(lists, a) : name[b] = k}
  <1>1. PICK m, K : m = lists' /\ K = Chain(lists, a)
    OBVIOUS
  <1>2. /\ Turn /\ m = Begun(lists, e, a)
        /\ orderly' = (/\ lists.link[a].prev = Null
                       /\ (\A b \in K : lists.link[b].parent = e) \/ lists.link[a] = Loose
                       /\ \A b, c \in K : name[b] = name[c] => b = c)
        /\ said' = [said EXCEPT ![e] = [k \in Key |->
             IF Named(k) = {} THEN Null ELSE text[CHOOSE b \in Named(k) : TRUE]]]
        /\ UNCHANGED <<name, text, alive, kept, doomed>>
    BY <1>1 DEF SetFirst, Begun
  <1>3. /\ orderly = TRUE /\ doomed = {} /\ AttrTypes /\ AttrFits
        /\ e \in alive /\ a \in alive
        /\ Null \notin Attr /\ Null \notin Elem
        /\ \A b \in Attr : lists.link[b].parent \in alive \cup {Null}
        /\ \A f \in Elem : Says(Attributes(lists, f), name, text, said[f])
    BY <1>2, TurnIs
  <1>4. /\ lists \in Lists /\ Consistent(lists) /\ Ordered(lists)
        /\ text \in [Attr -> Seq(Letter)] /\ said \in [Elem -> [Key -> Seq(Letter) \cup {Null}]]
    BY <1>3 DEF AttrTypes, AttrFits
  <1>5. K \in SUBSET Attr /\ \A k \in Key : Named(k) \in SUBSET Attr
    <2>1. a \in Attr \cup {Null}
      OBVIOUS
    <2>2. K \in SUBSET Attr
      BY <1>1, <1>4, <2>1, ChainIs
    <2>3. QED
      BY <1>1, <2>2
  <1>6. m \in Lists /\ \A b \in Attr : m.link[b].next = lists.link[b].next
    <2>1. /\ lists.first \in [Elem -> Attr \cup {Null}] /\ lists.link \in [Attr -> Link]
          /\ lists = [first |-> lists.first, link |-> lists.link]
      BY <1>4 DEF Lists
    <2>2. /\ m.first = [lists.first EXCEPT ![e] = a]
          /\ m.link = [lists.link EXCEPT ![a] = [lists.link[a] EXCEPT !.parent = e]]
          /\ m = [first |-> m.first, link |-> m.link]
      BY <1>2, <2>1 DEF Begun
    <2>3. lists.link[a] \in Link
      BY <2>1
    <2>4. [lists.link[a] EXCEPT !.parent = e] \in Link
          /\ [lists.link[a] EXCEPT !.parent = e].next = lists.link[a].next
      BY <2>3 DEF Link
    <2>5. m.link \in [Attr -> Link] /\ \A b \in Attr : m.link[b].next = lists.link[b].next
      BY <2>1, <2>2, <2>4
    <2>6. m.first \in [Elem -> Attr \cup {Null}]
      BY <2>1, <2>2
    <2>7. QED
      BY <2>2, <2>5, <2>6 DEF Lists
  <1> DEFINE Resaid == [k \in Key |-> IF Named(k) = {} THEN Null ELSE text[CHOOSE b \in Named(k) : TRUE]]
  <1>7. Resaid \in [Key -> Seq(Letter) \cup {Null}]
    <2>1. ASSUME NEW k \in Key
          PROVE  (IF Named(k) = {} THEN Null ELSE text[CHOOSE b \in Named(k) : TRUE]) \in Seq(Letter) \cup {Null}
      <3>1. PICK N : N = Named(k)
        OBVIOUS
      <3>2. N \in SUBSET Attr
        BY <1>5, <3>1
      <3>3. N # {} => (CHOOSE b \in N : TRUE) \in Attr
        BY <3>2
      <3>4. (IF N = {} THEN Null ELSE text[CHOOSE b \in N : TRUE]) \in Seq(Letter) \cup {Null}
        BY <1>4, <3>3
      <3>5. QED
        BY <3>1, <3>4
    <2> HIDE DEF Named
    <2>2. QED
      BY <2>1
  <1>8. /\ said' \in [Elem -> [Key -> Seq(Letter) \cup {Null}]]
        /\ said'[e] = Resaid
        /\ \A f \in Elem : f # e => said'[f] = said[f]
    <2>1. said' = [said EXCEPT ![e] = Resaid]
      BY <1>2
    <2> HIDE DEF Resaid
    <2>2. QED
      BY <1>4, <1>7, <2>1
  <1>9. AttrTypes'
    BY <1>1, <1>2, <1>3, <1>6, <1>8 DEF AttrTypes
  <1>10. ASSUME orderly' PROVE AttrFits'
    <2>1. /\ lists.link[a].prev = Null
          /\ (\A b \in Chain(lists, a) : lists.link[b].parent = e) \/ lists.link[a] = Loose
          /\ \A b, c \in K : name[b] = name[c] => b = c
      BY <1>1, <1>2, <1>10
    <2>2. /\ Consistent(m)
          /\ Attributes(m, e) = K
          /\ \A f \in Elem : f # e => Attributes(m, f) = Attributes(lists, f) /\ m.first[f] = lists.first[f]
          /\ m.link[a].parent = e
          /\ \A b \in Attr : b # a => m.link[b] = lists.link[b]
      BY <1>1, <1>2, <1>4, <2>1, SetFirstFits
    <2>3. Ordered(m)
      BY <1>4, <1>6, OrderKept
    <2>4. Says(K, name, text, Resaid)
      <3> SUFFICES ASSUME NEW k \in Key
                   PROVE  IF Resaid[k] = Null THEN \A b \in K : name[b] # k
                          ELSE \E b \in K : name[b] = k /\ text[b] = Resaid[k] /\ \A c \in K : name[c] = k => c = b
        BY DEF Says
      <3>1. PICK N : N = Named(k)
        OBVIOUS
      <3>2. N = {b \in K : name[b] = k} /\ N \in SUBSET Attr
        BY <1>1, <1>5, <3>1
      <3>3. Resaid[k] = IF N = {} THEN Null ELSE text[CHOOSE b \in N : TRUE]
        BY <3>1
      <3> HIDE DEF Resaid, Named
      <3>4. CASE N = {}
        BY <3>2, <3>3, <3>4
      <3>5. CASE N # {}
        <4>1. PICK b : b = CHOOSE c \in N : TRUE
          OBVIOUS
        <4>2. b \in N /\ b \in Attr
          BY <3>2, <3>5, <4>1
        <4>3. text[b] # Null
          BY <1>4, <4>2, AttrAssumption
        <4>4. Resaid[k] = text[b] /\ b \in K /\ name[b] = k
          BY <3>2, <3>3, <3>5, <4>1, <4>2
        <4>5. \A c \in K : name[c] = k => c = b
          BY <2>1, <4>4
        <4>6. QED
          BY <4>3, <4>4, <4>5
      <3>6. QED
        BY <3>4, <3>5
    <2>5. ASSUME NEW f \in Elem PROVE Says(Attributes(lists', f), name', text', said'[f])
      <3> HIDE DEF Resaid
      <3>1. CASE f = e
        BY <1>1, <1>2, <1>8, <2>2, <2>4, <3>1
      <3>2. CASE f # e
        BY <1>1, <1>2, <1>3, <1>8, <2>2, <3>2
      <3>3. QED
        BY <3>1, <3>2
    <2>6. NoneLeft'
      BY <1>1, <1>2, <1>3, <2>2 DEF AttrFits, NoneLeft
    <2>7. \A b \in Attr \cap alive' : lists'.link[b].parent \in alive' \cup {Null}
      BY <1>1, <1>2, <1>3, <2>2
    <2>8. doomed' = {} /\ Consistent(lists') /\ Ordered(lists')
      BY <1>1, <1>2, <1>3, <2>2, <2>3
    <2>9. QED
      BY ONLY <1>9, <2>5, <2>6, <2>7, <2>8, TurnFits
  <1>11. QED
    BY <1>9, <1>10 DEF AttrInv

LEMMA RenameFits ==
  ASSUME AttrInv, NEW a \in Attr, NEW k \in Names, Rename(a, k)
  PROVE  AttrInv'
  <1>1. PICK listed : listed = {e \in Elem : a \in Attributes(lists, e)}
    OBVIOUS
  <1>2. PICK o : o = name[a]
    OBVIOUS
  <1>3. /\ Turn /\ o \in Key /\ k \in Key /\ o # k
        /\ name' = [name EXCEPT ![a] = k]
        /\ orderly' = (\A e \in listed : Found(e, k) = {} /\ Found(e, o) = {a})
        /\ said' = [e \in Elem |->
             IF e \in listed THEN [said[e] EXCEPT ![o] = Null, ![k] = text[a]] ELSE said[e]]
        /\ UNCHANGED <<lists, text, alive, kept, doomed>>
    BY <1>1, <1>2 DEF Rename, Key
  <1>4. /\ orderly = TRUE /\ doomed = {} /\ AttrTypes /\ AttrFits
        /\ \A b \in Attr : lists.link[b].parent \in alive \cup {Null}
        /\ \A f \in Elem : Says(Attributes(lists, f), name, text, said[f])
        /\ \A b \in Attr : text[b] # Null
    BY <1>3, TurnIs
  <1>5. /\ lists \in Lists /\ Consistent(lists) /\ Ordered(lists) /\ name \in [Attr -> Key]
        /\ text \in [Attr -> Seq(Letter)] /\ said \in [Elem -> [Key -> Seq(Letter) \cup {Null}]]
    BY <1>4 DEF AttrTypes, AttrFits
  <1>6. name' \in [Attr -> Key] /\ name'[a] = k /\ \A b \in Attr : b # a => name'[b] = name[b]
    BY <1>3, <1>5
  <1>7. text[a] \in Seq(Letter)
    BY <1>5
  <1>8. /\ said' \in [Elem -> [Key -> Seq(Letter) \cup {Null}]]
        /\ \A f \in Elem : f \notin listed => said'[f] = said[f]
        /\ \A f \in listed : \A j \in Key :
             said'[f][j] = IF j = k THEN text[a] ELSE IF j = o THEN Null ELSE said[f][j]
    <2>1. ASSUME NEW f \in Elem
          PROVE  /\ said'[f] \in [Key -> Seq(Letter) \cup {Null}]
                 /\ f \notin listed => said'[f] = said[f]
                 /\ f \in listed => \A j \in Key :
                      said'[f][j] = IF j = k THEN text[a] ELSE IF j = o THEN Null ELSE said[f][j]
      <3>1. said[f] \in [Key -> Seq(Letter) \cup {Null}]
        BY <1>5
      <3>2. said'[f] = IF f \in listed THEN [said[f] EXCEPT ![o] = Null, ![k] = text[a]] ELSE said[f]
        BY <1>3
      <3>3. QED
        BY <1>3, <1>7, <3>1, <3>2
    <2>2. listed \subseteq Elem
      BY <1>1
    <2>3. said' = [f \in Elem |-> said'[f]]
      BY <1>3
    <2>4. QED
      BY <2>1, <2>2, <2>3
  <1>9. AttrTypes'
    <2>1. orderly' \in BOOLEAN
      BY <1>3
    <2>2. QED
      BY <1>3, <1>4, <1>6, <1>8, <2>1 DEF AttrTypes
  <1>10. ASSUME orderly' PROVE AttrFits'
    <2>1. ASSUME NEW f \in Elem PROVE Says(Attributes(lists', f), name', text', said'[f])
      <3>1. PICK A, s, s2, n2 : A = Attributes(lists, f) /\ s = said[f] /\ s2 = said'[f] /\ n2 = name'
        OBVIOUS
      <3>2. Says(A, name, text, s) /\ A \in SUBSET Attr
        BY <1>4, <1>5, <3>1, AttributesAre
      <3>3. CASE f \in listed
        <4>1. a \in A /\ Found(f, k) = {} /\ Found(f, o) = {a}
          BY <1>1, <1>3, <1>10, <3>1, <3>3
        <4>2. \A b \in A : name[b] # k /\ (name[b] = o => b = a)
          BY <3>1, <4>1 DEF Found
        <4>3. PICK C, s1, B : C = {a} /\ s1 = [j \in Key |-> IF j = o THEN Null ELSE s[j]] /\ B = A \ C
          OBVIOUS
        <4>4. \A j \in Key : s1[j] = IF \E b \in C \cap A : name[b] = j THEN Null ELSE s[j]
          BY <1>2, <4>1, <4>3
        <4>5. Says(B, name, text, s1)
          BY ONLY <3>2, <4>3, <4>4, SaysLess
        <4>6. PICK t : t = text[a]
          OBVIOUS
        <4>7. /\ a \notin B /\ \A b \in B : n2[b] = name[b] /\ text[b] = text[b]
              /\ \A b \in B : name[b] # k
              /\ n2[a] = k /\ text[a] = t /\ t # Null
              /\ \A j \in Key : s2[j] = IF j = k THEN t ELSE s1[j]
          <5>1. a \notin B /\ B \subseteq A
            BY <4>3
          <5>2. \A b \in B : n2[b] = name[b] /\ name[b] # k
            BY <1>6, <3>1, <3>2, <4>2, <5>1
          <5>3. \A j \in Key : s2[j] = IF j = k THEN t ELSE s1[j]
            BY <1>8, <3>1, <3>3, <4>3, <4>6
          <5>4. QED
            BY <1>4, <1>6, <3>1, <4>6, <5>1, <5>2, <5>3
        <4>8. Says(B \cup {a}, n2, text, s2)
          BY ONLY <4>5, <4>7, SaysMore
        <4>9. B \cup {a} = A
          BY <4>1, <4>3
        <4>10. QED
          BY <1>3, <3>1, <4>8, <4>9
      <3>4. CASE f \notin listed
        <4>1. a \notin A
          BY <1>1, <3>1, <3>4
        <4>2. \A b \in A : n2[b] = name[b] /\ text[b] = text[b]
          BY <1>6, <3>1, <3>2, <4>1
        <4>3. Says(A, n2, text, s)
          BY ONLY <3>2, <4>2, SaysSame
        <4>4. QED
          BY <1>3, <1>8, <3>1, <3>4, <4>3
      <3>5. QED
        BY <3>3, <3>4
    <2>2. doomed' = {} /\ Consistent(lists') /\ Ordered(lists') /\ NoneLeft'
      BY <1>3, <1>4 DEF AttrFits, NoneLeft
    <2>3. \A b \in Attr \cap alive' : lists'.link[b].parent \in alive' \cup {Null}
      BY <1>3, <1>4
    <2>4. QED
      BY ONLY <1>9, <2>1, <2>2, <2>3, TurnFits
  <1>11. QED
    BY <1>9, <1>10 DEF AttrInv

\* Script's variables.
LEMMA KeptFits ==
  ASSUME AttrInv, Turn, kept' \subseteq alive,
         UNCHANGED <<lists, name, text, alive, doomed, orderly, said>>
  PROVE  AttrInv'
  <1>1. orderly = TRUE /\ doomed = {} /\ AttrTypes /\ AttrFits
    BY TurnIs
  <1>2. AttrTypes'
    BY <1>1 DEF AttrTypes
  <1>3. AttrFits'
    BY <1>1 DEF AttrFits, NoneLeft, LeadsToLasting, Lasting
  <1>4. QED
    BY <1>2, <1>3 DEF AttrInv

LEMMA KeepNodeFits ==
  ASSUME AttrInv, NEW n \in AtHand, KeepNode(n)
  PROVE  AttrInv'
  <1>1. Turn /\ kept' = kept \cup {n} /\ UNCHANGED <<lists, name, text, alive, doomed, orderly, said>>
    BY DEF KeepNode
  <1>2. kept' \subseteq alive
    BY <1>1, TurnIs
  <1>3. QED
    BY <1>1, <1>2, KeptFits

LEMMA DropNodeFits ==
  ASSUME AttrInv, NEW n, DropNode(n)
  PROVE  AttrInv'
  <1>1. Turn /\ kept' = kept \ {n} /\ UNCHANGED <<lists, name, text, alive, doomed, orderly, said>>
    BY DEF DropNode
  <1>2. kept' \subseteq alive
    BY <1>1 DEF AttrInv, AttrTypes
  <1>3. QED
    BY <1>1, <1>2, KeptFits

\* What is marked leads to what is marked only.
LEMMA CollectNodesFits ==
  ASSUME AttrInv, CollectNodes
  PROVE  AttrInv'
  <1>1. PICK M : M = Spread(kept, MarkedBy)
    OBVIOUS
  <1>2. /\ Turn /\ doomed' = alive \ M /\ orderly' \in BOOLEAN
        /\ UNCHANGED <<lists, name, text, alive, kept, said>>
    BY <1>1 DEF CollectNodes
  <1>3. /\ orderly = TRUE /\ doomed = {} /\ Lasting = alive /\ AttrTypes /\ AttrFits
        /\ Null \notin Attr /\ Null \notin Elem /\ Elem \cap Attr = {}
        /\ \A f \in Elem : Says(Attributes(lists, f), name, text, said[f])
    BY <1>2, TurnIs
  <1>4. kept \in SUBSET Nodes
    BY <1>3 DEF AttrTypes
  <1>5. PICK G \in [Nodes -> SUBSET Nodes] :
          (\A n \in Nodes : G[n] = MarkedBy(n) \ {Null}) /\ Closes(M, Nodes, kept, G)
    BY <1>1, <1>3, <1>4, SpreadMarked
  <1>6. /\ kept \subseteq M
        /\ \A n \in M : n \in Nodes /\ MarkedBy(n) \subseteq M \cup {Null}
    <2>1. M \in SUBSET Nodes /\ kept \subseteq M /\ \A n \in M : G[n] \subseteq M
      BY <1>5 DEF Closes
    <2>2. QED
      BY <1>5, <2>1
  <1>7. AttrTypes'
    BY <1>2, <1>3, <1>6 DEF AttrTypes
  <1>8. Lasting' = alive \cap M
    BY <1>2 DEF Lasting
  <1>9. LeadsToLasting'
    <2>1. ASSUME NEW a \in Attr \cap (alive \cap M)
          PROVE  {lists.link[a].parent, lists.link[a].next, lists.link[a].prev} \subseteq (alive \cap M) \cup {Null}
      <3>1. {lists.link[a].parent, lists.link[a].next, lists.link[a].prev} \subseteq alive \cup {Null}
        BY <1>3 DEF AttrFits, LeadsToLasting
      <3>2. a \notin Elem /\ MarkedBy(a) \subseteq M \cup {Null}
        BY <1>3, <1>6
      <3>3. {lists.link[a].parent, lists.link[a].next, lists.link[a].prev} \subseteq M \cup {Null}
        BY <3>2 DEF MarkedBy
      <3>4. QED
        BY <3>1, <3>3
    <2>2. ASSUME NEW e \in Elem \cap (alive \cap M)
          PROVE  lists.first[e] \in (alive \cap M) \cup {Null}
      <3>1. lists.first[e] \in alive \cup {Null}
        BY <1>3 DEF AttrFits, LeadsToLasting
      <3>2. MarkedBy(e) \subseteq M \cup {Null}
        BY <1>6
      <3>3. QED
        BY <3>1, <3>2 DEF MarkedBy
    <2>3. QED
      BY <1>2, <1>8, <2>1, <2>2 DEF LeadsToLasting
  <1>10. AttrFits'
    BY <1>2, <1>3, <1>9 DEF AttrFits, NoneLeft
  <1>11. QED
    BY <1>7, <1>10 DEF AttrInv

\* What lasts does not lead to a node that is finalized.
LEMMA FinalizeElementFits ==
  ASSUME AttrInv, NEW e \in Elem, FinalizeElement(e)
  PROVE  AttrInv'
  <1>1. PICK l : l = lists'
    OBVIOUS
  <1>2. /\ e \in doomed /\ doomed' = doomed \ {e} /\ alive' = alive \ {e}
        /\ l = Emptied(lists, e)
        /\ said' = [said EXCEPT ![e] = [k \in Key |-> Null]]
        /\ UNCHANGED <<name, text, kept, orderly>>
    BY <1>1 DEF FinalizeElement, Emptied
  <1>3. AttrTypes /\ lists \in Lists
    BY DEF AttrInv, AttrTypes
  <1>4. l \in Lists
    BY <1>2, <1>3 DEF Emptied, Lists
  <1>5. /\ said' \in [Elem -> [Key -> Seq(Letter) \cup {Null}]]
        /\ \A k \in Key : said'[e][k] = Null
        /\ \A f \in Elem : f # e => said'[f] = said[f]
    BY <1>2, <1>3 DEF AttrTypes
  <1>6. AttrTypes'
    BY <1>1, <1>2, <1>3, <1>4, <1>5 DEF AttrTypes
  <1>7. ASSUME orderly PROVE AttrFits'
    <2>1. AttrFits /\ Consistent(lists) /\ Ordered(lists)
      BY <1>7 DEF AttrInv, AttrFits
    <2>2. /\ Consistent(l) /\ l.link = lists.link
          /\ Attributes(l, e) = {} /\ l.first[e] = Null
          /\ \A f \in Elem : f # e => Attributes(l, f) = Attributes(lists, f) /\ l.first[f] = lists.first[f]
      BY <1>2, <1>3, <2>1, ClearedFits
    <2>3. Ordered(l)
      BY <2>1, <2>2 DEF Ordered
    <2>4. NoneLeft'
      <3>1. \A a \in Attr \ alive' : a \notin alive
        BY <1>2, AttrAssumption
      <3>2. QED
        BY <1>1, <1>2, <2>1, <2>2, <3>1 DEF NoneLeft, AttrFits
    <2>5. Lasting' = Lasting /\ e \notin Lasting
      BY <1>2 DEF Lasting
    <2>6. LeadsToLasting'
      BY <1>1, <2>1, <2>2, <2>5 DEF LeadsToLasting, AttrFits
    <2>7. ASSUME NEW f \in Elem \ doomed' PROVE Says(Attributes(l, f), name, text, said'[f])
      <3>1. CASE f = e
        BY <1>5, <2>2, <3>1 DEF Says
      <3>2. CASE f # e
        BY <1>2, <1>5, <2>1, <2>2, <3>2 DEF AttrFits
      <3>3. QED
        BY <3>1, <3>2
    <2>8. QED
      BY <1>1, <1>2, <2>2, <2>3, <2>4, <2>6, <2>7 DEF AttrFits
  <1>8. QED
    BY <1>2, <1>6, <1>7 DEF AttrInv

LEMMA FinalizeAttributeFits ==
  ASSUME AttrInv, NEW a \in Attr, FinalizeAttribute(a)
  PROVE  AttrInv'
  <1>1. PICK l : l = lists'
    OBVIOUS
  <1>2. /\ a \in doomed /\ doomed' = doomed \ {a} /\ alive' = alive \ {a}
        /\ l = Unlinked(lists, a)
        /\ name' = [name EXCEPT ![a] = Lang] /\ text' = [text EXCEPT ![a] = <<>>]
        /\ said' = Unsaid({a})
        /\ UNCHANGED <<kept, orderly>>
    BY <1>1 DEF FinalizeAttribute
  <1>3. /\ AttrTypes /\ lists \in Lists /\ name \in [Attr -> Key] /\ text \in [Attr -> Seq(Letter)]
        /\ \A b \in Attr : Len(text[b]) <= MaxText
    BY DEF AttrInv, AttrTypes
  <1>4. l \in Lists
    <2>1. PICK p, n, u : p = lists.link[a].prev /\ n = lists.link[a].next /\ u = lists.link[a].parent
      OBVIOUS
    <2>2. /\ p \in Attr \cup {Null} /\ n \in Attr \cup {Null}
          /\ lists.first \in [Elem -> Attr \cup {Null}] /\ lists.link \in [Attr -> Link]
      BY <1>3, <2>1, LinkIs DEF Lists
    <2>3. /\ l.first = [e \in Elem |-> IF e = u /\ lists.first[e] = a THEN n ELSE lists.first[e]]
          /\ l.link = [b \in Attr |->
               IF b = a THEN Loose
               ELSE [lists.link[b] EXCEPT !.prev = IF b = n THEN p ELSE @, !.next = IF b = p THEN n ELSE @]]
          /\ l = [first |-> l.first, link |-> l.link]
      BY <1>2, <2>1 DEF Unlinked
    <2>4. l.first \in [Elem -> Attr \cup {Null}]
      <3>1. l.first = [e \in Elem |-> IF e = u /\ lists.first[e] = a THEN n ELSE lists.first[e]]
        BY ONLY <2>3
      <3>2. ASSUME NEW e \in Elem
            PROVE  (IF e = u /\ lists.first[e] = a THEN n ELSE lists.first[e]) \in Attr \cup {Null}
        BY <2>2
      <3>3. QED
        BY ONLY <3>1, <3>2
    <2>5. ASSUME NEW b \in Attr PROVE l.link[b] \in Link
      <3>1. lists.link[b] \in Link /\ Loose \in Link
        BY <2>2 DEF Loose, Link
      <3>2. l.link[b] = IF b = a THEN Loose
               ELSE [lists.link[b] EXCEPT !.prev = IF b = n THEN p ELSE @, !.next = IF b = p THEN n ELSE @]
        BY ONLY <2>3, b \in Attr
      <3>3. QED
        BY <2>2, <3>1, <3>2 DEF Link
    <2>6. l.link = [b \in Attr |-> l.link[b]]
      BY ONLY <2>3
    <2>7. l.link \in [Attr -> Link]
      BY <2>5, <2>6
    <2>8. QED
      BY <2>3, <2>4, <2>7 DEF Lists
  <1>5. /\ name' \in [Attr -> Key] /\ text' \in [Attr -> Seq(Letter)]
        /\ \A b \in Attr : b # a => name'[b] = name[b] /\ text'[b] = text[b]
        /\ text'[a] = <<>>
    <2>1. Lang \in Key /\ <<>> \in Seq(Letter)
      BY DEF Key
    <2>2. QED
      BY <1>2, <1>3, <2>1
  <1>6. \A b \in Attr : Len(text'[b]) <= MaxText
    <2>1. Len(<<>>) <= MaxText
      BY AttrAssumption
    <2>2. QED
      BY <1>3, <1>5, <2>1
  <1>7. /\ said' \in [Elem -> [Key -> Seq(Letter) \cup {Null}]]
        /\ \A f \in Elem : \A k \in Key :
             said'[f][k] = IF \E b \in {a} \cap Attributes(lists, f) : name[b] = k THEN Null ELSE said[f][k]
    BY <1>2, <1>3 DEF AttrTypes, Unsaid
  <1>8. AttrTypes'
    <2>1. /\ kept' \subseteq alive' /\ doomed' \subseteq alive' /\ alive' \subseteq Nodes
          /\ kept' \cap doomed' = {} /\ orderly' \in BOOLEAN
      BY <1>2, <1>3 DEF AttrTypes
    <2>2. QED
      BY <1>1, <1>4, <1>5, <1>6, <1>7, <2>1 DEF AttrTypes
  <1>9. ASSUME orderly PROVE AttrFits'
    <2>1. AttrFits /\ Consistent(lists) /\ Ordered(lists) /\ Null \notin Attr /\ Elem \cap Attr = {}
      BY <1>9, AttrAssumption DEF AttrInv, AttrFits
    <2>2. /\ Consistent(l)
          /\ \A f \in Elem : Attributes(l, f) = Attributes(lists, f) \ {a}
          /\ l.link[a] = Loose
          /\ \A b \in Attr : b # a /\ lists.link[b].next # a /\ lists.link[b].prev # a => l.link[b] = lists.link[b]
          /\ \A f \in Elem : lists.first[f] # a => l.first[f] = lists.first[f]
      BY <1>2, <1>3, <2>1, UnlinkedFits
    <2>3. Ordered(l)
      BY <1>2, <1>3, <2>1, UnlinkedOrdered
    <2>4. Lasting' = Lasting /\ a \notin Lasting
      BY <1>2 DEF Lasting
    <2>5. NoneLeft'
      <3>1. ASSUME NEW b \in Attr \ alive' PROVE l.link[b] = Loose
        <4>1. CASE b = a
          BY <2>2, <4>1
        <4>2. CASE b # a
          <5>1. lists.link[b] = Loose
            BY <1>2, <2>1, <4>2 DEF NoneLeft, AttrFits
          <5>2. lists.link[b].next # a /\ lists.link[b].prev # a
            BY <2>1, <5>1 DEF Loose
          <5>3. QED
            BY <2>2, <4>2, <5>1, <5>2
        <4>3. QED
          BY <4>1, <4>2
      <3>2. ASSUME NEW f \in Elem \ alive' PROVE l.first[f] = Null
        <4>1. lists.first[f] = Null
          BY <1>2, <2>1 DEF NoneLeft, AttrFits
        <4>2. QED
          BY <2>1, <2>2, <4>1
      <3>3. QED
        BY <1>1, <3>1, <3>2 DEF NoneLeft
    <2>6. LeadsToLasting'
      <3>1. ASSUME NEW b \in Attr \cap Lasting
            PROVE  {l.link[b].parent, l.link[b].next, l.link[b].prev} \subseteq Lasting \cup {Null}
        <4>1. {lists.link[b].parent, lists.link[b].next, lists.link[b].prev} \subseteq Lasting \cup {Null}
          BY <2>1 DEF LeadsToLasting, AttrFits
        <4>2. b # a /\ lists.link[b].next # a /\ lists.link[b].prev # a
          BY <2>1, <2>4, <4>1
        <4>3. QED
          BY <2>2, <4>1, <4>2
      <3>2. ASSUME NEW f \in Elem \cap Lasting PROVE l.first[f] \in Lasting \cup {Null}
        <4>1. lists.first[f] \in Lasting \cup {Null}
          BY <2>1 DEF LeadsToLasting, AttrFits
        <4>2. QED
          BY <2>1, <2>2, <2>4, <4>1
      <3>3. QED
        BY <1>1, <2>4, <3>1, <3>2 DEF LeadsToLasting
    <2>7. ASSUME NEW f \in Elem \ doomed' PROVE Says(Attributes(l, f), name', text', said'[f])
      <3>1. f \in Elem \ doomed
        BY <1>2, <2>1
      <3>2. PICK A, s, s2, C : A = Attributes(lists, f) /\ s = said[f] /\ s2 = said'[f] /\ C = {a}
        OBVIOUS
      <3>3. Says(A, name, text, s) /\ A \in SUBSET Attr
        BY <1>3, <2>1, <3>1, <3>2, AttributesAre DEF AttrFits
      <3>4. \A k \in Key : s2[k] = IF \E b \in C \cap A : name[b] = k THEN Null ELSE s[k]
        BY <1>7, <3>2
      <3>5. PICK B : B = A \ C
        OBVIOUS
      <3>6. Says(B, name, text, s2)
        BY ONLY <3>3, <3>4, <3>5, SaysLess
      <3>7. \A b \in B : name'[b] = name[b] /\ text'[b] = text[b]
        BY <1>5, <3>2, <3>3, <3>5
      <3>8. Says(B, name', text', s2)
        BY <3>6, <3>7, SaysSame
      <3>9. QED
        BY <2>2, <3>2, <3>5, <3>8
    <2>8. QED
      BY <1>1, <2>2, <2>3, <2>5, <2>6, <2>7 DEF AttrFits
  <1>10. QED
    BY <1>2, <1>8, <1>9 DEF AttrInv

LEMMA AttrInitFits ==
  ASSUME AttrInit
  PROVE  AttrInv
  <1>1. /\ lists.first = [e \in Elem |-> Null] /\ lists.link = [a \in Attr |-> Loose]
        /\ lists = [first |-> lists.first, link |-> lists.link]
        /\ name = [a \in Attr |-> Lang] /\ text = [a \in Attr |-> <<>>]
        /\ alive = {} /\ kept = {} /\ doomed = {} /\ orderly = TRUE
        /\ said = [e \in Elem |-> [k \in Key |-> Null]]
    BY DEF AttrInit
  <1>2. Loose \in Link /\ Loose.next = Null /\ Loose.prev = Null
    BY DEF Loose, Link
  <1>3. lists.link \in [Attr -> Link] /\ lists.first \in [Elem -> Attr \cup {Null}]
    BY <1>1, <1>2
  <1>4. lists \in Lists
    BY <1>1, <1>3 DEF Lists
  <1>5. AttrTypes
    <2>1. name \in [Attr -> Key]
      BY <1>1 DEF Key
    <2>2. text \in [Attr -> Seq(Letter)] /\ \A a \in Attr : Len(text[a]) <= MaxText
      BY <1>1, AttrAssumption
    <2>3. said \in [Elem -> [Key -> Seq(Letter) \cup {Null}]]
      BY <1>1
    <2>4. QED
      BY <1>1, <1>4, <2>1, <2>2, <2>3 DEF AttrTypes
  <1>6. Consistent(lists)
    BY <1>1, <1>2 DEF Consistent
  <1>7. Ordered(lists)
    <2>1. PICK r : r = [a \in Attr |-> 0]
      OBVIOUS
    <2>2. r \in [Attr -> Nat] /\ \A a \in Attr : lists.link[a].next = Null
      BY <1>1, <1>2, <2>1
    <2>3. QED
      BY <2>2 DEF Ordered
  <1>8. ASSUME NEW e \in Elem PROVE Says(Attributes(lists, e), name, text, said[e])
    <2>1. Attributes(lists, e) = {}
      BY <1>1, <1>4, <1>6, AttributesAre
    <2>2. QED
      BY <1>1, <2>1 DEF Says
  <1>9. NoneLeft /\ LeadsToLasting
    BY <1>1 DEF NoneLeft, LeadsToLasting, Lasting
  <1>10. QED
    BY <1>5, <1>6, <1>7, <1>8, <1>9 DEF AttrInv, AttrFits

LEMMA AttrKept ==
  ASSUME AttrInv, [AttrNext]_attrVars
  PROVE  AttrInv'
  <1>1. ASSUME NEW e \in AtHand \cap Elem, ClearFirst(e) PROVE AttrInv'
    BY <1>1, ClearFirstFits
  <1>2. ASSUME NEW e \in AtHand \cap Elem, NEW t \in Words, SetLang(e, t) PROVE AttrInv'
    BY <1>2, SetLangFits
  <1>3. ASSUME NEW e \in AtHand \cap Elem, NEW k \in Key, UnsetAttribute(e, k) PROVE AttrInv'
    <2>1. PICK a \in Found(e, k) : Relist(Unlinked(lists, a), {a}, TRUE)
      BY <1>3 DEF UnsetAttribute
    <2>2. Attributes(lists, e) \in SUBSET Attr
      BY ChainIs DEF AttrInv, AttrTypes, Attributes, Lists
    <2>3. a \in Attr
      BY <2>2 DEF Found
    <2>4. QED
      BY <2>1, <2>3, UnlinkingFits
  <1>4. ASSUME NEW e \in AtHand \cap Elem, NEW k \in Names, NEW t \in Words, SetAttribute(e, k, t) PROVE AttrInv'
    BY <1>4, SetAttributeFits
  <1>5. ASSUME NEW e \in AtHand \cap Elem, NEW a \in AtHand \cap Attr, SetFirst(e, a) PROVE AttrInv'
    BY <1>5, SetFirstKeeps
  <1>6. ASSUME NEW e \in AtHand \cap Elem, NEW a \in Attr, NEW k \in Names, NEW t \in Words, AddAttribute(e, a, k, t)
        PROVE  AttrInv'
    BY <1>6, AddAttributeFits
  <1>7. ASSUME NEW a \in AtHand \cap Attr, UnlinkAttribute(a) PROVE AttrInv'
    BY <1>7, UnlinkingFits DEF UnlinkAttribute
  <1>8. ASSUME NEW a \in AtHand \cap Attr, ClearAttrParent(a) PROVE AttrInv'
    BY <1>8, ClearAttrParentFits
  <1>9. ASSUME NEW a \in AtHand \cap Attr, AssignAttrParent(a) PROVE AttrInv'
    BY <1>9, AssignAttrParentFits
  <1>10. ASSUME NEW a \in AtHand \cap Attr, NEW t \in Words, SetContent(a, t) \/ AddContent(a, t) PROVE AttrInv'
    BY <1>10, SetContentFits, AddContentFits
  <1>11. ASSUME NEW a \in AtHand \cap Attr, NEW k \in Names, Rename(a, k) PROVE AttrInv'
    BY <1>11, RenameFits
  <1>12. ASSUME NEW a \in Attr, NEW k \in Names, NEW t \in Words, NewAttribute(a, k, t) PROVE AttrInv'
    BY <1>12, NewAttributeFits
  <1>13. ASSUME NEW e \in AtHand \cap Elem, NEW a \in Attr, NEW k \in Names, NEW t \in Words, NewAttributeOf(e, a, k, t)
         PROVE  AttrInv'
    BY <1>13, NewAttributeOfFits
  <1>14. ASSUME NEW e \in Elem, NewElement(e) \/ FinalizeElement(e) PROVE AttrInv'
    BY <1>14, NewElementFits, FinalizeElementFits
  <1>15. ASSUME NEW a \in Attr, FinalizeAttribute(a) PROVE AttrInv'
    BY <1>15, FinalizeAttributeFits
  <1>16. ASSUME NEW n \in AtHand, KeepNode(n) PROVE AttrInv'
    BY <1>16, KeepNodeFits
  <1>17. ASSUME NEW n \in kept, DropNode(n) PROVE AttrInv'
    BY <1>17, DropNodeFits
  <1>18. CASE CollectNodes
    BY <1>18, CollectNodesFits
  <1>19. CASE UNCHANGED attrVars
    BY <1>19 DEF attrVars, AttrInv, AttrTypes, AttrFits, NoneLeft, LeadsToLasting, Lasting
  <1>20. QED
    BY <1>1, <1>2, <1>3, <1>4, <1>5, <1>6, <1>7, <1>8, <1>9, <1>10, <1>11, <1>12, <1>13, <1>14,
       <1>15, <1>16, <1>17, <1>18, <1>19
    DEF AttrNext

\* Whether a text was freed is known.
LEMMA StrayKept ==
  ASSUME stray \in BOOLEAN, [AttrNext]_attrVars
  PROVE  stray' \in BOOLEAN
  <1>1. ASSUME NEW e, NEW k, NEW t,
               SetLang(e, t) \/ SetAttribute(e, k, t)
        PROVE  stray' \in BOOLEAN
    BY <1>1 DEF SetLang, SetAttribute, AddAttribute, Born, Freeing
  <1>2. ASSUME NEW e, NEW a, NEW k, NEW t,
               AddAttribute(e, a, k, t) \/ NewAttribute(a, k, t) \/ NewAttributeOf(e, a, k, t)
        PROVE  stray' \in BOOLEAN
    BY <1>2 DEF AddAttribute, NewAttribute, NewAttributeOf, Born
  <1>3. ASSUME NEW l, NEW C, NEW safe, Relist(l, C, safe)
        PROVE  stray' \in BOOLEAN
    BY <1>3 DEF Relist
  <1>4. ASSUME NEW e, NEW k, NEW a,
               ClearFirst(e) \/ UnsetAttribute(e, k) \/ UnlinkAttribute(a) \/ ClearAttrParent(a)
                 \/ AssignAttrParent(a)
        PROVE  stray' \in BOOLEAN
    BY <1>3, <1>4 DEF ClearFirst, UnsetAttribute, UnlinkAttribute, ClearAttrParent, AssignAttrParent
  <1>5. ASSUME NEW e, NEW a, NEW k, NEW t,
               SetFirst(e, a) \/ SetContent(a, t) \/ AddContent(a, t) \/ Rename(a, k)
        PROVE  stray' \in BOOLEAN
    BY <1>5 DEF SetFirst, SetContent, AddContent, Freeing, Rename
  <1>6. ASSUME NEW n, \/ NewElement(n) \/ FinalizeElement(n) \/ FinalizeAttribute(n)
                      \/ KeepNode(n) \/ DropNode(n) \/ CollectNodes \/ UNCHANGED attrVars
        PROVE  stray' \in BOOLEAN
    BY <1>6 DEF NewElement, FinalizeElement, FinalizeAttribute, KeepNode, DropNode, CollectNodes, attrVars
  <1>7. CASE AttrNext
    BY <1>1, <1>2, <1>4, <1>5, <1>6, <1>7 DEF AttrNext
  <1>8. QED
    BY <1>6, <1>7

LEMMA AttrInvSound ==
  ASSUME AttrInv, stray \in BOOLEAN
  PROVE  AttributesSound
  <1>1. AttrTypes /\ lists \in Lists /\ Null \notin Attr /\ Null \notin Elem
    BY AttrAssumption DEF AttrInv, AttrTypes
  <1>2. AttrTypeOK
    BY <1>1 DEF AttrTypeOK, AttrTypes, Lists, Link
  <1>3. Threaded
    <2>1. SUFFICES ASSUME orderly, NEW e \in Elem, NEW a \in Attributes(lists, e)
                   PROVE  /\ lists.link[a].parent = e
                          /\ IF lists.first[e] = a THEN lists.link[a].prev = Null
                             ELSE lists.link[a].prev \in Attributes(lists, e)
                                  /\ lists.link[lists.link[a].prev].next = a
                          /\ a \notin Chain(lists, lists.link[a].next)
      BY DEF Threaded
    <2>2. Consistent(lists)
      BY <2>1 DEF AttrInv, AttrFits
    <2>3. /\ a \in Attr /\ Attributes(lists, e) \in SUBSET Attr
          /\ lists.link[a].parent = e
          /\ a = lists.first[e] => lists.link[a].prev = Null
          /\ a # lists.first[e] => lists.link[a].prev \in Attributes(lists, e)
          /\ a \notin Chain(lists, Next(lists, a))
      BY <1>1, <2>2, AttributesAre
    <2>4. lists.link[a].prev \in Attr => lists.link[lists.link[a].prev].next = a
      BY <1>1, <2>2, <2>3 DEF Consistent
    <2>5. QED
      BY <2>3, <2>4 DEF Next
  <1>4. Standing
    <2>1. SUFFICES ASSUME orderly
                   PROVE  /\ AtHand \subseteq alive
                          /\ \A a \in alive \cap Attr : {lists.link[a].next, lists.link[a].prev} \subseteq alive \cup {Null}
                          /\ \A e \in alive \cap Elem : lists.first[e] \in alive \cup {Null}
                          /\ \A a \in (alive \cap Attr) \ doomed : lists.link[a].parent \in alive \cup {Null}
      BY DEF Standing
    <2>2. AttrFits
      BY <2>1 DEF AttrInv
    <2>3. AtHand \subseteq alive
      BY <1>1, <2>2, AtHandLasts
    <2>4. ASSUME NEW a \in Attr, NEW c \in {lists.link[a].next, lists.link[a].prev}, c # Null
          PROVE  c \in alive
      <3>1. c \in Attr
        BY <1>1, <2>4, LinkIs
      <3>2. lists.link[c].prev = a \/ lists.link[c].next = a
        BY <2>2, <2>4, <3>1 DEF AttrFits, Consistent
      <3>3. lists.link[c] # Loose
        BY <1>1, <3>2 DEF Loose
      <3>4. QED
        BY <2>2, <3>1, <3>3 DEF AttrFits, NoneLeft
    <2>5. ASSUME NEW e \in Elem, lists.first[e] # Null
          PROVE  lists.first[e] \in alive
      <3>1. PICK c : c = lists.first[e]
        OBVIOUS
      <3>2. c \in Attr /\ lists.link[c].parent = e
        BY <1>1, <2>2, <2>5, <3>1 DEF AttrFits, Consistent, Lists
      <3>3. lists.link[c] # Loose
        BY <1>1, <3>2 DEF Loose
      <3>4. QED
        BY <2>2, <3>1, <3>2, <3>3 DEF AttrFits, NoneLeft
    <2>6. \A a \in (alive \cap Attr) \ doomed : lists.link[a].parent \in alive \cup {Null}
      BY <2>2 DEF AttrFits, LeadsToLasting, Lasting
    <2>7. QED
      BY <2>3, <2>4, <2>5, <2>6
  <1>5. HasWhatWasSet
    <2>1. SUFFICES ASSUME orderly, NEW e \in alive \ doomed, e \in Elem, NEW k \in Key
                   PROVE  IF said[e][k] = Null THEN Found(e, k) = {}
                          ELSE \E a \in Attr : Found(e, k) = {a} /\ text[a] = said[e][k]
      BY DEF HasWhatWasSet
    <2>2. PICK A : A = Attributes(lists, e)
      OBVIOUS
    <2>3. Consistent(lists) /\ Says(A, name, text, said[e])
      BY <2>1, <2>2 DEF AttrInv, AttrFits
    <2>4. A \in SUBSET Attr /\ Found(e, k) = {a \in A : name[a] = k}
      BY <1>1, <2>1, <2>2, <2>3, AttributesAre DEF Found
    <2>5. IF said[e][k] = Null THEN \A a \in A : name[a] # k
          ELSE \E a \in A : name[a] = k /\ text[a] = said[e][k] /\ \A b \in A : name[b] = k => b = a
      BY <2>3 DEF Says
    <2>6. CASE said[e][k] = Null
      BY <2>4, <2>5, <2>6
    <2>7. CASE said[e][k] # Null
      <3>1. PICK a \in A : name[a] = k /\ text[a] = said[e][k] /\ \A b \in A : name[b] = k => b = a
        BY <2>5, <2>7
      <3>2. Found(e, k) = {a} /\ a \in Attr
        BY <2>4, <3>1
      <3>3. QED
        BY <2>7, <3>1, <3>2
    <2>8. QED
      BY <2>6, <2>7
  <1>6. QED
    BY <1>2, <1>3, <1>4, <1>5 DEF AttributesSound

\* As long as calls are among those provided for, the lists of attributes are
\* threaded in both directions whatever methods and setters changed them and
\* in whatever order, no element or attribute is freed that another of them
\* or script still leads to, and an element has what script set last. The
\* texts below attributes are not spoken of; from the collection on that
\* follows an assignment to an attribute with a content, nothing is said.
THEOREM AttributesSoundHolds == AttrSpec => []AttributesSound
  <1>1. AttrInit => AttrInv /\ stray \in BOOLEAN
    BY AttrInitFits DEF AttrInit
  <1>2. AttrInv /\ stray \in BOOLEAN /\ [AttrNext]_attrVars => AttrInv' /\ (stray \in BOOLEAN)'
    BY AttrKept, StrayKept
  <1>3. AttrInv /\ stray \in BOOLEAN => AttributesSound
    BY AttrInvSound
  <1>4. QED
    BY <1>1, <1>2, <1>3, PTL DEF AttrSpec
=============================================================================
