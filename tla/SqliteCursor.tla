---------------------------- MODULE SqliteCursor ----------------------------
(***************************************************************************)
(* The SQLite3 plugin: one database handle, the cursors made from it, and  *)
(* what SQLite keeps for both.  Each cursor is closed by its method or by  *)
(* its finalizer, and so is the handle, in any order.                      *)
(*                                                                         *)
(* External, as far as the plugin uses it: a statement yields its rows in  *)
(* order, then reports the end; stepped once more it starts over; a        *)
(* connection that has statements refuses to close; a statement that is    *)
(* under way or at its end takes no binding.  The report of a misuse is    *)
(* not modelled, for it changes nothing.                                   *)
(***************************************************************************)
EXTENDS Naturals

CONSTANTS
  Cursor,  \* the cursors that script makes
  Rows,    \* rows that each statement yields
  Params   \* the number of its parameters

ASSUME RowsAssumption == Rows \in Nat /\ Params \in Nat

VARIABLES
  db,         \* sqlite3::db is not null
  connected,  \* SQLite has the connection open
  made,       \* cursors made
  sth,        \* those whose sth is not null
  state,      \* sqlite3_cursor::state of each
  at,         \* SQLite: rows its statement has yielded since it started
  last,       \* number of the last row that next has given to script, 0 if
              \* none since the cursor was made or reset
  bound,      \* SQLite: the parameters that have a value
  lost        \* cursors that have had a row next could not convert since then

sqliteVars == <<db, connected, made, sth, state, at, last, lost, bound>>

State == {"Init", "InProgress", "Finished", "Errored"}

SqliteInit ==
  /\ db = TRUE /\ connected = TRUE
  /\ made = {} /\ sth = {} /\ lost = {}
  /\ state = [c \in Cursor |-> "Init"]
  /\ at = [c \in Cursor |-> 0]
  /\ last = [c \in Cursor |-> 0]
  /\ bound = [c \in Cursor |-> {}]

-----------------------------------------------------------------------------
(* External: sqlite3_step on the statement of c.  After the end it is      *)
(* started again.                                                          *)

Started(c) == IF at[c] > Rows THEN 0 ELSE at[c]
StepRow(c) == Started(c) < Rows /\ at' = [at EXCEPT ![c] = Started(c) + 1]
StepDone(c) == Started(c) = Rows /\ at' = [at EXCEPT ![c] = Rows + 1]

-----------------------------------------------------------------------------
(* class sqlite3 *)

\* Mutant of MakeCursor: the statement is prepared, its cursor never made.
MakeCursorLeaks(c) ==
  /\ db /\ c \notin made
  /\ made' = made \cup {c} \/ UNCHANGED made
  /\ sth' = sth \cup {c}
  /\ UNCHANGED <<db, connected, state, at, last, lost, bound>>

\* cursor(sql); a statement that is empty is no statement.
MakeCursor(c) ==
  /\ db /\ c \notin made
  /\ made' = made \cup {c}
  /\ sth' = sth \cup {c} \/ UNCHANGED sth
  /\ UNCHANGED <<db, connected, state, at, last, lost, bound>>

\* Mutant of CloseDb: the connection is given up with all its statements.
CloseDbForced ==
  /\ db
  /\ db' = FALSE /\ connected' = FALSE
  /\ UNCHANGED <<made, sth, state, at, last, lost, bound>>

\* close(), or ~sqlite3: whether SQLite has closed is not looked at, and a
\* connection that has refused stays open for good.
CloseDb ==
  /\ db
  /\ db' = FALSE
  /\ connected' = (sth # {})
  /\ UNCHANGED <<made, sth, state, at, last, lost, bound>>

-----------------------------------------------------------------------------
(* class sqlite3_cursor *)

\* Mutant of Steps: a cursor that has reached the end is stepped again.
StepsAgain(c) == c \in sth /\ state[c] # "Errored"

\* When next asks SQLite at all: a closed cursor and one that has seen an
\* error throw, one at its end returns null.
Steps(c) == c \in sth /\ state[c] \notin {"Finished", "Errored"}

\* next() gives a row to script, or throws since it cannot convert it.
NextRow(c) ==
  /\ Steps(c)
  /\ StepRow(c)
  /\ state' = [state EXCEPT ![c] = "InProgress"]
  /\ \/ last' = [last EXCEPT ![c] = at'[c]] /\ UNCHANGED lost
     \/ lost' = lost \cup {c} /\ UNCHANGED last
  /\ UNCHANGED <<db, connected, made, sth, bound>>

NextDone(c) ==
  /\ Steps(c)
  /\ StepDone(c)
  /\ state' = [state EXCEPT ![c] = "Finished"]
  /\ UNCHANGED <<db, connected, made, sth, last, lost, bound>>

NextError(c) ==
  /\ Steps(c)
  /\ state' = [state EXCEPT ![c] = "Errored"]
  /\ UNCHANGED <<db, connected, made, sth, at, last, lost, bound>>

\* Mutant of Reset: sqlite3_reset is not called.
ResetState(c) ==
  /\ c \in made
  /\ state' = [state EXCEPT ![c] = "Init"]
  /\ last' = [last EXCEPT ![c] = 0]
  /\ lost' = lost \ {c}
  /\ UNCHANGED <<db, connected, made, sth, at, bound>>

\* reset(), which is also called on a closed cursor: SQLite ignores that.
Reset(c) ==
  /\ c \in made
  /\ state' = [state EXCEPT ![c] = "Init"]
  /\ at' = IF c \in sth THEN [at EXCEPT ![c] = 0] ELSE at
  /\ last' = [last EXCEPT ![c] = 0]
  /\ lost' = lost \ {c}
  /\ UNCHANGED <<db, connected, made, sth, bound>>

\* close(), or ~sqlite3_cursor.
CloseCursor(c) ==
  /\ c \in sth
  /\ sth' = sth \ {c}
  /\ UNCHANGED <<db, connected, made, state, at, last, lost, bound>>

\* bind(values): the parameters one after the other, those only for which
\* there is a value. It stops at k where a value cannot be converted, and at
\* the first that SQLite refuses; a closed cursor has no parameters.
Bind(c, values) ==
  /\ c \in made
  /\ \E k \in 1 .. Params + 1 :
       bound' = IF c \in sth /\ at[c] = 0
                THEN [bound EXCEPT ![c] = @ \cup {n \in values : n < k}] ELSE bound
  /\ UNCHANGED <<db, connected, made, sth, state, at, last, lost>>

SqliteNext ==
  \/ CloseDb
  \/ \E c \in Cursor :
       \/ MakeCursor(c) \/ NextRow(c) \/ NextDone(c) \/ NextError(c)
       \/ Reset(c) \/ CloseCursor(c)
       \/ \E values \in SUBSET (1..Params) : Bind(c, values)

SqliteSpec == SqliteInit /\ [][SqliteNext]_sqliteVars

-----------------------------------------------------------------------------
(* Properties *)

\* The state has its types.
TypeOK ==
  /\ db \in BOOLEAN /\ connected \in BOOLEAN
  /\ made \subseteq Cursor /\ sth \subseteq made /\ lost \subseteq made
  /\ state \in [Cursor -> State]
  /\ at \in [Cursor -> 0 .. Rows + 1]
  /\ last \in [Cursor -> 0 .. Rows]
  /\ bound \in [Cursor -> SUBSET (1..Params)]

\* A cursor that can still be stepped has a connection, also after close()
\* or the finalizer of the handle came first: that SQLite refuses to close
\* is what saves it.
StatementsBacked == sth # {} => connected

\* The cursor's own state says where the statement is: after reset, also
\* from an error or the end, the statement is at its start, and it is at its
\* end exactly when the cursor is.
StateAgrees ==
  \A c \in sth :
    /\ state[c] = "Init" => at[c] = 0
    /\ at[c] > Rows <=> state[c] = "Finished"

\* All of the above: cursors, their statements and the connection agree
\* (sqlite3::close, sqlite3_cursor::next, reset and close).
CursorsSound == TypeOK /\ StatementsBacked /\ StateAgrees

\* Between two resets a cursor gives each row at most once and in order,
\* and none is missing at the end but those that next failed on ("Next row
\* as an array, or null when end of results reached"). They are the rows of
\* one set of bindings, which a reset keeps.
RowsOnce ==
  [][\A c \in Cursor :
       /\ last'[c] # last[c] => last'[c] = 0 \/ last'[c] > last[c]
       /\ state'[c] = "Finished" /\ c \in sth /\ c \notin lost => last[c] = Rows
       /\ bound'[c] # bound[c] => at[c] = 0
       /\ bound[c] \subseteq bound'[c]]_sqliteVars
=============================================================================
