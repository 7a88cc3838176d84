------------------------------- MODULE Tests -------------------------------
(***************************************************************************)
(* The test framework of js/test.js: suites, whose cases make assertions   *)
(* and may run further suites, and the TAP lines that they print. The      *)
(* state of a suite serves as a case of its own, case 0, on whose account  *)
(* the lines about the cases go.                                           *)
(***************************************************************************)
EXTENDS Equiv, SequencesExt, TLC

CONSTANTS
  Suite,
  NCases,     \* test_ functions of a suite
  MaxAsserts, \* bound: assertions on one account
  MaxRuns,    \* bound: runs of suites
  Value       \* what assertions compare

ASSUME TestsAssumption == {NCases, MaxAsserts, MaxRuns} \subseteq Nat \ {0}

VARIABLES
  currentSuite, \* __currentSuite__: none or one suite, as a sequence
  state,        \* _state of a suite: its accounts, currentCase, runs
  depth,        \* paddDepth
  frames,       \* calls of runCase that have not returned, the last on top
  line,         \* the last line about a case
  callers,      \* equiv's constructors, between two comparisons
  compared,     \* the comparison of the last step: two values and the answer
  wrong,        \* cases with an assertion that did not hold
  within,       \* suites that have been run by a case of their own
  givenUp       \* suites of which a run has thrown

testVars == <<currentSuite, state, depth, frames, line, callers, compared, wrong, within,
              givenUp>>

Case == 1 .. NCases
Deleted == -1 \* currentCase is deleted
Fresh == [numAsserts |-> 0, failed |-> FALSE]

NewSuite == [account |-> [c \in 0 .. NCases |-> Fresh], current |-> Deleted, runs |-> 0]

TestInit ==
  /\ currentSuite = <<>>
  /\ state = [s \in Suite |-> NewSuite]
  /\ depth = [s \in Suite |-> 0]
  /\ frames = <<>>
  /\ line = <<>>
  /\ callers = <<>>
  /\ compared = <<>>
  /\ wrong = {}
  /\ within = {}
  /\ givenUp = {}

Inner == Last(frames)

\* do_assert: counts, and keeps what failed, for the current case.
DoAssert(st, ok) ==
  [st EXCEPT !.account[st.current].numAsserts = @ + 1,
             !.account[st.current].failed = @ \/ ~ok]

\* run, as far as the call of the first case's function: the current suite is
\* remembered for the end, and the padding for the end of the case.
Run(s) ==
  /\ FoldFunction(LAMBDA st, n : st.runs + n, 0, state) < MaxRuns
  /\ frames' = Append(frames, [suite |-> s, case |-> 1, old |-> currentSuite,
                               depth |-> depth[s]])
  /\ currentSuite' = <<s>>
  /\ state' = [state EXCEPT ![s].runs = @ + 1, ![s].current = 1]
  /\ depth' = [depth EXCEPT ![s] = @ + 1]
  /\ within' = IF \E i \in DOMAIN frames : frames[i].suite = s
               THEN within \union {s} ELSE within
  /\ line' = <<>>
  /\ compared' = <<>>
  /\ UNCHANGED <<callers, wrong, givenUp>>

(***************************************************************************)
(* finishCase, after a case that threw what test counts as an error or     *)
(* not, and the next case, or the end of run, which gives the current      *)
(* suite back. An error leaves the suite's own account the current one.    *)
(***************************************************************************)
Verdict(st, c, error) == ~(error \/ st.account[c].failed)

Finished(st, c, error) ==
  LET said == DoAssert([st EXCEPT !.current = 0], Verdict(st, c, error))
  IN IF error THEN said ELSE [said EXCEPT !.current = Deleted]

\* Mutant of RestoredSuite: there is no suite to go back to.
RestoredNone(frame) == <<>>
RestoredSuite(frame) == frame.old

EndCase(st, error, how) ==
  LET s == Inner.suite
      c == Inner.case
      done == Finished(st, c, error)
  IN /\ line' = <<[suite |-> s, case |-> c, how |-> how,
                   ok |-> Verdict(st, c, error), num |-> done.account[0].numAsserts]>>
     /\ \/ /\ c < NCases
           /\ frames' = [frames EXCEPT ![Len(frames)].case = c + 1]
           /\ state' = [state EXCEPT ![s] = [done EXCEPT !.current = c + 1]]
           /\ depth' = [depth EXCEPT ![s] = Inner.depth + 1]
           /\ UNCHANGED currentSuite
        \/ /\ c = NCases
           /\ frames' = Front(frames)
           /\ state' = [state EXCEPT ![s] = done]
           /\ depth' = [depth EXCEPT ![s] = Inner.depth]
           /\ currentSuite' = RestoredSuite(Inner)
     /\ compared' = <<>>
     /\ UNCHANGED <<wrong, within, givenUp>>

\* The function of the case returns.
Returns ==
  /\ frames # <<>>
  /\ EndCase(state[Inner.suite], FALSE, "returned")
  /\ UNCHANGED callers

\* It throws; what converts to false, as undefined and 0 do, is no error.
Throws ==
  /\ frames # <<>>
  /\ \/ EndCase(state[Inner.suite], TRUE, "threw")
     \/ EndCase(state[Inner.suite], FALSE, "threw a false value")
  /\ UNCHANGED callers

\* finishCase throws, as the error of the case does when it is made a text:
\* run ends, and gives the current suite back all the same. The case that has
\* called it goes on or throws itself.
RunThrows ==
  /\ frames # <<>>
  /\ frames' = Front(frames)
  /\ state' = [state EXCEPT ![Inner.suite].current = 0]
  /\ depth' = [depth EXCEPT ![Inner.suite] = Inner.depth]
  /\ currentSuite' = RestoredSuite(Inner)
  /\ givenUp' = givenUp \union {Inner.suite}
  /\ line' = <<>> /\ compared' = <<>>
  /\ UNCHANGED <<callers, wrong, within>>

(***************************************************************************)
(* The assertions ok, instanceOf and same: they go to the current suite.   *)
(* Without a current case they throw, which ends the case.                 *)
(***************************************************************************)
Asserted(ok) ==
  LET s == currentSuite[1]
  IN /\ state' = [state EXCEPT ![s] = DoAssert(@, ok)]
     /\ wrong' = IF ok THEN wrong ELSE wrong \union {<<Inner.suite, Inner.case>>}
     /\ line' = <<>>
     /\ UNCHANGED <<currentSuite, depth, frames, callers, within, givenUp>>

HasCase == currentSuite # <<>> /\ state[currentSuite[1]].current # Deleted

Ok(ok) ==
  /\ frames # <<>>
  /\ HasCase
  /\ LET st == state[currentSuite[1]] IN st.account[st.current].numAsserts < MaxAsserts
  /\ Asserted(ok)
  /\ compared' = <<>>

AssertFails ==
  /\ frames # <<>>
  /\ ~HasCase
  /\ EndCase(state[Inner.suite], TRUE, "threw")
  /\ UNCHANGED callers

\* same compares; bound: as the first assertion of all.
Unused ==
  \A s \in Suite :
    /\ state[s].runs = IF s = Inner.suite THEN 1 ELSE 0
    /\ \A c \in Case : state[s].account[c].numAsserts = 0
Innermost(stack) == IF stack = <<>> THEN "none" ELSE Last(stack)
Same(a, b) ==
  /\ LeftAt(a, b, Innermost(callers)) = {}
  /\ LET ok == InnerEquiv(a, b, Innermost(callers))
     IN /\ compared' = <<a, b, ok>>
        /\ Asserted(ok)

\* The comparison throws while properties of an object are compared: the
\* constructor stays on the stack of callers, above those around it, which
\* are left out. Bound: once.
SameThrows(a, b) ==
  /\ callers = <<>>
  /\ \E class \in LeftAt(a, b, "none") : callers' = Append(callers, class)
  /\ EndCase(state[Inner.suite], TRUE, "threw")

Compares ==
  /\ frames # <<>>
  /\ HasCase
  /\ Unused
  /\ \E a, b \in Value : Same(a, b) \/ SameThrows(a, b)

TestNext ==
  \/ \E s \in Suite : Run(s)
  \/ Returns \/ Throws \/ AssertFails
  \/ \E ok \in BOOLEAN : Ok(ok)
  \/ RunThrows
  \/ Compares

-----------------------------------------------------------------------------
TestTypeOK ==
  /\ currentSuite \in {<<>>} \union {<<s>> : s \in Suite}
  /\ \A s \in Suite :
       /\ \A c \in 0 .. NCases : state[s].account[c].numAsserts \in Nat
       /\ state[s].current \in {Deleted} \union 0 .. NCases
       /\ depth[s] = Cardinality({i \in DOMAIN frames : frames[i].suite = s})
  /\ \A i \in DOMAIN frames : frames[i].suite \in Suite /\ frames[i].case \in Case

\* Assertions go to the suite whose case makes them, also after the case has
\* run other suites and these have thrown.
Attributed ==
  currentSuite = IF frames = <<>> THEN <<>> ELSE <<Inner.suite>>

\* A case is reported as failed if it throws an error, or if one of its own
\* assertions has failed, in this run of its suite or in an earlier one, and
\* not because of a suite that it runs; unless it runs its own suite.
VerdictRight ==
  \A i \in DOMAIN line :
    line[i].suite \notin within =>
      (line[i].ok <=> /\ line[i].how # "threw"
                      /\ <<line[i].suite, line[i].case>> \notin wrong)

\* The lines about the cases of a suite have the numbers up to its plan, if
\* none of its runs has thrown.
Numbered ==
  \A i \in DOMAIN line :
    line[i].suite \notin within \union givenUp =>
      line[i].num = NCases * (state[line[i].suite].runs - 1) + line[i].case

Right ==
  compared[3] <=> Compared(compared[1], "none") = Compared(compared[2], "none")


\* "skip when the property is a method of an instance (OOP)", "abort
\* otherwise" (js/test/equiv.js:107-108): whatever comparisons came before,
\* nothing else is passed over.
SkipsMethodsOnly == compared # <<>> => Right

\* What a test run says is what happened in it (js/test.js).
Tested == TestTypeOK /\ Attributed /\ VerdictRight /\ Numbered
=============================================================================
