-------------------------------- MODULE Repl --------------------------------
(***************************************************************************)
(* The program flusspferd (programs/flusspferd.cpp): its options, the      *)
(* configuration and the files it runs, and the interactive loop, which    *)
(* collects lines until they are a unit that can be compiled.              *)
(*                                                                         *)
(* Of a script only matters whether it calls quit() and whether it throws; *)
(* it may do both, since not every call lets a quit pass.  Of a line only  *)
(* matters how many brackets it opens or closes.                           *)
(***************************************************************************)
EXTENDS Integers, Sequences

CONSTANTS
  Code,      \* the codes scripts call quit with
  NoQuit,    \* a script that does not
  MaxArgs,   \* bound: arguments of the command line, up to the script
  MaxLines   \* bound: lines of input

ASSUME CodeAssumption == Code \subseteq Nat /\ NoQuit \notin Code
ASSUME BoundAssumption == MaxArgs \in Nat /\ MaxLines \in Nat

VARIABLES
  phase,           \* how far main has got
  args,            \* the arguments looked at so far
  interactive, interactiveSet,
  files,           \* what is left to run before the loop
  running, exitCode,
  status,          \* the exit status of the process
  line, startline, \* of the loop: numbers of the last line and of the unit's first
  unit, nest,      \* lines in source and brackets open in it
  read, eof,       \* lines taken from the input, and whether it has ended
  quitInLoop       \* a unit of the loop called quit()

option == <<args, interactive, interactiveSet>>
loop == <<line, startline, unit, nest, read, eof>>
replVars == <<phase, option, files, running, exitCode, status, loop, quitInLoop>>

Runnable == {"-f", "-e", "script"}
Listed == {"-f", "-e", "-I", "-M", "script"}
Option == {"-f", "-e", "-I", "-M", "-i", "-0", "-c"}

ReplInit ==
  /\ phase = "options"
  /\ args = <<>> /\ interactive = TRUE /\ interactiveSet = FALSE
  /\ files = <<>>
  /\ running = FALSE /\ exitCode = 0 /\ status = 0
  /\ line = 0 /\ startline = 0 /\ unit = 0 /\ nest = 0
  /\ read = 0 /\ eof = FALSE
  /\ quitInLoop = FALSE

Exit(s) == phase' = "exited" /\ status' = s

\* Mutant of Ran: the exit code is written by scripts that do not quit.
RanAlways(code) ==
  /\ running' = (running /\ code = NoQuit)
  /\ exitCode' = code

\* What a script leaves in running and exitCode.
Ran(code) ==
  IF code = NoQuit THEN UNCHANGED <<running, exitCode>>
  ELSE running' = FALSE /\ exitCode' = code

-----------------------------------------------------------------------------
(* parse_cmdline *)

\* Mutant of Given: a script turns the loop off whatever was said before.
GivenLast(arg) == IF arg \in Runnable THEN FALSE ELSE interactive

\* Whether the loop is to run, after one more argument.
Given(arg) == IF arg \in Runnable /\ ~interactiveSet THEN FALSE ELSE interactive

Look(arg) ==
  /\ args' = Append(args, arg)
  /\ interactive' = (arg \in {"-i", "-0"} \/ Given(arg))
  /\ interactiveSet' = (interactiveSet \/ arg \in {"-i", "-0"})
  /\ files' = IF arg \in Listed THEN Append(files, arg) ELSE files

TakeOption(arg) ==
  /\ phase = "options"
  /\ Len(args) < MaxArgs
  /\ Look(arg)
  /\ UNCHANGED <<phase, running, exitCode, status, loop, quitInLoop>>

\* -h and -v throw js_quit, after which main returns 0; an option that is
\* unknown or lacks its argument is a std::runtime_error.
StopAtOption ==
  /\ phase = "options"
  /\ Len(args) < MaxArgs
  /\ \E s \in {0, 1} : Exit(s)
  /\ UNCHANGED <<option, files, running, exitCode, loop, quitInLoop>>

OptionsDone ==
  /\ phase = "options"
  /\ phase' = "config"
  /\ UNCHANGED <<option, files, running, exitCode, status, loop, quitInLoop>>

\* load_config executes the configuration file, and the prelude if the
\* configuration names one; then the arguments are handed to the module
\* system.  An exception ends the program.
Configure(script, then) ==
  /\ phase = script
  /\ \E code \in Code \cup {NoQuit} : Ran(code)
  /\ Exit(1) \/ (phase' = then /\ UNCHANGED status)
  /\ UNCHANGED <<option, files, loop, quitInLoop>>

LoadConfig == Configure("config", "prelude") \/ Configure("config", "system")
LoadPrelude == Configure("prelude", "system")
SetArgs == Configure("system", "script")

\* The first argument that is no option is a script, unless it is "-" (which
\* gets here only behind "--": elsewhere it is an invalid option).
TakeScript ==
  /\ phase = "script"
  /\ phase' = "files"
  /\ Look("script") \/ UNCHANGED <<option, files>>
  /\ UNCHANGED <<running, exitCode, status, loop, quitInLoop>>

-----------------------------------------------------------------------------
(* run *)

\* One of the files, expressions and modules is run; quit() ends that one,
\* an exception ends the program.  An include path is handed to script too.
RunFile ==
  /\ phase = "files" /\ files # <<>>
  /\ \E code \in Code \cup {NoQuit} : Ran(code)
  /\ files' = Tail(files)
  /\ Exit(1) \/ UNCHANGED <<phase, status>>
  /\ UNCHANGED <<option, loop, quitInLoop>>

NotInteractive ==
  /\ phase = "files" /\ files = <<>> /\ ~interactive
  /\ Exit(exitCode)
  /\ UNCHANGED <<option, files, running, exitCode, loop, quitInLoop>>

\* The history is loaded, which needs $HOME, and the loop entered.
EnterLoop ==
  /\ phase = "files" /\ files = <<>> /\ interactive
  /\ \/ Exit(1) /\ UNCHANGED running
     \/ phase' = "loop" /\ running' = TRUE /\ UNCHANGED status
  /\ UNCHANGED <<option, files, exitCode, loop, quitInLoop>>

\* getline: one more line of input, which opens or closes brackets.
Line(first) ==
  /\ read < MaxLines /\ ~eof
  /\ read' = read + 1
  /\ \E brackets \in {-1, 0, 1} : nest' = first + brackets
  /\ UNCHANGED eof

FirstLine ==
  /\ phase = "loop" /\ running /\ unit = 0
  /\ Line(0)
  /\ line' = line + 1 /\ startline' = line'
  /\ unit' = 1
  /\ UNCHANGED <<phase, option, files, running, exitCode, status, quitInLoop>>

\* Mutant of EndOfInput: the result of getline is not looked at.
EndOfInputIgnored ==
  /\ phase = "loop" /\ running /\ unit = 0
  /\ eof' = TRUE
  /\ UNCHANGED <<phase, option, files, running, exitCode, status>>
  /\ UNCHANGED <<line, startline, unit, nest, read, quitInLoop>>

EndOfInput ==
  /\ phase = "loop" /\ running /\ unit = 0
  /\ eof' = TRUE
  /\ Exit(exitCode)
  /\ UNCHANGED <<option, files, running, exitCode>>
  /\ UNCHANGED <<line, startline, unit, nest, read, quitInLoop>>

\* Mutant of NextLine: the line is not counted.
NextLineUncounted ==
  /\ phase = "loop" /\ unit > 0 /\ nest > 0
  /\ Line(nest) /\ unit' = unit + 1
  /\ UNCHANGED <<phase, option, files, running, exitCode, status, quitInLoop, line, startline>>

\* The unit is not complete: another line is asked for.
NextLine ==
  /\ phase = "loop" /\ unit > 0 /\ nest > 0
  /\ Line(nest) /\ unit' = unit + 1
  /\ line' = line + 1
  /\ UNCHANGED <<phase, option, files, running, exitCode, status, quitInLoop, startline>>

\* There the end of the input is not noticed: it is asked for again, and
\* counted as a line each time (here: up to MaxLines + 1).
NoNextLine ==
  /\ phase = "loop" /\ unit > 0 /\ nest > 0
  /\ eof' = TRUE
  /\ line' = IF line > MaxLines THEN line ELSE line + 1
  /\ UNCHANGED <<phase, option, files, running, exitCode, status, quitInLoop>>
  /\ UNCHANGED <<startline, unit, nest, read>>

\* Mutant of Evaluate: an exception makes up for a quit.
EvaluateGoesOn ==
  /\ phase = "loop" /\ unit > 0 /\ nest <= 0
  /\ unit' = 0 /\ nest' = 0
  /\ \E code \in Code \cup {NoQuit}, throws \in BOOLEAN :
       /\ IF throws THEN UNCHANGED <<running, exitCode>> ELSE Ran(code)
       /\ quitInLoop' = (code # NoQuit)
  /\ UNCHANGED <<phase, option, files, status, line, startline, read, eof>>

\* The unit is evaluated; exceptions are reported and the loop goes on.
Evaluate ==
  /\ phase = "loop" /\ unit > 0 /\ nest <= 0
  /\ unit' = 0 /\ nest' = 0
  /\ \E code \in Code \cup {NoQuit} : Ran(code) /\ quitInLoop' = (code # NoQuit)
  /\ UNCHANGED <<phase, option, files, status, line, startline, read, eof>>

LoopDone ==
  /\ phase = "loop" /\ ~running /\ unit = 0
  /\ Exit(exitCode)
  /\ UNCHANGED <<option, files, running, exitCode, loop, quitInLoop>>

ReplNext ==
  \/ \E arg \in Option : TakeOption(arg)
  \/ StopAtOption \/ OptionsDone
  \/ LoadConfig \/ LoadPrelude \/ SetArgs \/ TakeScript
  \/ RunFile \/ NotInteractive \/ EnterLoop
  \/ FirstLine \/ EndOfInput \/ NextLine \/ NoNextLine \/ Evaluate \/ LoopDone

ReplSpec == ReplInit /\ [][ReplNext]_replVars

-----------------------------------------------------------------------------
(* Properties *)

\* The state has its types.
ReplTypeOK ==
  /\ phase \in {"options", "config", "prelude", "system", "script", "files", "loop", "exited"}
  /\ args \in Seq(Option \cup {"script"}) /\ Len(args) <= MaxArgs + 1
  /\ interactive \in BOOLEAN /\ interactiveSet \in BOOLEAN
  /\ files \in Seq(Listed)
  /\ running \in BOOLEAN
  /\ exitCode \in Code \cup {0} /\ status \in Code \cup {0, 1}
  /\ line \in 0 .. MaxLines + 1 /\ startline \in 0 .. MaxLines
  /\ unit \in 0 .. read /\ nest \in -1 .. MaxLines
  /\ read \in 0 .. MaxLines /\ eof \in BOOLEAN
  /\ quitInLoop \in BOOLEAN

\* The loop is entered exactly if -i or -0 was given, at any place, or if
\* there was nothing to run (print_help: "Enter interactive mode (after
\* files)").
Wanted ==
  \/ \E i \in DOMAIN args : args[i] \in {"-i", "-0"}
  \/ \A i \in DOMAIN args : args[i] \notin Runnable
InteractiveAsAsked == phase \in {"files", "loop"} => interactive = Wanted

\* A unit is evaluated with the number of its first line: no line of input
\* is missing from the count or counted twice, however units are made up
\* (the exception's lineNumber depends on it).
LineNumbers ==
  phase = "loop" /\ unit > 0 /\ ~eof =>
    startline = read - unit + 1 /\ line = read

\* All of the above: the loop runs when it was asked for, and counts right.
LoopSound == ReplTypeOK /\ InteractiveAsAsked /\ LineNumbers

\* After a unit has called quit() nothing is read any more, also if the unit
\* threw or went on, and the exit status is the code it gave.
QuitEndsLoop ==
  [][quitInLoop => /\ UNCHANGED <<read, unit>>
                   /\ phase' = "exited" => status' = exitCode]_replVars

\* The program ends, unless its input ends within a unit.
EndsUnlessCut == <>(phase = "exited" \/ (eof /\ unit > 0))
=============================================================================
