----------------------------- MODULE CallBridge -----------------------------
(***************************************************************************)
(* Calls from C++ into script and from script into C++, nested, on several *)
(* contexts, and how an exception gets through them: as a C++ exception in *)
(* C++ code, as the pending exception of a JSContext in script, with       *)
(* FLUSSPFERD_CALLBACK_END and class exception translating between them.   *)
(* js_quit travels as the result JS_FALSE with no exception pending.       *)
(*                                                                         *)
(* The current context is that of the innermost frame: the stack that      *)
(* ContextScope implements.  Exceptions whose toString throws, and C++     *)
(* exceptions of other types than those below, are not modelled.           *)
(***************************************************************************)
EXTENDS Naturals, Sequences

CONSTANTS
  Context,     \* contexts
  Value,       \* script values that get thrown
  Error,       \* the Error object exception(char const*) makes
  Std, Quit,   \* a std::exception; js_quit
  None,        \* no exception
  MaxDepth     \* bound: nested frames

ASSUME ValueAssumption ==
  /\ Error \in Value
  /\ None \notin Value \cup {Std, Quit}
  /\ {Std, Quit} \cap Value = {} /\ Std # Quit
ASSUME MaxDepthAssumption == MaxDepth \in Nat

VARIABLES
  frames,   \* nested calls and scope objects, innermost last
  pending,  \* of each context: the engine's pending exception
  flight,   \* the C++ exception that is being thrown
  failing   \* the innermost frame is script that is being left for a failure

vars == <<frames, pending, flight, failing>>

\* Script is entered by evaluate, execute, or apply and call of class object;
\* C++ code runs in a native function or in a current_context_scope.
Script == {"evaluate", "execute", "apply"}
Frame == [kind : Script \cup {"native", "scope"}, ctx : Context]

Depth == Len(frames)
Top == frames[Depth]
Under == frames[Depth - 1]

Push(kind, c) ==
  /\ Depth < MaxDepth
  /\ frames' = Append(frames, [kind |-> kind, ctx |-> c])
Pop == frames' = SubSeq(frames, 1, Depth - 1)

Calm == flight = None /\ ~failing
InScript == frames # <<>> /\ Top.kind \in Script
InHost == ~InScript

-----------------------------------------------------------------------------
(* exception.cpp *)

\* exception(char const*): the value it gets, and what is pending after it.
Taken(c) == IF pending[c] # None THEN pending[c] ELSE Error
\* Mutant of Cleared: JS_ClearPendingException is not called.
Left(c) == pending

Cleared(c) == [pending EXCEPT ![c] = None]

\* Mutant of Thrown: std::exception is not told from class exception.
ThrownAsIs(c) == IF flight = Quit THEN pending ELSE [pending EXCEPT ![c] = flight]

\* exception::throw_js_INTERNAL, or js_quit, at the end of a native function
\* called on context c.
Thrown(c) ==
  CASE flight = Quit -> pending
    [] flight = Std -> [pending EXCEPT ![c] = Taken(c)]
    [] OTHER -> [pending EXCEPT ![c] = flight]

-----------------------------------------------------------------------------
Init ==
  /\ frames = <<>>
  /\ pending = [c \in Context |-> None]
  /\ flight = None
  /\ failing = FALSE

\* C++ code opens a current_context_scope, and leaves it.
OpenScope(c) ==
  /\ Calm /\ InHost
  /\ Push("scope", c)
  /\ UNCHANGED <<pending, flight, failing>>

CloseScope ==
  /\ Calm
  /\ frames # <<>> /\ Top.kind = "scope"
  /\ Pop
  /\ UNCHANGED <<pending, flight, failing>>

\* C++ code enters script on the current context.
Enter(entry) ==
  /\ Calm /\ InHost /\ frames # <<>>
  /\ Push(entry, Top.ctx)
  /\ UNCHANGED <<pending, flight, failing>>

\* Script calls a native function, a native object, or a hook of one.
CallNative ==
  /\ Calm /\ InScript
  /\ Push("native", Top.ctx)
  /\ UNCHANGED <<pending, flight, failing>>

Return ==
  /\ Calm
  /\ frames # <<>> /\ Top.kind # "scope"
  /\ Pop
  /\ UNCHANGED <<pending, flight, failing>>

\* Script throws, and catches what was thrown in it or came out of a native
\* function; it does not see a failure that has no pending exception.
ScriptThrow(v) ==
  /\ Calm /\ InScript
  /\ pending' = [pending EXCEPT ![Top.ctx] = v]
  /\ failing' = TRUE
  /\ UNCHANGED <<frames, flight>>

ScriptCatch ==
  /\ failing
  /\ pending[Top.ctx] # None
  /\ pending' = Cleared(Top.ctx)
  /\ failing' = FALSE
  /\ UNCHANGED <<frames, flight>>

\* Mutant of EntryFails: evaluate and execute throw nothing.
EntryFailsQuietly ==
  /\ failing
  /\ Pop
  /\ failing' = FALSE
  /\ flight' = IF Top.kind = "apply" THEN Taken(Under.ctx) ELSE None
  /\ pending' = Cleared(Under.ctx)

\* The engine leaves the innermost script for its failure, and the function
\* that entered it constructs an exception: apply throws it in any case,
\* evaluate and execute only if it is not empty.
EntryFails ==
  /\ failing
  /\ Pop
  /\ failing' = FALSE
  /\ flight' = IF pending[Under.ctx] # None \/ Top.kind = "apply" THEN Taken(Under.ctx) ELSE None
  /\ pending' = Cleared(Under.ctx)

\* C++ code throws exception(value), exception(char const*) or something
\* that is not a flusspferd::exception.
HostThrow(v) ==
  /\ Calm /\ InHost /\ frames # <<>>
  /\ flight' = v
  /\ UNCHANGED <<frames, pending, failing>>

HostError ==
  /\ Calm /\ InHost /\ frames # <<>>
  /\ flight' = Taken(Top.ctx)
  /\ pending' = Cleared(Top.ctx)
  /\ UNCHANGED <<frames, failing>>

\* Mutant of HostCatch: main has no handler for js_quit.
HostCatchNoQuit ==
  /\ flight \notin {None, Quit}
  /\ InHost
  /\ flight' = None
  /\ UNCHANGED <<frames, pending, failing>>

\* C++ code catches; js_quit only in main, outside every frame.
HostCatch ==
  /\ flight # None
  /\ InHost
  /\ flight = Quit => frames = <<>>
  /\ flight' = None
  /\ UNCHANGED <<frames, pending, failing>>

\* The destructor of a scope object runs during stack unwinding.
UnwindScope ==
  /\ flight # None
  /\ frames # <<>> /\ Top.kind = "scope"
  /\ Pop
  /\ UNCHANGED <<pending, flight, failing>>

\* FLUSSPFERD_CALLBACK_END: the scope object inside the try block is gone,
\* the current context is that of the calling script.
CallbackEnd ==
  /\ flight # None
  /\ frames # <<>> /\ Top.kind = "native"
  /\ Pop
  /\ pending' = Thrown(Under.ctx)
  /\ flight' = None
  /\ failing' = TRUE

Next ==
  \/ \E c \in Context : OpenScope(c)
  \/ \E entry \in Script : Enter(entry)
  \/ \E v \in Value : ScriptThrow(v)
  \/ \E v \in Value \cup {Std, Quit} : HostThrow(v)
  \/ CloseScope \/ CallNative \/ Return \/ ScriptCatch \/ EntryFails
  \/ HostError \/ HostCatch \/ UnwindScope \/ CallbackEnd

\* What is fair: unwinding waits for nothing, and main catches what reaches it.
Unwind ==
  UnwindScope \/ CallbackEnd \/ EntryFails \/ (frames = <<>> /\ HostCatch)

Spec == Init /\ [][Next]_vars

-----------------------------------------------------------------------------
(* Properties *)

\* The state has its types.
TypeOK ==
  /\ frames \in Seq(Frame)
  /\ pending \in [Context -> Value \cup {None}]
  /\ flight \in Value \cup {Std, Quit, None}
  /\ failing \in BOOLEAN

\* No exception is left pending behind the engine's back: one is pending
\* only in the context of the innermost script, while that is failing.
\* Otherwise the next exception(char const*), made for another failure,
\* would pick it up.
PendingOwned ==
  \A c \in Context : pending[c] # None => failing /\ InScript /\ Top.ctx = c

\* Why it holds: script runs in the context of the C++ code that entered it,
\* native code in that of the script that called it, so that the exception
\* is fetched from, and put into, the context it belongs to; and the two
\* ways of being under way exclude each other.
SameContext ==
  \A i \in DOMAIN frames :
    /\ frames[i].kind \in Script =>
         i > 1 /\ frames[i - 1].kind \notin Script /\ frames[i - 1].ctx = frames[i].ctx
    /\ frames[i].kind = "native" =>
         i > 1 /\ frames[i - 1].kind \in Script /\ frames[i - 1].ctx = frames[i].ctx
    /\ frames[i].kind = "scope" /\ i > 1 => frames[i - 1].kind \notin Script
OneWay ==
  /\ failing => InScript
  /\ flight # None => InHost /\ ~failing

BridgeInv == PendingOwned /\ SameContext /\ OneWay

\* Every exception, and every js_quit, comes to rest: caught, or taken as
\* the end of a script.
Moving == flight # None \/ failing
ComesToRest == Moving ~> ~Moving

\* The exception that moves, wherever it is kept, is that of ExceptionFlow.
InMotion ==
  CASE flight # None -> flight
    [] failing /\ pending[Top.ctx] # None -> pending[Top.ctx]
    [] failing /\ pending[Top.ctx] = None -> Quit
    [] OTHER -> None
Flow == INSTANCE ExceptionFlow
          WITH Exception <- Value \cup {Std, Quit}, Foreign <- {Std, Quit},
               depth <- Depth, moving <- InMotion
ImplementsFlow == Flow!FlowSpec
=============================================================================
