---------------------------- MODULE ContextScope ----------------------------
(***************************************************************************)
(* The current context of one thread: class init (the register and the two *)
(* operations on it), class current_context_scope (the stack discipline),  *)
(* and the life of context::impl, which is destroyed when the last         *)
(* boost::shared_ptr to it goes and enters its own context to do so.       *)
(*                                                                         *)
(* A handle is a context object's shared_ptr: two handles are equal iff    *)
(* they share one impl.  wrap = 0 is the owning impl of context::create;   *)
(* every Impl::wrap_context makes a fresh, non-owning impl, named here     *)
(* after the position of the scope object it is made for.                  *)
(***************************************************************************)
EXTENDS Naturals, Sequences, FiniteSets

CONSTANTS
  Context,   \* the JSContexts the program creates
  NoHandle,  \* the invalid context
  MaxDepth   \* bound: open scope objects, those of ~impl not counted

ASSUME MaxDepthAssumption == MaxDepth \in Nat \ {0}
ASSUME NoHandleAssumption == NoHandle \notin [ctx : Context, wrap : Nat]

VARIABLES
  current,   \* init::impl::current_context
  scopes,    \* the open current_context_scope objects, innermost last
  made,      \* JSContexts created so far
  held,      \* those of them the program holds a context object of
  carried,   \* those that an exception object has an owning context of
  caught,    \* the context of an exception that has just left a callback
  destroyed  \* those JS_DestroyContext was called on

others == <<made, held, carried, destroyed>>
vars == <<current, scopes, caught, others>>

Handle == [ctx : Context, wrap : Nat]
Own(c) == [ctx |-> c, wrap |-> 0]
Wrap(c) == [ctx |-> c, wrap |-> Len(scopes) + 1]

\* Why a scope object exists: C++ code opened it, the engine called back
\* into native code while running in the current context, context::gc
\* called back on a context, or ~impl of a context is running.
Kind == {"user", "call", "gc", "destroy"}
Scope ==
  {s \in [kind : Kind, c : Handle \cup {NoHandle}, old : Handle \cup {NoHandle}] :
     s.kind # "user" => s.c # NoHandle}

Depth == Len(scopes)
Top == scopes[Depth]

-----------------------------------------------------------------------------
(* init.cpp *)

\* init::leave_current_context: the register after it, and what it returns.
AfterLeave(c) == IF current = c THEN NoHandle ELSE current
\* Mutant of Leaves: the second half of the comparison is missing.
LeavesOwn(c) == current = c
Leaves(c) == current = c \/ current = NoHandle

(* current_context_scope.hpp *)

\* Mutant of Open: an invalid context is not entered.
OpenValid(kind, h) ==
  /\ scopes' = Append(scopes, [kind |-> kind, c |-> h, old |-> current])
  /\ current' = IF h = NoHandle THEN current ELSE h

\* The constructor: old = enter_current_context(c).
Open(kind, h) ==
  /\ scopes' = Append(scopes, [kind |-> kind, c |-> h, old |-> current])
  /\ current' = h

\* What the destructor of scope object s leaves in the register.
Restored(s) ==
  IF Leaves(s.c) /\ s.old # NoHandle THEN s.old ELSE AfterLeave(s.c)

Close ==
  /\ scopes # <<>>
  /\ current' = Restored(Top)
  /\ scopes' = SubSeq(scopes, 1, Depth - 1)

-----------------------------------------------------------------------------
(* context.cpp: who still owns an impl *)

\* Mutant of Referenced: a scope object keeps no reference in old.
ReferencedByC(c) ==
  \/ c \in held \cup carried
  \/ Own(c) \in {current, caught}
  \/ \E i \in DOMAIN scopes : Own(c) = scopes[i].c

\* The owning impl of c is referenced by the program, by an exception, by the
\* register or by a member of an open scope object.
Referenced(c) ==
  \/ c \in held \cup carried
  \/ Own(c) \in {current, caught}
  \/ \E i \in DOMAIN scopes : Own(c) \in {scopes[i].c, scopes[i].old}

BeingDestroyed(c) ==
  \E i \in DOMAIN scopes : scopes[i].kind = "destroy" /\ scopes[i].c.ctx = c

\* ~impl runs inside the step that drops the last reference; here it is the
\* next step, and nothing else happens before it.
Orphan(c) ==
  /\ c \in made \ destroyed
  /\ ~Referenced(c)
  /\ ~BeingDestroyed(c)

Settled == caught = NoHandle /\ \A c \in Context : ~Orphan(c)

\* The object whose member function gc() is running is not destroyed.
CollectedNow(c) ==
  \E i \in DOMAIN scopes : scopes[i].kind = "gc" /\ scopes[i].c.ctx = c

-----------------------------------------------------------------------------
Init ==
  /\ current = NoHandle
  /\ scopes = <<>>
  /\ made = {} /\ held = {} /\ carried = {} /\ destroyed = {}
  /\ caught = NoHandle

\* context::create
Create(c) ==
  /\ Settled
  /\ c \notin made
  /\ made' = made \cup {c}
  /\ held' = held \cup {c}
  /\ UNCHANGED <<current, scopes, carried, caught, destroyed>>

\* The program's last own context object for c goes out of scope.
Release(c) ==
  /\ Settled
  /\ c \in held
  /\ ~CollectedNow(c)
  /\ held' = held \ {c}
  /\ UNCHANGED <<current, scopes, made, carried, caught, destroyed>>

\* current_context_scope scope(c), on a context object of the program's, on
\* a copy of the current one or of one that is suspended (an exception has
\* such a copy, which ~exception::impl enters), also on an invalid context.
OpenScope(h) ==
  /\ Settled
  /\ Depth < MaxDepth
  /\ Open("user", h)
  /\ UNCHANGED <<caught, others>>

(***************************************************************************)
(* An exception keeps a copy of the context that is current when it is     *)
(* made, and may be all that refers to it when it is destroyed, which      *)
(* enters it. Bound: what is thrown in a callback is kept no longer than   *)
(* the code around the callback, which catches it, keeps it.               *)
(***************************************************************************)
KeepException ==
  /\ Settled
  /\ \E c \in Context : current = Own(c) /\ carried' = carried \cup {c}
  /\ UNCHANGED <<current, scopes, made, held, caught, destroyed>>

\* ~exception::impl: the scope object has the copy until it is destroyed.
EndException(c) ==
  /\ Settled
  /\ Depth < MaxDepth
  /\ c \in carried
  /\ carried' = carried \ {c}
  /\ Open("user", Own(c))
  /\ UNCHANGED <<made, held, caught, destroyed>>

\* The same at the end of FLUSSPFERD_CALLBACK_END, after the scope object of
\* the callback.
EndCaught ==
  /\ caught # NoHandle
  /\ \A c \in Context : ~Orphan(c)
  /\ Open("user", caught)
  /\ caught' = NoHandle
  /\ UNCHANGED others

\* Mutant of Callback: no check that a context is current.
CallbackUnchecked ==
  /\ Settled
  /\ Depth < MaxDepth
  /\ Open("call", current)
  /\ UNCHANGED <<caught, others>>

\* Script runs in the current context and the engine calls native code.
Callback ==
  /\ Settled
  /\ current # NoHandle
  /\ Depth < MaxDepth
  /\ Open("call", Wrap(current.ctx))
  /\ UNCHANGED <<caught, others>>

\* context::gc does not enter the context it collects: the finalizers and
\* trace operations it calls do.
GcCallback(c) ==
  /\ Settled
  /\ c \in held
  /\ Depth < MaxDepth
  /\ Open("gc", Wrap(c))
  /\ UNCHANGED <<caught, others>>

\* The innermost scope object is destroyed, by a return or by unwinding; what
\* leaves a callback is caught around it.
CloseScope ==
  /\ Settled
  /\ scopes # <<>> /\ Top.kind # "destroy"
  /\ Close
  /\ \/ UNCHANGED caught
     \/ Top.kind = "call" /\ caught' = Top.c
  /\ UNCHANGED others

\* Plain init::enter_current_context, as in test_init.cpp.
Enter(c) ==
  /\ Settled
  /\ scopes = <<>>
  /\ c \in held
  /\ current' = Own(c)
  /\ UNCHANGED <<scopes, caught, others>>

\* Plain init::leave_current_context on the current context, anywhere.
Leave ==
  /\ Settled
  /\ current # NoHandle
  /\ current' = AfterLeave(current)
  /\ UNCHANGED <<scopes, caught, others>>

\* ~impl: enter the context through a fresh wrapper; delete the registries
\* of rooted prototypes and constructors; JS_DestroyContext, whose final
\* collection may call finalizers back (GcCallback needs a held context, so
\* these are Callback: the context is the current one).
DestroyBegin(c) ==
  /\ caught = NoHandle
  /\ Orphan(c)
  /\ Open("destroy", Wrap(c))
  /\ UNCHANGED <<caught, others>>

DestroyEnd ==
  /\ Settled
  /\ scopes # <<>> /\ Top.kind = "destroy"
  /\ destroyed' = destroyed \cup {Top.c.ctx}
  /\ Close
  /\ UNCHANGED <<made, held, carried, caught>>

Enterable ==
  {Own(c) : c \in held} \cup {scopes[i].c : i \in DOMAIN scopes} \cup {current, NoHandle}

Next ==
  \/ \E c \in Context :
       \/ Create(c) \/ Release(c) \/ GcCallback(c) \/ Enter(c)
       \/ DestroyBegin(c) \/ EndException(c)
  \/ \E h \in Enterable : OpenScope(h)
  \/ KeepException \/ EndCaught
  \/ Callback \/ CloseScope \/ Leave \/ DestroyEnd

Spec == Init /\ [][Next]_vars

-----------------------------------------------------------------------------
(* Properties *)

\* The state has its types: the register and both members of every scope
\* object hold context handles.
TypeOK ==
  /\ current \in Handle \cup {NoHandle}
  /\ scopes \in Seq(Scope)
  /\ made \subseteq Context
  /\ held \subseteq Context
  /\ carried \subseteq Context
  /\ caught \in Handle \cup {NoHandle}
  /\ destroyed \subseteq Context

\* The register always holds the innermost scope's own context or nothing,
\* and so did each enclosing scope when the next one was opened.  It is what
\* the comparison by identity in leave_current_context relies on.
Chained ==
  /\ scopes # <<>> => current \in {Top.c, NoHandle}
  /\ \A i \in DOMAIN scopes :
       i > 1 => scopes[i].old \in {scopes[i - 1].c, NoHandle}

\* Destroying a scope object brings back the context that was current when
\* it was constructed, even if leave_current_context was called inside it
\* (current_context_scope.hpp, destructor).
Restores ==
  [][Len(scopes') < Len(scopes) => current' = Top.old]_vars

\* No context object that can become current, those of exceptions included
\* (exception.cpp:107-111), names a JSContext that JS_DestroyContext has
\* freed: wrappers do not own what they name, so they must be outlived by an
\* owner further down the stack.
Live(h) == h # NoHandle => h.ctx \in made \ destroyed
LiveHandles ==
  /\ Live(current) /\ Live(caught)
  /\ \A c \in carried : Live(Own(c))
  /\ \A i \in DOMAIN scopes : Live(scopes[i].c) /\ Live(scopes[i].old)

\* Why LiveHandles holds: a wrapper is backed by an owner of the same
\* context no further out than itself: an owning handle in a scope object,
\* the object gc() runs on, or the ~impl that is destroying the context...
OwnerAt(d, j) ==
  \/ scopes[j].kind \in {"gc", "destroy"} /\ scopes[j].c.ctx = d
  \/ Own(d) \in {scopes[j].c, scopes[j].old}

Backed ==
  \A i \in DOMAIN scopes :
    scopes[i].c # NoHandle => \E j \in 1 .. i : OwnerAt(scopes[i].c.ctx, j)

\* ... so is that of an exception that is about to be destroyed...
CaughtBacked ==
  caught # NoHandle =>
    \/ Own(caught.ctx) \in {caught, current}
    \/ \E j \in DOMAIN scopes : OwnerAt(caught.ctx, j)

\* ... outside every scope the register holds only owning handles...
OutermostOwns ==
  /\ scopes = <<>> /\ current # NoHandle => current.wrap = 0
  /\ scopes # <<>> /\ scopes[1].old # NoHandle => scopes[1].old.wrap = 0

\* ... and nothing outside a running ~impl still names its context, nor does
\* anything own it again.
LastOwnerGone ==
  \A k \in DOMAIN scopes :
    scopes[k].kind = "destroy" =>
      /\ ~Referenced(scopes[k].c.ctx)
      /\ \A j \in 1 .. k : scopes[j].old # NoHandle => scopes[j].old.ctx # scopes[k].c.ctx
      /\ \A j \in 1 .. k - 1 : scopes[j].c # NoHandle => scopes[j].c.ctx # scopes[k].c.ctx

LiveInv ==
  /\ LiveHandles
  /\ held \cup carried \subseteq made \ destroyed /\ destroyed \subseteq made
  /\ \A i \in DOMAIN scopes : scopes[i].kind = "gc" => scopes[i].c.ctx \in held
  /\ Backed
  /\ CaughtBacked
  /\ OutermostOwns
  /\ LastOwnerGone

\* The scope objects implement the stack of ContextStack: what each of them
\* keeps in old is what the stack has suspended.
Suspended == [i \in DOMAIN scopes |-> scopes[i].old]
Stack == INSTANCE ContextStack
           WITH Entry <- Handle, cur <- current, saved <- Suspended
ImplementsStack == Stack!Spec
=============================================================================
