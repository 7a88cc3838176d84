----------------------------- MODULE CoreProofs -----------------------------
(***************************************************************************)
(* Theorems about two parts of the core that share no state.  ContextScope,*)
(* for every set of contexts and every depth: the register is the top of a *)
(* stack of scopes, a closed scope restores what it found, the scopes      *)
(* implement ContextStack, and no handle names a JSContext that has been   *)
(* destroyed.  ByteArray, for all bytes, delimiters and lengths: what each *)
(* method does is what its arguments mean.                                 *)
(***************************************************************************)
EXTENDS ContextScope, ByteArray, Integers, StackLemmas, SequenceTheorems, TLAPS

-----------------------------------------------------------------------------
(***************************************************************************)
(* ContextScope                                                            *)
(***************************************************************************)

-----------------------------------------------------------------------------
(* What opening and closing a scope object do to the stack of scopes. *)

\* Opening appends one scope object and leaves the others as they are.
LEMMA OpenFacts ==
  ASSUME TypeOK, NEW k \in Kind, NEW h \in Handle \cup {NoHandle},
         k # "user" => h # NoHandle,
         Open(k, h)
  PROVE  /\ scopes' \in Seq(Scope)
         /\ Len(scopes) \in Nat
         /\ Len(scopes') = Len(scopes) + 1
         /\ \A i \in 1 .. Len(scopes) : scopes'[i] = scopes[i]
         /\ scopes'[Len(scopes) + 1] = [kind |-> k, c |-> h, old |-> current]
         /\ current' = h
  <1> DEFINE s == [kind |-> k, c |-> h, old |-> current]
  <1>1. s \in Scope
    BY DEF TypeOK, Scope
  <1>2. scopes \in Seq(Scope)
    BY DEF TypeOK
  <1>3. scopes' = Append(scopes, s) /\ current' = h
    BY DEF Open
  <1> HIDE DEF s
  <1>4. QED
    BY <1>1, <1>2, <1>3, AppendProperties DEF s

\* Closing removes the innermost scope object and nothing else.
LEMMA CloseFacts ==
  ASSUME TypeOK, Close
  PROVE  /\ Len(scopes) \in Nat /\ Len(scopes) > 0
         /\ scopes' \in Seq(Scope)
         /\ Len(scopes') = Len(scopes) - 1
         /\ \A i \in 1 .. Len(scopes) - 1 : scopes'[i] = scopes[i]
         /\ Top \in Scope
         /\ current' = Restored(Top)
  BY AllButLast DEF TypeOK, Close, Top, Depth

\* A step opens a scope object, closes one, or leaves the stack alone; in
\* the last case the register is carried, emptied, or set outside every scope.
Quiet ==
  /\ scopes' = scopes
  /\ \/ current' \in {current, NoHandle}
     \/ scopes = <<>> /\ \E c \in held : current' = Own(c)

Opens ==
  \E k \in Kind, h \in Handle \cup {NoHandle} :
    (k # "user" => h # NoHandle) /\ Open(k, h)

LEMMA HandleFacts ==
  ASSUME TypeOK
  PROVE  /\ \A c \in Context : Own(c) \in Handle /\ Wrap(c) \in Handle
         /\ current # NoHandle => Wrap(current.ctx) \in Handle
         /\ NoHandle \notin Handle
  <1>1. Len(scopes) + 1 \in Nat
    BY DEF TypeOK
  <1>2. QED
    BY <1>1, NoHandleAssumption DEF TypeOK, Own, Wrap, Handle

LEMMA NoHandleIsNone ==
  \A c \in Context : Own(c) # NoHandle
  BY NoHandleAssumption DEF Own

LEMMA EnterableHandles ==
  ASSUME TypeOK
  PROVE  Enterable \subseteq Handle \cup {NoHandle}
  <1>1. \A i \in DOMAIN scopes : scopes[i].c \in Handle \cup {NoHandle}
    BY DEF TypeOK, Scope
  <1>2. QED
    BY <1>1, HandleFacts DEF TypeOK, Enterable

LEMMA StepShape ==
  ASSUME TypeOK, [Next]_vars
  PROVE  Opens \/ Close \/ Quiet
  <1> USE HandleFacts DEF Kind
  <1>1. CASE UNCHANGED vars
    BY <1>1 DEF vars, Quiet
  <1>2. ASSUME NEW c \in Context, Create(c) \/ Release(c) \/ Enter(c)
        PROVE  Quiet
    BY <1>2 DEF Create, Release, Enter, Quiet
  <1>3. ASSUME NEW c \in Context, GcCallback(c) \/ DestroyBegin(c) \/ EndException(c)
        PROVE  Opens
    BY <1>3 DEF GcCallback, DestroyBegin, EndException, Opens
  <1>4. ASSUME NEW h \in Enterable, OpenScope(h)
        PROVE  Opens
    <2>1. h \in Handle \cup {NoHandle}
      BY EnterableHandles
    <2>2. Open("user", h)
      BY <1>4 DEF OpenScope
    <2>3. QED
      BY <2>1, <2>2 DEF Opens
  <1>5. CASE Callback
    BY <1>5 DEF Callback, Opens
  <1>6. CASE CloseScope \/ DestroyEnd
    BY <1>6 DEF CloseScope, DestroyEnd
  <1>7. CASE Leave
    BY <1>7 DEF Leave, AfterLeave, Quiet
  <1>8. CASE KeepException
    BY <1>8 DEF KeepException, Quiet
  <1>9. CASE EndCaught
    BY <1>9 DEF EndCaught, Opens, TypeOK
  <1>10. QED
    BY <1>1, <1>2, <1>3, <1>4, <1>5, <1>6, <1>7, <1>8, <1>9 DEF Next

-----------------------------------------------------------------------------
\* A step keeps the types of the register and of the scope objects.
LEMMA TypeStep ==
  ASSUME TypeOK, [Next]_vars
  PROVE  TypeOK'
  <1>1. scopes' \in Seq(Scope)
    BY StepShape, OpenFacts, CloseFacts DEF TypeOK, Opens, Quiet
  <1>2. current' \in Handle \cup {NoHandle}
    <2>1. CASE Opens
      BY <2>1 DEF Opens, Open
    <2>2. CASE Close
      BY <2>2, CloseFacts DEF Restored, AfterLeave, Scope, TypeOK
    <2>3. CASE Quiet
      BY <2>3, HandleFacts DEF Quiet, TypeOK
    <2>4. QED
      BY <2>1, <2>2, <2>3, StepShape
  <1>3. made' \subseteq Context /\ held' \subseteq Context /\ carried' \subseteq Context
    BY DEF TypeOK, Next, vars, others, Create, Release, GcCallback, Enter, DestroyBegin,
           OpenScope, Callback, CloseScope, Leave, DestroyEnd, KeepException,
           EndException, EndCaught
  <1>4. destroyed' \subseteq Context
    <2>1. CASE DestroyEnd
      <3>1. Top \in Scope /\ Top.kind = "destroy" /\ destroyed' = destroyed \cup {Top.c.ctx}
        BY <2>1, CloseFacts DEF DestroyEnd
      <3>2. Top.c \in Handle
        BY <3>1 DEF Scope
      <3>3. QED
        BY <3>1, <3>2 DEF Handle, TypeOK
    <2>2. CASE ~DestroyEnd
      BY <2>2 DEF TypeOK, Next, vars, others, Create, Release, GcCallback, Enter,
             DestroyBegin, OpenScope, Callback, CloseScope, Leave, KeepException,
             EndException, EndCaught
    <2>3. QED
      BY <2>1, <2>2
  <1>5. caught' \in Handle \cup {NoHandle}
    <2>1. CASE CloseScope
      <3>1. UNCHANGED caught \/ caught' = Top.c
        BY <2>1 DEF CloseScope
      <3> Top \in Scope
        BY <2>1, CloseFacts DEF CloseScope
      <3>2. QED
        BY <3>1 DEF Scope, TypeOK
    <2>2. CASE ~CloseScope
      BY <2>2 DEF TypeOK, Next, vars, others, Create, Release, GcCallback, Enter,
             DestroyBegin, OpenScope, Callback, Leave, DestroyEnd, KeepException,
             EndException, EndCaught
    <2>3. QED
      BY <2>1, <2>2
  <1>6. QED
    BY <1>1, <1>2, <1>3, <1>4, <1>5 DEF TypeOK

\* The variables of ContextScope keep their types: no step of a scope object
\* puts anything but a context handle into the register.
THEOREM TypeCorrect == Spec => []TypeOK
  <1>1. Init => TypeOK
    BY DEF Init, TypeOK
  <1>2. TypeOK /\ [Next]_vars => TypeOK'
    BY TypeStep
  <1>3. QED
    BY <1>1, <1>2, PTL DEF Spec

-----------------------------------------------------------------------------
\* What the destructor of the innermost scope object leaves behind.
LEMMA RestoresOld ==
  ASSUME TypeOK, Chained, Close
  PROVE  current' = Top.old
  <1>1. current \in {Top.c, NoHandle} /\ current' = Restored(Top)
    BY CloseFacts DEF Chained, Close
  <1>2. Leaves(Top.c) /\ AfterLeave(Top.c) = NoHandle
    BY <1>1 DEF Leaves, AfterLeave
  <1>3. QED
    BY <1>1, <1>2 DEF Restored

LEMMA ChainedStep ==
  ASSUME TypeOK, Chained, [Next]_vars
  PROVE  Chained'
  <1> USE DEF Top, Depth
  <1>1. scopes \in Seq(Scope) /\ scopes' \in Seq(Scope)
    BY TypeStep DEF TypeOK
  <1>2. CASE Opens
    <2>1. PICK k \in Kind, h \in Handle \cup {NoHandle} :
            (k # "user" => h # NoHandle) /\ Open(k, h)
      BY <1>2 DEF Opens
    <2>2. /\ Len(scopes) \in Nat
          /\ Len(scopes') = Len(scopes) + 1
          /\ \A i \in 1 .. Len(scopes) : scopes'[i] = scopes[i]
          /\ scopes'[Len(scopes) + 1] = [kind |-> k, c |-> h, old |-> current]
          /\ current' = h
      BY ONLY TypeOK, <2>1, OpenFacts
    <2>3. ASSUME NEW i \in DOMAIN scopes', i > 1
          PROVE  scopes'[i].old \in {scopes'[i - 1].c, NoHandle}
      <3>1. CASE i = Len(scopes) + 1
        BY <1>1, <2>2, <2>3, <3>1 DEF Chained
      <3>2. CASE i # Len(scopes) + 1
        <4>1. i \in DOMAIN scopes /\ i \in 1 .. Len(scopes) /\ i - 1 \in 1 .. Len(scopes)
          BY <1>1, <2>2, <2>3, <3>2
        <4>2. QED
          BY <2>2, <2>3, <4>1 DEF Chained
      <3>3. QED
        BY <3>1, <3>2
    <2>4. QED
      BY <1>1, <2>2, <2>3 DEF Chained
  <1>3. CASE Close
    <2>1. /\ Len(scopes) \in Nat /\ Len(scopes) > 0
          /\ Len(scopes') = Len(scopes) - 1
          /\ \A i \in 1 .. Len(scopes) - 1 : scopes'[i] = scopes[i]
          /\ current' = scopes[Len(scopes)].old
      BY <1>3, CloseFacts, RestoresOld
    <2>2. ASSUME NEW i \in DOMAIN scopes', i > 1
          PROVE  scopes'[i].old \in {scopes'[i - 1].c, NoHandle}
      <3>1. /\ i \in DOMAIN scopes
            /\ i \in 1 .. Len(scopes) - 1 /\ i - 1 \in 1 .. Len(scopes) - 1
        BY <1>1, <2>1, <2>2
      <3>2. QED
        BY <2>1, <2>2, <3>1 DEF Chained
    <2>3. ASSUME scopes' # <<>>
          PROVE  current' \in {scopes'[Len(scopes')].c, NoHandle}
      <3>1. /\ Len(scopes) \in DOMAIN scopes /\ Len(scopes) > 1
            /\ Len(scopes') \in 1 .. Len(scopes) - 1
        BY <1>1, <2>1, <2>3
      <3>2. scopes'[Len(scopes')] = scopes[Len(scopes) - 1]
        BY <2>1, <3>1
      <3>3. QED
        BY <2>1, <3>1, <3>2 DEF Chained
    <2>4. QED
      BY <2>2, <2>3 DEF Chained
  <1>4. CASE Quiet
    BY <1>4 DEF Quiet, Chained
  <1>5. QED
    BY <1>2, <1>3, <1>4, StepShape

\* The register holds the innermost scope's own context or nothing
\* (init::leave_current_context compares handles and relies on it).
THEOREM ChainedHolds == Spec => []Chained
  <1>1. Init => Chained
    BY DEF Init, Chained
  <1>2. TypeOK /\ Chained /\ [Next]_vars => Chained'
    BY ChainedStep
  <1>3. QED
    BY <1>1, <1>2, TypeCorrect, PTL DEF Spec

\* Destroying a scope object brings back the context that was current when
\* it was constructed (~current_context_scope).
THEOREM RestoresHolds == Spec => Restores
  <1>1. TypeOK /\ Chained /\ [Next]_vars
          => [Len(scopes') < Len(scopes) => current' = Top.old]_vars
    <2> SUFFICES ASSUME TypeOK, Chained, [Next]_vars, Len(scopes') < Len(scopes)
                 PROVE  current' = Top.old
      OBVIOUS
    <2>1. Len(scopes) \in Nat
      BY DEF TypeOK
    <2>2. ~Quiet
      BY <2>1 DEF Quiet
    <2>3. ~Opens
      <3>1. ASSUME NEW k \in Kind, NEW h \in Handle \cup {NoHandle},
                   k # "user" => h # NoHandle, Open(k, h)
            PROVE  Len(scopes') = Len(scopes) + 1
        BY <3>1, OpenFacts
      <3>2. QED
        BY <2>1, <3>1 DEF Opens
    <2>4. QED
      BY <2>2, <2>3, StepShape, RestoresOld
  <1>2. QED
    BY <1>1, TypeCorrect, ChainedHolds, PTL DEF Spec, Restores

-----------------------------------------------------------------------------
(* No handle names a destroyed JSContext. *)

\* A new scope object keeps LiveInv if what it enters is alive and backed
\* and, for ~impl, if nothing names the context any more.
LEMMA LiveOpen ==
  ASSUME TypeOK, LiveInv,
         NEW k \in Kind, NEW h \in Handle \cup {NoHandle},
         k # "user" => h # NoHandle, Open(k, h),
         UNCHANGED <<made, held, destroyed>>,
         caught' = NoHandle, carried' \subseteq carried,
         Live(h),
         \A c \in Context : h = Own(c) => Referenced(c),
         k = "gc" => h.ctx \in held,
         h # NoHandle =>
           \/ k \in {"gc", "destroy"}
           \/ h = Own(h.ctx)
           \/ current = Own(h.ctx)
           \/ \E j \in 1 .. Len(scopes) : OwnerAt(h.ctx, j),
         k = "destroy" =>
           /\ ~Referenced(h.ctx) /\ h # Own(h.ctx)
           /\ current # NoHandle => current.ctx # h.ctx
           /\ \A i \in DOMAIN scopes :
                /\ scopes[i].c # NoHandle => scopes[i].c.ctx # h.ctx
                /\ scopes[i].old # NoHandle => scopes[i].old.ctx # h.ctx
  PROVE  LiveInv'
  <1> DEFINE m == Len(scopes)
  <1>1. /\ m \in Nat
        /\ Len(scopes') = m + 1
        /\ \A i \in 1 .. m : scopes'[i] = scopes[i]
        /\ scopes'[m + 1] = [kind |-> k, c |-> h, old |-> current]
        /\ current' = h
    BY ONLY TypeOK, k \in Kind, h \in Handle \cup {NoHandle},
            k # "user" => h # NoHandle, Open(k, h), OpenFacts
  <1>2. DOMAIN scopes = 1 .. m /\ DOMAIN scopes' = 1 .. m + 1
    BY <1>1, OpenFacts DEF TypeOK
  <1> HIDE DEF m
  <1>3. LiveHandles'
    BY <1>1, <1>2 DEF LiveInv, LiveHandles, Live
  <1>4. held' \cup carried' \subseteq made' \ destroyed' /\ destroyed' \subseteq made'
    BY DEF LiveInv
  <1>5. \A i \in DOMAIN scopes' : scopes'[i].kind = "gc" => scopes'[i].c.ctx \in held'
    BY <1>1, <1>2 DEF LiveInv
  <1>6. Backed'
    <2> SUFFICES ASSUME NEW i \in 1 .. m + 1, scopes'[i].c # NoHandle
                 PROVE  \E j \in 1 .. i : OwnerAt(scopes[i].c.ctx, j)'
      BY <1>2 DEF Backed
    <2>1. CASE i \in 1 .. m
      <3>1. PICK j \in 1 .. i : OwnerAt(scopes[i].c.ctx, j)
        BY <1>1, <1>2, <2>1 DEF LiveInv, Backed
      <3>2. QED
        BY <1>1, <2>1, <3>1 DEF OwnerAt
    <2>2. CASE i = m + 1
      <3>1. scopes'[i].c = h /\ scopes'[i].kind = k /\ scopes'[i].old = current
        BY <1>1, <2>2
      <3>2. CASE \E j \in 1 .. Len(scopes) : OwnerAt(h.ctx, j)
        BY <1>1, <2>2, <3>1, <3>2 DEF OwnerAt, m
      <3>3. CASE k \in {"gc", "destroy"} \/ h = Own(h.ctx) \/ current = Own(h.ctx)
        <4>1. OwnerAt(scopes[i].c.ctx, i)'
          BY <3>1, <3>3 DEF OwnerAt, Own
        <4>2. i \in 1 .. i
          BY <1>1, <2>2
        <4>3. QED
          BY <4>1, <4>2
      <3>4. QED
        BY <3>1, <3>2, <3>3
    <2>3. QED
      BY <1>1, <2>1, <2>2
  <1>7. OutermostOwns'
    <2>1. CASE m = 0
      BY <1>1, <2>1 DEF LiveInv, OutermostOwns, m, TypeOK
    <2>2. CASE m # 0
      <3>1. scopes # <<>> /\ scopes'[1] = scopes[1] /\ scopes' # <<>>
        BY <1>1, <1>2, <2>2 DEF m
      <3>2. QED
        BY <3>1 DEF LiveInv, OutermostOwns
    <2>3. QED
      BY <2>1, <2>2
  <1>8. LastOwnerGone'
    <2> SUFFICES ASSUME NEW i \in 1 .. m + 1, scopes'[i].kind = "destroy"
                 PROVE  /\ ~Referenced(scopes[i].c.ctx)'
                        /\ \A j \in 1 .. i :
                             scopes'[j].old # NoHandle => scopes'[j].old.ctx # scopes'[i].c.ctx
                        /\ \A j \in 1 .. i - 1 :
                             scopes'[j].c # NoHandle => scopes'[j].c.ctx # scopes'[i].c.ctx
      BY <1>2 DEF LastOwnerGone
    <2>1. PICK d \in Context : d = scopes'[i].c.ctx
      <3>1. scopes'[i] \in Scope
        BY <1>1, <1>2, OpenFacts
      <3>2. QED
        BY <3>1 DEF Scope, Handle
    <2>2. ~Referenced(d) /\ h # Own(d)
      BY <1>1, <1>2, <2>1 DEF LiveInv, LastOwnerGone
    <2>3. ~Referenced(d)'
      BY <1>1, <1>2, <2>2, NoHandleIsNone DEF Referenced
    <2>4. QED
      BY <1>1, <1>2, <2>1, <2>3 DEF LiveInv, LastOwnerGone
  <1>9. CaughtBacked'
    BY DEF CaughtBacked
  <1>10. QED
    BY <1>3, <1>4, <1>5, <1>6, <1>7, <1>8, <1>9 DEF LiveInv

\* Removing the innermost scope object keeps LiveInv, also when it was that
\* of ~impl and its JSContext is gone.
LEMMA LiveClose ==
  ASSUME TypeOK, Chained, LiveInv, Close,
         UNCHANGED <<made, held, carried>>,
         caught = NoHandle,
         \/ /\ UNCHANGED destroyed
            /\ caught' = NoHandle \/ (Top.kind = "call" /\ caught' = Top.c)
         \/ /\ Top.kind = "destroy" /\ destroyed' = destroyed \cup {Top.c.ctx}
            /\ UNCHANGED caught
  PROVE  LiveInv'
  <1> DEFINE m == Len(scopes)
  <1>1. /\ m \in Nat /\ m > 0
        /\ scopes' \in Seq(Scope)
        /\ Len(scopes') = m - 1
        /\ \A i \in 1 .. m - 1 : scopes'[i] = scopes[i]
        /\ current' = scopes[m].old
        /\ Top = scopes[m]
    BY CloseFacts, RestoresOld DEF Top, Depth
  <1>2. DOMAIN scopes = 1 .. m /\ DOMAIN scopes' = 1 .. m - 1
    BY <1>1 DEF TypeOK
  <1> HIDE DEF m
  <1>3. \A h : h # NoHandle /\ h.ctx # scopes[m].c.ctx /\ Live(h) => Live(h)'
    BY <1>1 DEF Live
  <1>5. LiveHandles'
    <2>1. CASE UNCHANGED destroyed
      BY <1>1, <1>2, <2>1 DEF LiveInv, LiveHandles, Live
    <2>2. CASE ~UNCHANGED destroyed
      <3>0. /\ scopes[m].kind = "destroy" /\ caught' = NoHandle
            /\ destroyed' = destroyed \cup {scopes[m].c.ctx}
        BY <1>1, <2>2
      <3>1. /\ scopes[m].c.ctx \notin carried
            /\ \A j \in 1 .. m : scopes[j].old # NoHandle => scopes[j].old.ctx # scopes[m].c.ctx
            /\ \A j \in 1 .. m - 1 : scopes[j].c # NoHandle => scopes[j].c.ctx # scopes[m].c.ctx
        BY <1>1, <1>2, <3>0 DEF LiveInv, LastOwnerGone, Referenced
      <3>2. \A j \in 1 .. m : Live(scopes[j].c) /\ Live(scopes[j].old)
        BY <1>2 DEF LiveInv, LiveHandles
      <3>3. \A c \in carried : c \in made \ destroyed /\ Own(c).ctx = c
        BY DEF LiveInv, Own
      <3>4. \A c \in carried : Live(Own(c))'
        BY <3>0, <3>1, <3>3 DEF Live
      <3>5. Live(current)' /\ Live(caught)'
        BY <1>1, <1>2, <3>0, <3>1, <3>2 DEF Live
      <3>6. \A j \in 1 .. m - 1 : Live(scopes[j].c)' /\ Live(scopes[j].old)'
        BY <1>1, <1>2, <3>0, <3>1, <3>2 DEF Live
      <3>7. QED
        BY <1>2, <3>4, <3>5, <3>6 DEF LiveHandles
    <2>3. QED
      BY <2>1, <2>2
  <1>6. held' \cup carried' \subseteq made' \ destroyed' /\ destroyed' \subseteq made'
    <2>1. /\ scopes[m].kind = "destroy" => scopes[m].c.ctx \notin held \cup carried
          /\ scopes[m].kind = "destroy" => scopes[m].c.ctx \in made
      BY <1>1, <1>2 DEF LiveInv, LastOwnerGone, LiveHandles, Live, TypeOK, Scope, Referenced
    <2>2. QED
      BY <1>1, <2>1 DEF LiveInv
  <1>7. \A i \in DOMAIN scopes' : scopes'[i].kind = "gc" => scopes'[i].c.ctx \in held'
    BY <1>1, <1>2 DEF LiveInv
  <1>8. Backed'
    BY <1>1, <1>2 DEF LiveInv, Backed, OwnerAt
  <1>9. OutermostOwns'
    BY <1>1, <1>2 DEF LiveInv, OutermostOwns
  <1>10. LastOwnerGone'
    <2>1. \A d \in Context : ~Referenced(d) => ~Referenced(d)'
      BY <1>1, <1>2, NoHandleIsNone DEF Referenced
    <2>2. \A i \in 1 .. m - 1 : scopes[i].kind = "destroy" => scopes[i].c.ctx \in Context
      <3> SUFFICES ASSUME NEW i \in 1 .. m - 1, scopes[i].kind = "destroy"
                   PROVE  scopes[i].c.ctx \in Context
        OBVIOUS
      <3>1. scopes[i] \in Scope
        BY <1>1, <1>2 DEF TypeOK
      <3>2. QED
        BY <3>1 DEF Scope, Handle
    <2>3. QED
      BY <1>1, <1>2, <2>1, <2>2 DEF LiveInv, LastOwnerGone
  <1>11. CaughtBacked'
    <2> SUFFICES ASSUME caught' # NoHandle
                 PROVE  \/ Own(caught'.ctx) \in {caught', current'}
                        \/ \E j \in 1 .. m - 1 : OwnerAt(caught.ctx, j)'
      BY <1>2 DEF CaughtBacked
    <2>1. caught' = scopes[m].c /\ scopes[m].kind \notin {"gc", "destroy"}
      BY <1>1 DEF Kind
    <2>2. PICK j \in 1 .. m : OwnerAt(scopes[m].c.ctx, j)
      BY <1>1, <1>2, <2>1 DEF LiveInv, Backed
    <2>3. CASE j = m
      BY <1>1, <2>1, <2>2, <2>3 DEF OwnerAt
    <2>4. CASE j # m
      BY <1>1, <2>1, <2>2, <2>4 DEF OwnerAt
    <2>5. QED
      BY <2>3, <2>4
  <1>12. QED
    BY <1>5, <1>6, <1>7, <1>8, <1>9, <1>10, <1>11 DEF LiveInv

\* The context a callback is made on is backed: it is the current one.
LEMMA CurrentBacked ==
  ASSUME TypeOK, Chained, LiveInv, current # NoHandle
  PROVE  \/ current = Own(current.ctx)
         \/ \E j \in 1 .. Len(scopes) : OwnerAt(current.ctx, j)
  <1>1. CASE scopes = <<>>
    BY <1>1 DEF LiveInv, OutermostOwns, TypeOK, Own, Handle
  <1>2. CASE scopes # <<>>
    <2>1. Len(scopes) \in DOMAIN scopes /\ current = scopes[Len(scopes)].c
      BY <1>2 DEF Chained, TypeOK, Top, Depth
    <2>2. QED
      BY <2>1 DEF LiveInv, Backed
  <1>3. QED
    BY <1>1, <1>2

\* When the last owner of a context goes, no wrapper of it is left either.
LEMMA OrphanUnnamed ==
  ASSUME TypeOK, Chained, LiveInv, NEW d \in Context, Orphan(d)
  PROVE  /\ ~Referenced(d)
         /\ current # NoHandle => current.ctx # d
         /\ \A i \in DOMAIN scopes :
              /\ scopes[i].c # NoHandle => scopes[i].c.ctx # d
              /\ scopes[i].old # NoHandle => scopes[i].old.ctx # d
  <1>1. /\ ~Referenced(d)
        /\ d \notin held
        /\ current # Own(d)
        /\ \A i \in DOMAIN scopes : Own(d) \notin {scopes[i].c, scopes[i].old}
        /\ \A i \in DOMAIN scopes : scopes[i].kind = "destroy" => scopes[i].c.ctx # d
    BY DEF Orphan, Referenced, BeingDestroyed
  <1>2. DOMAIN scopes = 1 .. Len(scopes) /\ Len(scopes) \in Nat
    BY DEF TypeOK
  <1>3. \A j \in 1 .. Len(scopes) : ~OwnerAt(d, j)
    BY <1>1, <1>2 DEF OwnerAt, LiveInv
  <1>4. \A i \in DOMAIN scopes : scopes[i].c # NoHandle => scopes[i].c.ctx # d
    BY <1>2, <1>3 DEF LiveInv, Backed
  <1>5. \A i \in DOMAIN scopes : scopes[i].old # NoHandle => scopes[i].old.ctx # d
    <2> SUFFICES ASSUME NEW i \in DOMAIN scopes, scopes[i].old # NoHandle
                 PROVE  scopes[i].old.ctx # d
      OBVIOUS
    <2>1. scopes[i].old \in Handle
      BY DEF TypeOK, Scope
    <2>2. CASE i = 1
      <3>1. scopes[i].old.wrap = 0
        BY <1>2, <2>2 DEF LiveInv, OutermostOwns
      <3>2. QED
        BY <1>1, <2>1, <3>1 DEF Own, Handle
    <2>3. CASE i > 1
      <3>1. i - 1 \in DOMAIN scopes /\ scopes[i].old = scopes[i - 1].c
        BY <1>2, <2>3 DEF Chained
      <3>2. QED
        BY <1>4, <3>1
    <2>4. QED
      BY <1>2, <2>2, <2>3
  <1>6. current # NoHandle => current.ctx # d
    BY <1>1, <1>3, CurrentBacked
  <1>7. QED
    BY <1>1, <1>4, <1>5, <1>6

LEMMA WrapOwnsNot ==
  ASSUME TypeOK
  PROVE  \A c, d \in Context : Wrap(c) # Own(d)
  <1>1. Len(scopes) + 1 # 0
    BY DEF TypeOK
  <1>2. QED
    BY <1>1 DEF Wrap, Own

LEMMA ScopeContext ==
  ASSUME TypeOK
  PROVE  \A i \in DOMAIN scopes : scopes[i].kind = "destroy" => scopes[i].c.ctx \in Context
  BY DEF TypeOK, Scope, Handle

LEMMA LiveStep ==
  ASSUME TypeOK, Chained, LiveInv, [Next]_vars
  PROVE  LiveInv'
  <1>1. /\ \A c \in Context : Own(c) \in Handle /\ Own(c).ctx = c /\ Own(c) # NoHandle
        /\ \A c \in Context : Wrap(c) \in Handle /\ Wrap(c).ctx = c /\ Wrap(c) # NoHandle
        /\ NoHandle \notin Handle
    BY HandleFacts DEF Own, Wrap
  <1>2. /\ {"user", "call", "gc", "destroy"} \subseteq Kind
        /\ "user" # "gc" /\ "user" # "destroy" /\ "call" # "gc" /\ "call" # "destroy"
        /\ "gc" # "destroy"
    BY DEF Kind
  <1>3. CASE UNCHANGED vars
    BY <1>3 DEF vars, others, LiveInv, LiveHandles, Live, Backed, CaughtBacked, OwnerAt,
         OutermostOwns, LastOwnerGone, Referenced
  <1>4. ASSUME NEW c \in Context, Create(c)
        PROVE  LiveInv'
    <2>1. /\ c \notin made /\ made' = made \cup {c} /\ held' = held \cup {c}
          /\ UNCHANGED <<current, scopes, carried, caught, destroyed>>
      BY <1>4 DEF Create
    <2>2. destroyed' \subseteq destroyed /\ c \notin destroyed'
      BY <2>1 DEF LiveInv
    <2>3. LiveHandles'
      BY <2>1 DEF LiveInv, LiveHandles, Live
    <2>4. \A k \in DOMAIN scopes : scopes[k].kind = "destroy" => scopes[k].c.ctx # c
      BY <2>1 DEF LiveInv, LiveHandles, Live, TypeOK, Scope
    <2>5. LastOwnerGone'
      BY <2>1, <2>4 DEF LiveInv, LastOwnerGone, Referenced
    <2>6. QED
      BY <2>1, <2>2, <2>3, <2>5 DEF LiveInv, Backed, CaughtBacked, OwnerAt, OutermostOwns
  <1>5. ASSUME NEW c \in Context, Release(c)
        PROVE  LiveInv'
    <2>1. /\ held' = held \ {c}
          /\ \A i \in DOMAIN scopes : scopes[i].kind = "gc" => scopes[i].c.ctx # c
          /\ UNCHANGED <<current, scopes, made, carried, caught, destroyed>>
      BY <1>5 DEF Release, CollectedNow
    <2>2. QED
      BY <2>1 DEF LiveInv, LiveHandles, Live, Backed, CaughtBacked, OwnerAt, OutermostOwns,
             LastOwnerGone, Referenced
  <1>6. ASSUME NEW c \in Context, Enter(c)
        PROVE  LiveInv'
    <2>1. /\ c \in held /\ scopes = <<>> /\ current' = Own(c)
          /\ caught = NoHandle
          /\ UNCHANGED <<scopes, made, held, carried, caught, destroyed>>
      BY <1>6 DEF Enter, Settled, others
    <2>2. c \in made \ destroyed /\ Own(c).ctx = c /\ Own(c).wrap = 0
      BY <2>1 DEF LiveInv, Own
    <2>3. LiveHandles'
      BY <2>1, <2>2 DEF LiveInv, LiveHandles, Live
    <2>4. OutermostOwns'
      BY <2>1, <2>2 DEF OutermostOwns
    <2>5. QED
      BY <2>1, <2>3, <2>4 DEF LiveInv, Backed, CaughtBacked, OwnerAt, LastOwnerGone
  <1>7. CASE Leave
    <2>1. /\ current' = NoHandle /\ caught = NoHandle
          /\ UNCHANGED <<scopes, made, held, carried, caught, destroyed>>
      BY <1>7 DEF Leave, AfterLeave, Settled, others
    <2>2. \A i \in DOMAIN scopes :
            scopes[i].kind = "destroy" => ~Referenced(scopes[i].c.ctx)'
      <3>1. \A i \in DOMAIN scopes :
              scopes[i].kind = "destroy" => Own(scopes[i].c.ctx) # NoHandle
        BY ScopeContext, NoHandleIsNone
      <3>2. QED
        BY <2>1, <3>1 DEF LiveInv, LastOwnerGone, Referenced
    <2>3. QED
      BY <2>1, <2>2 DEF LiveInv, LiveHandles, Live, Backed, CaughtBacked, OwnerAt,
             OutermostOwns, LastOwnerGone
  <1>8. ASSUME NEW h \in Enterable, OpenScope(h)
        PROVE  LiveInv'
    <2>1. /\ Open("user", h) /\ caught = NoHandle
          /\ UNCHANGED <<made, held, carried, caught, destroyed>>
      BY <1>8 DEF OpenScope, Settled, others
    <2>2. h \in Handle \cup {NoHandle}
      BY EnterableHandles
    <2>3. \A c \in held : c \in made \ destroyed /\ c \in Context
      BY DEF LiveInv, TypeOK
    <2>4. Live(h)
      BY <1>1, <2>3 DEF Enterable, LiveInv, LiveHandles, Live
    <2>5. \A c \in Context : h = Own(c) => Referenced(c)
      <3>1. \A c, d \in Context : Own(c) = Own(d) => c = d
        BY DEF Own
      <3>2. \/ \E d \in held : h = Own(d)
            \/ \E i \in DOMAIN scopes : h = scopes[i].c
            \/ h \in {current, NoHandle}
        BY <1>8 DEF Enterable
      <3>3. QED
        BY <2>3, <3>1, <3>2, NoHandleIsNone DEF Referenced
    <2>6. h # NoHandle => \/ h = Own(h.ctx) \/ current = Own(h.ctx)
                          \/ \E j \in 1 .. Len(scopes) : OwnerAt(h.ctx, j)
      <3>1. CASE \E c \in held : h = Own(c)
        BY <1>1, <2>3, <3>1
      <3>2. CASE h = current
        BY <3>2, CurrentBacked
      <3>3. ASSUME NEW i \in DOMAIN scopes, h = scopes[i].c, h # NoHandle
            PROVE  \E j \in 1 .. Len(scopes) : OwnerAt(h.ctx, j)
        <4>1. DOMAIN scopes = 1 .. Len(scopes) /\ Len(scopes) \in Nat
          BY DEF TypeOK
        <4>2. PICK j \in 1 .. i : OwnerAt(h.ctx, j)
          BY <3>3 DEF LiveInv, Backed
        <4>3. QED
          BY <4>1, <4>2
      <3>4. QED
        BY <1>8, <3>1, <3>2, <3>3 DEF Enterable
    <2>7. QED
      BY <1>2, <2>1, <2>2, <2>4, <2>5, <2>6, LiveOpen
  <1>9. CASE Callback
    <2> DEFINE h == Wrap(current.ctx)
    <2>1. /\ Open("call", h) /\ current # NoHandle /\ caught = NoHandle
          /\ UNCHANGED <<made, held, carried, caught, destroyed>>
      BY <1>9 DEF Callback, Settled, others
    <2>2. h \in Handle /\ h.ctx = current.ctx /\ h # NoHandle
      BY <1>1, <2>1, HandleFacts DEF Wrap
    <2>3. Live(h)
      BY <2>1, <2>2 DEF LiveInv, LiveHandles, Live
    <2>4. \/ current = Own(h.ctx)
          \/ \E j \in 1 .. Len(scopes) : OwnerAt(h.ctx, j)
      BY <2>1, <2>2, CurrentBacked
    <2>5. \A c \in Context : h # Own(c)
      <3>1. current.ctx \in Context
        BY <2>1 DEF TypeOK, Handle
      <3>2. QED
        BY <3>1, WrapOwnsNot
    <2> HIDE DEF h
    <2>6. QED
      BY <1>2, <2>1, <2>2, <2>3, <2>4, <2>5, LiveOpen
  <1>10. ASSUME NEW c \in Context, GcCallback(c)
        PROVE  LiveInv'
    <2> DEFINE h == Wrap(c)
    <2>1. /\ Open("gc", h) /\ c \in held /\ caught = NoHandle
          /\ UNCHANGED <<made, held, carried, caught, destroyed>>
      BY <1>10 DEF GcCallback, Settled, others
    <2>2. h \in Handle /\ h.ctx = c /\ h # NoHandle
      BY <1>1
    <2>3. Live(h)
      BY <2>1, <2>2 DEF LiveInv, Live
    <2>4. \A d \in Context : h # Own(d)
      BY WrapOwnsNot
    <2> HIDE DEF h
    <2>5. QED
      BY <1>2, <2>1, <2>2, <2>3, <2>4, LiveOpen
  <1>11. ASSUME NEW c \in Context, DestroyBegin(c)
        PROVE  LiveInv'
    <2> DEFINE h == Wrap(c)
    <2>1. /\ Open("destroy", h) /\ Orphan(c) /\ caught = NoHandle
          /\ UNCHANGED <<made, held, carried, caught, destroyed>>
      BY <1>11 DEF DestroyBegin, others
    <2>2. h \in Handle /\ h.ctx = c /\ h # NoHandle
      BY <1>1
    <2>3. Live(h)
      BY <2>1, <2>2 DEF Orphan, Live
    <2>4. \A d \in Context : h # Own(d)
      BY WrapOwnsNot
    <2>5. /\ ~Referenced(h.ctx)
          /\ current # NoHandle => current.ctx # h.ctx
          /\ \A i \in DOMAIN scopes :
               /\ scopes[i].c # NoHandle => scopes[i].c.ctx # h.ctx
               /\ scopes[i].old # NoHandle => scopes[i].old.ctx # h.ctx
      BY <2>1, <2>2, OrphanUnnamed
    <2> HIDE DEF h
    <2>6. QED
      BY <1>2, <2>1, <2>2, <2>3, <2>4, <2>5, LiveOpen
  <1>12. CASE CloseScope
    <2>1. Close /\ UNCHANGED <<made, held, carried, destroyed>> /\ caught = NoHandle
      BY <1>12 DEF CloseScope, Settled, others
    <2>2. caught' = caught \/ (Top.kind = "call" /\ caught' = Top.c)
      BY <1>12 DEF CloseScope
    <2>3. QED
      BY <2>1, <2>2, LiveClose
  <1>13. CASE DestroyEnd
    BY <1>13, LiveClose DEF DestroyEnd, Settled
  <1>14. CASE KeepException
    <2>1. PICK c \in Context : current = Own(c) /\ carried' = carried \cup {c}
      BY <1>14 DEF KeepException
    <2>2. UNCHANGED <<current, scopes, made, held, caught, destroyed>>
      BY <1>14 DEF KeepException
    <2>3. c \in made \ destroyed
      BY <1>1, <2>1 DEF LiveInv, LiveHandles, Live
    <2>4. LiveHandles'
      BY <1>1, <2>1, <2>2, <2>3 DEF LiveInv, LiveHandles, Live
    <2>5. \A i \in DOMAIN scopes :
            scopes[i].kind = "destroy" => ~Referenced(scopes[i].c.ctx)'
      BY <2>1, <2>2 DEF LiveInv, LastOwnerGone, Referenced
    <2>6. QED
      BY <2>1, <2>2, <2>3, <2>4, <2>5 DEF LiveInv, Backed, CaughtBacked, OwnerAt,
             OutermostOwns, LastOwnerGone
  <1>15. ASSUME NEW c \in Context, EndException(c)
         PROVE  LiveInv'
    <2>1. /\ Open("user", Own(c)) /\ c \in carried /\ carried' = carried \ {c} /\ caught = NoHandle
          /\ UNCHANGED <<made, held, caught, destroyed>>
      BY <1>15 DEF EndException, Settled
    <2>2. Live(Own(c))
      BY <2>1 DEF LiveInv, LiveHandles
    <2>3. \A d \in Context : Own(c) = Own(d) => Referenced(d)
      BY <1>1, <2>1 DEF Referenced
    <2>4. QED
      BY <1>1, <1>2, <2>1, <2>2, <2>3, LiveOpen
  <1>16. CASE EndCaught
    <2>1. /\ Open("user", caught) /\ caught # NoHandle /\ caught' = NoHandle
          /\ UNCHANGED <<made, held, carried, destroyed>>
      BY <1>16 DEF EndCaught, others
    <2>2. Live(caught) /\ caught \in Handle \cup {NoHandle}
      BY DEF LiveInv, LiveHandles, TypeOK
    <2>3. \A d \in Context : caught = Own(d) => Referenced(d)
      BY DEF Referenced
    <2>4. /\ DOMAIN scopes = 1 .. Len(scopes)
          /\ \/ caught = Own(caught.ctx) \/ current = Own(caught.ctx)
             \/ \E j \in DOMAIN scopes : OwnerAt(caught.ctx, j)
      BY <2>1 DEF LiveInv, CaughtBacked, TypeOK
    <2>5. QED
      BY <1>2, <2>1, <2>2, <2>3, <2>4, LiveOpen
  <1>17. QED
    BY <1>3, <1>4, <1>5, <1>6, <1>7, <1>8, <1>9, <1>10, <1>11, <1>12, <1>13, <1>14, <1>15,
       <1>16 DEF Next

\* No context that can become current has been destroyed: the wrappers
\* Impl::wrap_context hands to callbacks never outlive the owner they need,
\* nor do the copies that exceptions make of them, when an exception that
\* was made in a callback is kept no longer than the catch around it.
THEOREM LiveHandlesHolds == Spec => []LiveHandles
  <1>1. Init => LiveInv
    BY DEF Init, LiveInv, LiveHandles, Live, Backed, CaughtBacked, OutermostOwns, LastOwnerGone
  <1>2. TypeOK /\ Chained /\ LiveInv /\ [Next]_vars => LiveInv'
    BY LiveStep
  <1>3. LiveInv => LiveHandles
    BY DEF LiveInv
  <1>4. QED
    BY <1>1, <1>2, <1>3, TypeCorrect, ChainedHolds, PTL DEF Spec

-----------------------------------------------------------------------------
(* The scope objects implement ContextStack. *)

LEMMA SuspendedSeq ==
  ASSUME TypeOK
  PROVE  /\ Suspended \in Seq(Handle \cup {NoHandle})
         /\ Len(Suspended) = Len(scopes)
         /\ \A i \in 1 .. Len(scopes) : Suspended[i] = scopes[i].old
  <1>1. DOMAIN scopes = 1 .. Len(scopes) /\ Len(scopes) \in Nat
    BY DEF TypeOK
  <1>2. \A i \in 1 .. Len(scopes) : scopes[i].old \in Handle \cup {NoHandle}
    BY DEF TypeOK, Scope
  <1>3. QED
    BY <1>1, <1>2 DEF Suspended

LEMMA ImplementsStep ==
  ASSUME TypeOK, Chained, [Next]_vars
  PROVE  [Stack!Next]_<<current, Suspended>>
  <1> DEFINE S == Handle \cup {NoHandle}
             m == Len(scopes)
  <1>1. /\ Suspended \in Seq(S) /\ Len(Suspended) = m
        /\ \A i \in 1 .. m : Suspended[i] = scopes[i].old
        /\ m \in Nat
    BY SuspendedSeq DEF TypeOK
  <1>2. /\ Suspended' \in Seq(S) /\ Len(Suspended') = Len(scopes')
        /\ \A i \in 1 .. Len(scopes') : Suspended'[i] = scopes'[i].old
    <2>1. scopes' \in Seq(Scope)
      BY TypeStep DEF TypeOK
    <2>2. DOMAIN scopes' = 1 .. Len(scopes') /\ Len(scopes') \in Nat
      BY <2>1
    <2>3. \A i \in 1 .. Len(scopes') : scopes'[i].old \in Handle \cup {NoHandle}
      BY <2>1 DEF Scope
    <2>4. QED
      BY <2>2, <2>3 DEF Suspended
  <1>3. current \in S /\ current' \in S
    BY TypeStep DEF TypeOK
  <1>4. CASE Opens
    <2>1. PICK k \in Kind, h \in Handle \cup {NoHandle} :
            (k # "user" => h # NoHandle) /\ Open(k, h)
      BY <1>4 DEF Opens
    <2>2. /\ Len(scopes') = m + 1
          /\ \A i \in 1 .. m : scopes'[i] = scopes[i]
          /\ scopes'[m + 1] = [kind |-> k, c |-> h, old |-> current]
      BY ONLY TypeOK, <2>1, OpenFacts
    <2> HIDE DEF S, m
    <2>3. Suspended' = Append(Suspended, current)
      <3>1. /\ Append(Suspended, current) \in Seq(S)
            /\ Len(Append(Suspended, current)) = m + 1
            /\ \A i \in 1 .. m : Append(Suspended, current)[i] = Suspended[i]
            /\ Append(Suspended, current)[m + 1] = current
        BY <1>1, <1>3, AppendProperties
      <3>2. \A i \in 1 .. m + 1 : Suspended'[i] = Append(Suspended, current)[i]
        BY <1>1, <1>2, <2>2, <3>1
      <3>3. QED
        BY <1>1, <1>2, <2>2, <3>1, <3>2, SeqEqual
    <2>4. QED
      BY <1>3, <2>3 DEF Stack!Next, Stack!Push, S
  <1>5. CASE Close
    <2>1. /\ m > 0
          /\ Len(scopes') = m - 1
          /\ \A i \in 1 .. m - 1 : scopes'[i] = scopes[i]
          /\ current' = scopes[m].old
      BY <1>5, CloseFacts, RestoresOld DEF Top, Depth
    <2> HIDE DEF S, m
    <2>2. Suspended # <<>> /\ current' = Suspended[m]
      BY <1>1, <2>1
    <2>3. Suspended' = SubSeq(Suspended, 1, m - 1)
      <3>1. /\ SubSeq(Suspended, 1, m - 1) \in Seq(S)
            /\ Len(SubSeq(Suspended, 1, m - 1)) = m - 1
            /\ \A i \in 1 .. m - 1 : SubSeq(Suspended, 1, m - 1)[i] = Suspended[i]
        BY <1>1, <2>2, AllButLast
      <3>2. \A i \in 1 .. m - 1 : Suspended'[i] = SubSeq(Suspended, 1, m - 1)[i]
        BY <1>1, <1>2, <2>1, <3>1
      <3>3. QED
        BY <1>2, <2>1, <3>1, <3>2, SeqEqual
    <2>4. QED
      BY <1>1, <2>2, <2>3 DEF Stack!Next, Stack!Pop
  <1>6. CASE Quiet
    <2>1. Suspended' = Suspended
      BY <1>6 DEF Quiet, Suspended
    <2>2. CASE current' \in {current, NoHandle}
      BY <2>1, <2>2 DEF Stack!Next, Stack!Unset
    <2>3. CASE scopes = <<>> /\ \E c \in held : current' = Own(c)
      <3>1. Suspended = <<>>
        BY <1>1, <2>3
      <3>2. current' \in Handle
        BY <2>3, HandleFacts DEF TypeOK
      <3>3. QED
        BY <2>1, <3>1, <3>2 DEF Stack!Next, Stack!Replace
    <2>4. QED
      BY <1>6, <2>2, <2>3 DEF Quiet
  <1>7. QED
    BY <1>4, <1>5, <1>6, StepShape

\* current_context_scope gives the program a stack of contexts although the
\* engine keeps only one register and the scopes are compared by identity.
THEOREM Implements == Spec => ImplementsStack
  <1>1. Init => Stack!Init
    BY DEF Init, Stack!Init, Suspended
  <1>2. TypeOK /\ Chained /\ [Next]_vars => [Stack!Next]_<<current, Suspended>>
    BY ImplementsStep
  <1>3. QED
    BY <1>1, <1>2, TypeCorrect, ChainedHolds, PTL DEF Spec, ImplementsStack, Stack!Spec

-----------------------------------------------------------------------------
(***************************************************************************)
(* ByteArray: a call of any of its methods.                                *)
(***************************************************************************)

-----------------------------------------------------------------------------
(* Sequences *)

\* w is s and t one after the other, or s with e behind it.
Concats(w, s, t) == w = s \o t
Adds(w, s, e) == w = Append(s, e)

\* The last element may be put to the second of two sequences or to both.
LEMMA ConcatMore ==
  ASSUME NEW S, NEW s \in Seq(S), NEW t \in Seq(S), NEW e \in S,
         NEW u, Concats(u, s, t), NEW v, Adds(v, t, e), NEW w, Adds(w, u, e)
  PROVE  Concats(w, s, v)
  <1>1. s \o t \in Seq(S) /\ Append(t, e) \in Seq(S)
    OBVIOUS
  <1>2. Append(s \o t, e) = s \o Append(t, e)
    BY <1>1
  <1>3. QED
    BY <1>2 DEF Concats, Adds

-----------------------------------------------------------------------------
(* Appending *)

\* What methods are given, and what do_append leaves.
Bytes == Seq(Byte)
Argument == Byte \cup {Bad, Self}
Outcome == [bytes : Bytes, ok : BOOLEAN]

AppendFold == INSTANCE FoldLemmas WITH op <- AppendOne

\* What has been appended begins with what was there.
Begins(s, t) == Len(s) <= Len(t) /\ \A i \in 1 .. Len(s) : t[i] = s[i]

\* do_append, an argument at a time.
LEMMA AppendFolds ==
  /\ \A b : do_append(b, <<>>) = [bytes |-> b, ok |-> TRUE]
  /\ \A b : \A s \in Seq(Argument), a \in Argument : do_append(b, Append(s, a)) = AppendOne(do_append(b, s), a)
  <1>1. \A b, s : do_append(b, s) = AppendFold!Fold([bytes |-> b, ok |-> TRUE], s)
    BY DEF do_append, FoldLeft, MapThenFoldSet, Max, AppendFold!Fold, AppendFold!Folding, AppendFold!Largest
  <1>2. ASSUME NEW b PROVE do_append(b, <<>>) = [bytes |-> b, ok |-> TRUE]
    <2>1. PICK e : e = [bytes |-> b, ok |-> TRUE]
      OBVIOUS
    <2>2. AppendFold!Fold(e, <<>>) = e
      BY AppendFold!FoldNothing
    <2>3. QED
      BY <1>1, <2>1, <2>2
  <1>3. ASSUME NEW b, NEW s \in Seq(Argument), NEW a \in Argument
        PROVE  do_append(b, Append(s, a)) = AppendOne(do_append(b, s), a)
    <2>1. PICK e : e = [bytes |-> b, ok |-> TRUE]
      OBVIOUS
    <2>2. AppendFold!Fold(e, Append(s, a)) = AppendOne(AppendFold!Fold(e, s), a)
      BY AppendFold!FoldMore
    <2>3. QED
      BY <1>1, <2>1, <2>2
  <1>4. QED
    BY <1>2, <1>3

\* One argument leaves bytes, those that were there at the beginning; unless
\* it is the array or no byte, it comes behind them.
LEMMA AppendOneFacts ==
  ASSUME NEW r \in Outcome, NEW a \in Argument
  PROVE  /\ AppendOne(r, a) \in Outcome
         /\ Begins(r.bytes, AppendOne(r, a).bytes)
         /\ AppendOne(r, a).ok => r.ok /\ a # Bad
         /\ r.ok /\ a \notin {Bad, Self} => AppendOne(r, a) = [bytes |-> Append(r.bytes, a), ok |-> TRUE]
  <1>1. r.bytes \in Seq(Byte) /\ Len(r.bytes) \in Nat /\ r.ok \in BOOLEAN
    BY DEF Outcome, Bytes
  <1>2. Begins(r.bytes, r.bytes)
    BY <1>1 DEF Begins
  <1>3. CASE ~r.ok
    BY <1>2, <1>3 DEF AppendOne
  <1>4. CASE r.ok /\ a = Bad
    <2>1. AppendOne(r, a) = [r EXCEPT !.ok = FALSE]
      BY <1>4 DEF AppendOne
    <2>2. QED
      BY <1>2, <1>4, <2>1 DEF Outcome
  <1>5. CASE r.ok /\ a # Bad /\ a = Self
    <2>1. PICK s \in Seq(Byte) : s = r.bytes
      BY <1>1
    <2>2. s \o s \in Seq(Byte) /\ Begins(s, s \o s)
      BY DEF Begins
    <2>3. AppendOne(r, a) = [r EXCEPT !.bytes = s \o s]
      BY <1>5, <2>1 DEF AppendOne
    <2>4. QED
      BY <1>5, <2>1, <2>2, <2>3 DEF Outcome, Bytes
  <1>6. CASE r.ok /\ a # Bad /\ a # Self
    <2>1. PICK s \in Seq(Byte) : s = r.bytes
      BY <1>1
    <2>2. a \in Byte
      BY <1>6 DEF Argument
    <2>3. Append(s, a) \in Seq(Byte) /\ Begins(s, Append(s, a))
      BY <2>2 DEF Begins
    <2>4. AppendOne(r, a) = [r EXCEPT !.bytes = Append(s, a)]
      BY <1>6, <2>1 DEF AppendOne
    <2>5. [r EXCEPT !.bytes = Append(s, a)] = [bytes |-> Append(s, a), ok |-> TRUE]
      <3>1. PICK u : u = Append(s, a)
        OBVIOUS
      <3>2. r.ok = TRUE
        BY <1>1, <1>6
      <3>3. PICK y : y = r.ok
        OBVIOUS
      <3>4. [r EXCEPT !.bytes = u] = [bytes |-> u, ok |-> y]
        BY <3>3 DEF Outcome
      <3>5. QED
        BY <3>1, <3>2, <3>3, <3>4
    <2>6. QED
      BY <1>6, <2>1, <2>3, <2>4, <2>5 DEF Outcome, Bytes
  <1>7. QED
    BY <1>1, <1>3, <1>4, <1>5, <1>6

\* do_append leaves bytes, those that were there at the beginning; if all
\* arguments are bytes, they come behind them, and if one is none it fails.
Appends(b, s) ==
  /\ do_append(b, s) \in Outcome
  /\ Begins(b, do_append(b, s).bytes)
  /\ do_append(b, s).ok /\ (\A i \in DOMAIN s : s[i] # Self) => do_append(b, s).bytes = b \o s
  /\ (\A i \in DOMAIN s : s[i] \notin {Bad, Self}) => do_append(b, s).ok
  /\ do_append(b, s).ok => \A i \in DOMAIN s : s[i] # Bad

\* do_append leaves what Appends says.
LEMMA AppendFacts ==
  ASSUME NEW b \in Bytes, NEW args \in Seq(Argument)
  PROVE  Appends(b, args)
  <1> DEFINE T == {s \in Seq(Argument) : Appends(b, s)}
  <1>1. <<>> \in T
    <2>1. do_append(b, <<>>) = [bytes |-> b, ok |-> TRUE]
      BY AppendFolds
    <2>2. b \o <<>> = b /\ Begins(b, b) /\ DOMAIN <<>> = {}
      BY DEF Bytes, Begins
    <2>3. <<>> \in Seq(Argument)
      BY EmptySeq
    <2>4. PICK r : r = [bytes |-> b, ok |-> TRUE] /\ r = do_append(b, <<>>)
      BY <2>1
    <2>5. r \in Outcome /\ r.bytes = b /\ r.ok
      BY <2>4 DEF Outcome
    <2>6. Appends(b, <<>>)
      <3>1. PICK s : s = <<>> /\ DOMAIN s = {} /\ b \o s = b
        BY <2>2
      <3>2. Appends(b, s)
        BY <2>2, <2>4, <2>5, <3>1 DEF Appends
      <3>3. QED
        BY <3>1, <3>2
    <2>7. QED
      BY <2>6, <2>3
  <1>2. ASSUME NEW s \in T, NEW a \in Argument PROVE Append(s, a) \in T
    <2>1. PICK r : r = do_append(b, s)
      OBVIOUS
    <2>2. s \in Seq(Argument) /\ Appends(b, s)
      BY <1>2
    <2>3. PICK t \in Seq(Argument) : t = Append(s, a)
      BY <2>2, PushOne
    <2>4. r \in Outcome /\ Begins(b, r.bytes)
      BY <2>1, <2>2 DEF Appends
    <2>5. PICK q \in Outcome : q = AppendOne(r, a) /\ q = do_append(b, t)
      BY <2>1, <2>3, <2>2, <2>4, AppendFolds, AppendOneFacts
    <2>6. /\ Begins(r.bytes, q.bytes)
          /\ q.ok => r.ok /\ a # Bad
          /\ r.ok /\ a \notin {Bad, Self} => q = [bytes |-> Append(r.bytes, a), ok |-> TRUE]
      BY <2>4, <2>5, AppendOneFacts
    <2>7. PICK k \in Nat : k = Len(s) /\ DOMAIN s = 1 .. k /\ DOMAIN t = 1 .. k + 1 /\ t[k + 1] = a
                           /\ \A i \in 1 .. k : t[i] = s[i]
      BY <2>3, <2>2
    <2>8. Begins(b, q.bytes)
      <3>1. b \in Seq(Byte) /\ r.bytes \in Seq(Byte) /\ q.bytes \in Seq(Byte)
        BY <2>4 DEF Outcome, Bytes
      <3>2. Len(b) \in Nat /\ Len(r.bytes) \in Nat /\ Len(q.bytes) \in Nat
        BY <3>1
      <3>3. QED
        BY <2>4, <2>6, <3>2 DEF Begins
    <2>9. ASSUME q.ok, \A i \in DOMAIN t : t[i] # Self PROVE q.bytes = b \o t
      <3>1. \A i \in DOMAIN s : s[i] # Self
        BY <2>7, <2>9
      <3>2. r.ok /\ a # Bad /\ a # Self
        BY <2>6, <2>7, <2>9
      <3>3. PICK u, v : u = r.bytes /\ u = b \o s /\ v = q.bytes /\ v = Append(u, a)
        BY <2>1, <2>2, <2>6, <3>1, <3>2 DEF Appends
      <3>4. b \in Seq(Argument) /\ s \in Seq(Argument)
        BY <2>2 DEF Bytes, Argument
      <3>5. Concats(u, b, s) /\ Adds(t, s, a) /\ Adds(v, u, a)
        BY <2>3, <3>3 DEF Concats, Adds
      <3>6. Concats(v, b, t)
        BY <3>4, <3>5, ConcatMore
      <3>7. QED
        BY <3>3, <3>6 DEF Concats
    <2>10. ASSUME \A i \in DOMAIN t : t[i] \notin {Bad, Self} PROVE q.ok
      <3>1. \A i \in DOMAIN s : s[i] \notin {Bad, Self}
        BY <2>7, <2>10
      <3>2. r.ok /\ a \notin {Bad, Self}
        BY <2>1, <2>2, <2>7, <2>10, <3>1 DEF Appends
      <3>3. QED
        BY <2>6, <3>2
    <2>11. ASSUME q.ok PROVE \A i \in DOMAIN t : t[i] # Bad
      <3>1. r.ok /\ a # Bad
        BY <2>6, <2>11
      <3>2. \A i \in DOMAIN s : s[i] # Bad
        BY <2>1, <2>2, <3>1 DEF Appends
      <3>3. QED
        BY <2>7, <3>1, <3>2
    <2>12. Appends(b, t)
      BY <2>5, <2>8, <2>9, <2>10, <2>11 DEF Appends
    <2>13. QED
      BY <2>3, <2>12
  <1>3. T = Seq(Argument)
    <2> HIDE DEF T
    <2>1. T \in SUBSET Seq(Argument)
      BY DEF T
    <2>2. QED
      BY <1>1, <1>2, <2>1, SequenceInduction
  <1>4. QED
    BY <1>3

-----------------------------------------------------------------------------
(* Positions *)

\* Least and Greatest by comparison.
Larger(a, b) == IF a >= b THEN a ELSE b
Smaller(a, b) == IF a <= b THEN a ELSE b

\* The lesser and the greater of two numbers.
LEMMA LeastGreatest ==
  ASSUME NEW a \in Int, NEW b \in Int
  PROVE  Least(a, b) = Smaller(a, b) /\ Greatest(a, b) = Larger(a, b)
  <1>1. Smaller(a, b) \in {a, b} /\ \A y \in {a, b} : Smaller(a, b) =< y
    BY DEF Smaller
  <1>2. \A x \in {a, b} : (\A y \in {a, b} : x =< y) => x = Smaller(a, b)
    BY DEF Smaller
  <1>3. Least(a, b) = Smaller(a, b)
    BY <1>1, <1>2 DEF Least, Min
  <1>4. Larger(a, b) \in {a, b} /\ \A y \in {a, b} : Larger(a, b) >= y
    BY DEF Larger
  <1>5. \A x \in {a, b} : (\A y \in {a, b} : x >= y) => x = Larger(a, b)
    BY DEF Larger
  <1>6. Greatest(a, b) = Larger(a, b)
    BY <1>4, <1>5 DEF Greatest, Max
  <1>7. QED
    BY <1>3, <1>6

\* A range of the data, and its meaning in JavaScript.
RangeIs(r, first, last) ==
  /\ r.first = first /\ r.last = last
  /\ first \in Nat /\ last \in Nat /\ first <= last /\ last <= n

\* A position that may not be given.
IntOrNone == Int \cup {None}

\* The place a position means, as the code computes it.
LEMMA PlaceIs ==
  ASSUME data \in Bytes, NEW i \in Int
  PROVE  /\ n \in Nat
         /\ Place(data, i) = IF i < 0 THEN Larger(n + i, 0) ELSE Smaller(i, n)
         /\ Place(data, i) \in 0 .. n
  <1>1. n \in Nat /\ n = Len(data)
    BY DEF Bytes, n
  <1>2. Greatest(n + i, 0) = Larger(n + i, 0) /\ Least(i, n) = Smaller(i, n)
    BY <1>1, LeastGreatest
  <1>3. Place(data, i) = IF i < 0 THEN Larger(n + i, 0) ELSE Smaller(i, n)
    BY <1>1, <1>2 DEF Place
  <1>4. QED
    BY <1>1, <1>3 DEF Larger, Smaller

\* The place an end means; without one it is the length.
LEMMA ToIs ==
  ASSUME data \in Bytes, NEW e \in IntOrNone
  PROVE  /\ To(data, e) \in 0 .. n
         /\ To(data, e) = IF e = None THEN n ELSE IF e < 0 THEN Larger(n + e, 0) ELSE Smaller(e, n)
  <1>1. n \in Nat /\ n = Len(data)
    BY DEF Bytes, n
  <1>2. CASE e = None
    BY <1>1, <1>2 DEF To
  <1>3. CASE e # None
    <2>1. e \in Int /\ To(data, e) = Place(data, e)
      BY <1>3 DEF To, IntOrNone
    <2>2. QED
      BY <1>3, <2>1, PlaceIs
  <1>4. QED
    BY <1>2, <1>3

\* range: from the place of the beginning to that of the end, or nothing.
LEMMA BeginEndFits ==
  ASSUME data \in Bytes, NEW b \in Int, b >= -n, NEW e \in IntOrNone
  PROVE  /\ RangeIs(BeginEnd(b, e), Place(data, b), Larger(To(data, e), Place(data, b)))
  <1>1. n \in Nat /\ n = Len(data)
    BY DEF Bytes, n
  <1>2. PICK f : f = (IF b < 0 THEN n + b ELSE b) /\ f \in Nat
    BY <1>1
  <1>3. PICK g : g = Given(e, n) /\ g \in Int
    BY <1>1 DEF Given, IntOrNone
  <1>4. PICK h : h = (IF g < 0 THEN n + g ELSE g) /\ h \in Int
    BY <1>1, <1>3
  <1>5. Least(f, n) = Smaller(f, n) /\ Least(h, n) = Smaller(h, n)
    BY <1>1, <1>2, <1>4, LeastGreatest
  <1>6. Smaller(f, n) \in Int /\ Smaller(h, n) \in Int
    BY <1>1, <1>2, <1>4 DEF Smaller
  <1>7. Greatest(Smaller(h, n), Smaller(f, n)) = Larger(Smaller(h, n), Smaller(f, n))
    BY <1>6, LeastGreatest
  <1>8. BeginEnd(b, e) = [first |-> Smaller(f, n), last |-> Larger(Smaller(h, n), Smaller(f, n))]
    BY <1>2, <1>3, <1>4, <1>5, <1>7 DEF BeginEnd
  <1>9. Place(data, b) = Smaller(f, n)
    BY <1>1, <1>2, PlaceIs DEF Smaller, Larger
  <1>10. Larger(To(data, e), Smaller(f, n)) = Larger(Smaller(h, n), Smaller(f, n))
    <2>1. CASE e = None
      BY <1>1, <1>2, <1>3, <1>4, <2>1, ToIs DEF Given, Smaller, Larger
    <2>2. CASE e # None
      <3>1. g = e /\ e \in Int
        BY <1>3, <2>2 DEF Given, IntOrNone
      <3>2. To(data, e) = IF e < 0 THEN Larger(n + e, 0) ELSE Smaller(e, n)
        BY <2>2, ToIs
      <3>3. QED
        BY <1>1, <1>2, <1>4, <3>1, <3>2 DEF Smaller, Larger
    <2>3. QED
      BY <2>1, <2>2
  <1>11. QED
    BY <1>1, <1>2, <1>4, <1>8, <1>9, <1>10 DEF RangeIs, Smaller, Larger

\* length_range: so many from the place of the start, or all there are.
LEMMA StartLengthFits ==
  ASSUME data \in Bytes, NEW b \in Int, NEW e \in IntOrNone
  PROVE  /\ Count(data, Place(data, b), e) \in Nat
         /\ RangeIs(StartLength(b, e), Place(data, b), Place(data, b) + Count(data, Place(data, b), e))
  <1>1. n \in Nat /\ n = Len(data)
    BY DEF Bytes, n
  <1>2. PICK f : f = (IF b < 0 THEN n + b ELSE b) /\ f \in Int
    BY <1>1
  <1>3. Greatest(f, 0) = Larger(f, 0) /\ Larger(f, 0) \in Int
    BY <1>2, LeastGreatest DEF Larger
  <1>4. PICK first : first = Least(Greatest(f, 0), n) /\ first = Smaller(Larger(f, 0), n)
    BY <1>1, <1>3, LeastGreatest
  <1>5. first \in 0 .. n
    BY <1>1, <1>2, <1>4 DEF Smaller, Larger
  <1>6. PICK g : g = Given(e, n - first) /\ g \in Int
    BY <1>1, <1>5 DEF Given, IntOrNone
  <1>7. Greatest(g, 0) = Larger(g, 0) /\ Larger(g, 0) \in Int
    BY <1>6, LeastGreatest DEF Larger
  <1>8. Least(Larger(g, 0), n - first) = Smaller(Larger(g, 0), n - first)
    BY <1>1, <1>5, <1>7, LeastGreatest
  <1>9. PICK c : c = Smaller(Larger(g, 0), n - first) /\ c \in 0 .. n - first
    BY <1>1, <1>5, <1>6 DEF Smaller, Larger
  <1>10. StartLength(b, e) = [first |-> first, last |-> first + c]
    BY <1>2, <1>4, <1>6, <1>7, <1>8, <1>9 DEF StartLength
  <1>11. Place(data, b) = first
    BY <1>1, <1>2, <1>4, PlaceIs DEF Smaller, Larger
  <1>12. Count(data, first, e) = c
    <2>1. CASE e = None
      BY <1>1, <1>5, <1>6, <1>9, <2>1 DEF Count, Given, Smaller, Larger
    <2>2. CASE e # None
      BY <1>1, <1>6, <1>7, <1>8, <1>9, <2>2 DEF Count, Given
    <2>3. QED
      BY <2>1, <2>2
  <1>13. QED
    BY <1>1, <1>5, <1>9, <1>10, <1>11, <1>12 DEF RangeIs

\* substring: between two places, whichever comes first.
Clamped(i) == Smaller(Larger(i, 0), n)

\* substring: between two places, whichever comes first.
LEMMA FirstLastFits ==
  ASSUME data \in Bytes, NEW b \in Int, NEW e \in IntOrNone
  PROVE  LET first == Least(Greatest(b, 0), n)
             last == IF e = None THEN n ELSE Least(Greatest(e, 0), n)
         IN  RangeIs(FirstLast(b, e), Least(first, last), Greatest(first, last))
  <1>1. n \in Nat /\ n = Len(data)
    BY DEF Bytes, n
  <1>2. ASSUME NEW i \in Int PROVE Least(Greatest(i, 0), n) = Clamped(i) /\ Clamped(i) \in 0 .. n
    <2>1. Greatest(i, 0) = Larger(i, 0) /\ Larger(i, 0) \in Int
      BY LeastGreatest DEF Larger
    <2>2. QED
      BY <1>1, <2>1, LeastGreatest DEF Clamped, Smaller, Larger
  <1>3. PICK f \in 0 .. n : f = Least(Greatest(b, 0), n)
    BY <1>2
  <1>4. PICK g : g = Given(e, n) /\ g \in Int
    BY <1>1 DEF Given, IntOrNone
  <1>5. PICK h \in 0 .. n : h = Least(Greatest(g, 0), n)
    BY <1>2, <1>4
  <1>6. h = IF e = None THEN n ELSE Least(Greatest(e, 0), n)
    <2>1. CASE e = None
      <3>1. g = n
        BY <1>4, <2>1 DEF Given
      <3>2. h = Clamped(n)
        BY <1>2, <1>4, <1>5, <3>1
      <3>3. QED
        BY <1>1, <2>1, <3>2 DEF Clamped, Smaller, Larger
    <2>2. CASE e # None
      BY <1>4, <1>5, <2>2 DEF Given
    <2>3. QED
      BY <2>1, <2>2
  <1>7. FirstLast(b, e) = [first |-> Least(f, h), last |-> Greatest(f, h)]
    BY <1>3, <1>4, <1>5 DEF FirstLast
  <1>8. Least(f, h) = Smaller(f, h) /\ Greatest(f, h) = Larger(f, h)
    BY <1>1, LeastGreatest
  <1>9. RangeIs(FirstLast(b, e), Least(f, h), Greatest(f, h))
    BY <1>1, <1>7, <1>8 DEF RangeIs, Smaller, Larger
  <1>10. QED
    BY <1>3, <1>6, <1>9

-----------------------------------------------------------------------------
(* Parts *)

\* The bytes between two places, as a part of the sequence.
LEMMA BetweenIs ==
  ASSUME NEW s \in Bytes, NEW f \in Nat, NEW l \in Nat, f <= l, l <= Len(s)
  PROVE  /\ Between(s, f, l) = SubSeq(s, f + 1, l)
         /\ Between(s, f, l) \in Bytes /\ Len(Between(s, f, l)) = l - f
         /\ \A i \in 1 .. l - f : Between(s, f, l)[i] = s[f + i]
  <1>1. Greatest(l - f, 0) = l - f
    BY LeastGreatest DEF Larger
  <1>2. PICK k \in Nat : k = l - f
    OBVIOUS
  <1>3. PICK t : t = Between(s, f, l) /\ t = [i \in 1 .. k |-> s[f + i]]
    BY <1>1, <1>2 DEF Between
  <1>4. s \in Seq(Byte) /\ Len(s) \in Nat
    BY DEF Bytes
  <1>5. \A i \in 1 .. k : s[f + i] \in Byte
    BY <1>2, <1>4
  <1>6. t \in Seq(Byte) /\ Len(t) = k /\ \A i \in 1 .. k : t[i] = s[f + i]
    BY <1>3, <1>5
  <1>7. PICK u : u = SubSeq(s, f + 1, l)
    OBVIOUS
  <1>8. u \in Seq(Byte) /\ Len(u) = k /\ \A i \in 1 .. k : u[i] = s[f + i]
    BY <1>2, <1>4, <1>7
  <1>9. t = u
    BY <1>6, <1>8, SeqEqual
  <1>10. QED
    BY <1>2, <1>3, <1>6, <1>7, <1>9 DEF Bytes

\* There is nothing between two places in the wrong order.
LEMMA BetweenOrder ==
  ASSUME NEW s, NEW f \in Nat, NEW l \in Int
  PROVE  Between(s, f, l) = Between(s, f, Larger(l, f))
  <1>1. PICK m \in Int : m = Larger(l, f)
    BY DEF Larger
  <1>2. Greatest(l - f, 0) = Larger(l - f, 0) /\ Greatest(m - f, 0) = Larger(m - f, 0)
    BY LeastGreatest
  <1>3. Larger(l - f, 0) = Larger(m - f, 0)
    BY <1>1 DEF Larger
  <1>4. QED
    BY <1>1, <1>2, <1>3 DEF Between

\* Between its ends is all of a sequence.
LEMMA BetweenAll ==
  ASSUME NEW s \in Bytes
  PROVE  Between(s, 0, Len(s)) = s /\ Between(s, 0, 0) = <<>> /\ Between(s, Len(s), Len(s)) = <<>>
  <1>1. s \in Seq(Byte) /\ Len(s) \in Nat
    BY DEF Bytes
  <1>2. SubSeq(s, 0 + 1, Len(s)) = s /\ SubSeq(s, 0 + 1, 0) = <<>> /\ SubSeq(s, Len(s) + 1, Len(s)) = <<>>
    BY <1>1
  <1>3. PICK k \in Nat, z \in Nat : k = Len(s) /\ z = 0 /\ z <= k /\ k <= k /\ z <= z
    BY <1>1
  <1>4. Between(s, z, k) = SubSeq(s, z + 1, k) /\ Between(s, z, z) = SubSeq(s, z + 1, z)
    BY <1>3, BetweenIs
  <1>5. Between(s, k, k) = SubSeq(s, k + 1, k)
    BY <1>3, BetweenIs
  <1>6. QED
    BY <1>2, <1>3, <1>4, <1>5

\* The parts before, in and behind a range.
LEMMA RangeParts ==
  ASSUME data \in Bytes, NEW r, NEW f, NEW l, RangeIs(r, f, l)
  PROVE  /\ Before(r) = Between(data, 0, f) /\ Before(r) \in Bytes /\ Len(Before(r)) = f
         /\ Part(data, r) = Between(data, f, l)
         /\ Behind(r) = Between(data, l, Len(data)) /\ Behind(r) \in Bytes /\ Len(Behind(r)) = n - l
  <1>1. n \in Nat /\ n = Len(data) /\ data \in Seq(Byte)
    BY DEF Bytes, n
  <1>2. f \in Nat /\ l \in Nat /\ f <= l /\ l <= n /\ r.first = f /\ r.last = l
    BY DEF RangeIs
  <1>3. Before(r) = SubSeq(data, 0 + 1, f)
    BY <1>2 DEF Before
  <1>4. Part(data, r) = SubSeq(data, f + 1, l)
    BY <1>2 DEF Part
  <1>5. Behind(r) = SubSeq(data, l + 1, n)
    BY <1>2 DEF Behind
  <1>6. 0 <= f /\ f <= Len(data) /\ l <= Len(data) /\ 0 \in Nat /\ Len(data) <= Len(data) /\ f - 0 = f
    BY <1>1, <1>2
  <1>7. Between(data, 0, f) = SubSeq(data, 0 + 1, f) /\ Between(data, 0, f) \in Bytes /\ Len(Between(data, 0, f)) = f
    BY <1>2, <1>6, BetweenIs
  <1>8. Between(data, f, l) = SubSeq(data, f + 1, l)
    BY <1>2, <1>6, BetweenIs
  <1>9. Between(data, l, n) = SubSeq(data, l + 1, n) /\ Between(data, l, n) \in Bytes /\ Len(Between(data, l, n)) = n - l
    BY <1>1, <1>2, <1>6, BetweenIs
  <1>10. QED
    BY <1>1, <1>3, <1>4, <1>5, <1>7, <1>8, <1>9

\* What stands before a range stays, whatever happens; if appending goes
\* well, the arguments stand between it and what was behind.
LEMMA DisplacedFacts ==
  ASSUME data \in Bytes, NEW r, NEW f, NEW l, RangeIs(r, f, l), NEW args \in Seq(Argument)
  PROVE  /\ Displaced(r, args) \in Outcome
         /\ Begins(Between(data, 0, f), Displaced(r, args).bytes)
         /\ Displaced(r, args).ok /\ (\A i \in DOMAIN args : args[i] # Self) =>
              Displaced(r, args).bytes = Between(data, 0, f) \o args \o Between(data, l, Len(data))
  <1>1. PICK b \in Bytes : b = Before(r) /\ b = Between(data, 0, f)
    BY RangeParts
  <1>2. PICK c \in Bytes : c = Behind(r) /\ c = Between(data, l, Len(data))
    BY RangeParts
  <1>3. PICK a : a = do_append(b, args)
    OBVIOUS
  <1>4. a \in Outcome /\ Begins(b, a.bytes)
        /\ (a.ok /\ (\A i \in DOMAIN args : args[i] # Self) => a.bytes = b \o args)
    BY <1>3, AppendFacts DEF Appends
  <1>5. PICK e : e = Displaced(r, args)
    OBVIOUS
  <1>6. CASE ~a.ok
    <2>1. e = a
      BY <1>1, <1>3, <1>5, <1>6 DEF Displaced
    <2>2. QED
      BY <1>1, <1>4, <1>5, <1>6, <2>1
  <1>7. CASE a.ok
    <2>1. PICK s : s = a.bytes \o c
      OBVIOUS
    <2>2. e = [a EXCEPT !.bytes = s]
      BY <1>1, <1>2, <1>3, <1>5, <1>7, <2>1 DEF Displaced
    <2>3. a.bytes \in Seq(Byte) /\ b \in Seq(Byte) /\ c \in Seq(Byte)
      BY <1>4 DEF Outcome, Bytes
    <2>4. s \in Seq(Byte) /\ Len(a.bytes) <= Len(s) /\ \A i \in 1 .. Len(a.bytes) : s[i] = a.bytes[i]
      BY <2>1, <2>3
    <2>5. e \in Outcome /\ e.bytes = s
      BY <1>4, <2>2, <2>4 DEF Outcome, Bytes
    <2>6. Begins(b, s)
      <3>1. Len(b) \in Nat /\ Len(a.bytes) \in Nat /\ Len(s) \in Nat
        BY <2>3, <2>4
      <3>2. QED
        BY <1>4, <2>4, <3>1 DEF Begins
    <2>7. ASSUME \A i \in DOMAIN args : args[i] # Self PROVE s = b \o args \o c
      BY <1>4, <1>7, <2>1, <2>7
    <2>8. QED
      BY <1>1, <1>2, <1>5, <2>5, <2>6, <2>7
  <1>8. QED
    BY <1>6, <1>7

-----------------------------------------------------------------------------
(* Calls *)

\* The call that has just ended.
CallIs(op, input, after, result, ok) ==
  /\ data' = after
  /\ call' = [op |-> op, input |-> input, before |-> data, result |-> result, ok |-> ok]

SpliceOps == {"append", "prepend", "erase", "insert", "displace", "splice"}
PositionOps == {"get", "slice", "substr", "substring", "indexOf", "lastIndexOf"}
CuttingOps == {"prepend", "sort", "displace", "insert", "splice"}

\* What Called says.
LEMMA CalledIs ==
  ASSUME NEW op, NEW input, NEW after, NEW result, NEW ok, Called(op, input, after, result, ok)
  PROVE  CallIs(op, input, after, result, ok) /\ Len(after) <= MaxLength /\ loop' = loop /\ call = None /\ loop = None
  BY DEF Called, CallIs, Idle

\* Properties that do not speak of a call with this name, or that failed.
LEMMA NotSpliced ==
  ASSUME NEW op, NEW input, NEW after, NEW result, NEW ok, CallIs(op, input, after, result, ok),
         op \notin SpliceOps \/ ~ok
  PROVE  Splices'
  <1>1. call'.op = op /\ call'.ok = ok
    BY DEF CallIs
  <1>2. QED
    BY <1>1 DEF Splices, SpliceOps

\* Positions does not speak of a call with another name, or that failed.
LEMMA NotPlaced ==
  ASSUME NEW op, NEW input, NEW after, NEW result, NEW ok, CallIs(op, input, after, result, ok),
         op \notin PositionOps \/ ~ok
  PROVE  Positions'
  <1>1. call'.op = op /\ call'.ok = ok
    BY DEF CallIs
  <1>2. QED
    BY <1>1 DEF Positions, PositionOps

\* Nor do the other properties speak of calls that are not theirs.
LEMMA NotOthers ==
  ASSUME NEW op, NEW input, NEW after, NEW result, NEW ok, CallIs(op, input, after, result, ok)
  PROVE  /\ op # "split" \/ ~ok => SplitRejoins'
         /\ op \notin {"reverse", "sort"} => Rearranges'
         /\ op \notin LoopOp \/ ~ok => Answers'
         /\ op \in LoopOp \/ ok => FailureKeepsHead'
  <1>1. call'.op = op /\ call'.ok = ok
    BY DEF CallIs
  <1>2. op # "split" \/ ~ok => SplitRejoins'
    BY <1>1 DEF SplitRejoins
  <1>3. op \notin {"reverse", "sort"} => Rearranges'
    BY <1>1 DEF Rearranges
  <1>4. op \notin LoopOp \/ ~ok => Answers'
    BY <1>1 DEF Answers
  <1>5. op \in LoopOp \/ ok => FailureKeepsHead'
    BY <1>1 DEF FailureKeepsHead
  <1>6. QED
    BY <1>2, <1>3, <1>4, <1>5

\* A sequence that another begins with is a prefix of it.
LEMMA PrefixIs ==
  ASSUME NEW s \in Bytes, NEW t \in Bytes, Begins(s, t)
  PROVE  IsPrefix(s, t)
  <1>1. s \in Seq(Byte) /\ t \in Seq(Byte) /\ Len(s) \in Nat /\ Len(t) \in Nat
    BY DEF Bytes
  <1>2. Len(s) <= Len(t) /\ \A i \in 1 .. Len(s) : t[i] = s[i]
    BY DEF Begins
  <1>3. SubSeq(s, 1, Len(s)) = SubSeq(t, 1, Len(s))
    BY <1>1, <1>2
  <1>4. QED
    BY <1>2, <1>3 DEF IsPrefix

\* A call that changes nothing keeps what it must, and so does one that keeps
\* all there was.
LEMMA KeepsAll ==
  ASSUME NEW op, NEW input, NEW after, NEW result, NEW ok, CallIs(op, input, after, result, ok),
         data \in Bytes, after \in Bytes, Begins(data, after), op \notin CuttingOps
  PROVE  FailureKeepsHead'
  <1>1. call'.op = op /\ call'.ok = ok /\ call'.before = data /\ data' = after
    BY DEF CallIs
  <1>2. Between(data, 0, Len(data)) = data
    BY BetweenAll
  <1>3. IsPrefix(Between(data, 0, Len(data)), after)
    BY <1>2, PrefixIs
  <1>4. QED
    BY <1>1, <1>3 DEF FailureKeepsHead, CuttingOps

\* What is said of a call that has just ended.
CallSound ==
  Splices /\ FailureKeepsHead /\ Positions /\ SplitRejoins /\ Rearranges /\ Answers

SpecialOps == SpliceOps \cup PositionOps \cup {"split", "reverse", "sort"} \cup LoopOp

\* Of most calls it is enough that they change nothing if they fail.
LEMMA PlainSound ==
  ASSUME data \in Bytes,
         NEW op, NEW input, NEW after, NEW result, NEW ok, CallIs(op, input, after, result, ok),
         op \notin SpecialOps, ok \/ after = data
  PROVE  CallSound'
  <1>1. op \notin SpliceOps /\ op \notin PositionOps /\ op # "split" /\ op \notin {"reverse", "sort"} /\ op \notin LoopOp
    BY DEF SpecialOps
  <1>2. op \notin CuttingOps
    BY <1>1 DEF CuttingOps, SpliceOps
  <1>3. Splices' /\ Positions' /\ SplitRejoins' /\ Rearranges' /\ Answers'
    BY <1>1, NotSpliced, NotPlaced, NotOthers
  <1>4. CASE ok
    BY <1>3, <1>4, NotOthers DEF CallSound
  <1>5. CASE after = data
    <2>1. Begins(data, data)
      <3>1. Len(data) \in Nat
        BY DEF Bytes
      <3>2. QED
        BY <3>1 DEF Begins
    <2>2. FailureKeepsHead'
      BY <1>2, <1>5, <2>1, KeepsAll
    <2>3. QED
      BY <1>3, <2>2 DEF CallSound
  <1>6. QED
    BY <1>4, <1>5

\* Of the data, new is in d in the place of what is between first and last.
PutsIn(d, first, last, new) ==
  (\A i \in DOMAIN new : new[i] # Self) => d = Between(data, 0, first) \o new \o Between(data, last, Len(data))

\* What PutsIn says is what Replaced says.
LEMMA ReplacedIs ==
  ASSUME call'.before = data, NEW f \in Nat, NEW m \in Int, NEW l, l = Larger(m, f), NEW new,
         PutsIn(data', f, l, new)
  PROVE  Replaced(f, m, new)'
  <1>1. Greatest(f, m) = l
    BY LeastGreatest DEF Larger
  <1>2. PICK b, c : b = Between(data, 0, f) /\ c = Between(data, l, Len(data))
    OBVIOUS
  <1>3. (\A i \in DOMAIN new : new[i] # Self) => data' = b \o new \o c
    BY <1>2 DEF PutsIn
  <1>4. Self \notin ToSet(new) => \A i \in DOMAIN new : new[i] # Self
    BY DEF ToSet
  <1>5. Self \notin ToSet(new) => data' = b \o new \o c
    BY ONLY <1>3, <1>4
  <1>6. b = Between(call'.before, 0, f) /\ c = Between(call'.before, Greatest(f, m), Len(call'.before))
    BY <1>1, <1>2
  <1>7. Self \notin ToSet(new) =>
          data' = Between(call'.before, 0, f) \o new \o Between(call'.before, Greatest(f, m), Len(call'.before))
    BY ONLY <1>5, <1>6
  <1>8. QED
    BY <1>7 DEF Replaced

\* What a method that puts something in the place of a range must show.
Shown(op, input, a, result) ==
  /\ a \in Outcome
  /\ CallIs(op, input, a.bytes, IF a.ok THEN result ELSE None, a.ok)

\* A method that changes the array is sound if it keeps what it must when it
\* fails, and Splices holds when it does not.
LEMMA ShownSound ==
  ASSUME data \in Bytes, NEW op \in SpliceOps, NEW input, NEW a, NEW result, Shown(op, input, a, result),
         NEW kept \in Nat, kept <= Len(data), Begins(Between(data, 0, kept), a.bytes),
         kept = CASE op = "prepend" -> 0
                  [] op \in {"displace", "insert", "splice"} -> Place(data, input[1])
                  [] OTHER -> Len(data),
         a.ok => Splices'
  PROVE  CallSound' /\ data' \in Bytes
  <1>1. PICK r, ok : r = (IF a.ok THEN result ELSE None) /\ ok = a.ok /\ CallIs(op, input, a.bytes, r, ok)
    BY DEF Shown
  <1>2. a.bytes \in Bytes
    BY DEF Shown, Outcome
  <1>3. op \notin PositionOps /\ op # "split" /\ op \notin {"reverse", "sort"} /\ op \notin LoopOp
    BY DEF SpliceOps, PositionOps, LoopOp
  <1>4. Positions' /\ SplitRejoins' /\ Rearranges' /\ Answers'
    BY <1>1, <1>3, NotPlaced, NotOthers
  <1>5. Splices'
    <2>1. CASE a.ok
      BY <2>1
    <2>2. CASE ~a.ok
      BY <1>1, <2>2, NotSpliced
    <2>3. QED
      BY <2>1, <2>2
  <1>6. FailureKeepsHead'
    <2>1. PICK b : b = Between(data, 0, kept) /\ b \in Bytes
      BY BetweenIs
    <2>2. IsPrefix(b, a.bytes)
      BY <1>2, <2>1, PrefixIs
    <2>3. call'.op = op /\ call'.before = data /\ call'.input = input /\ data' = a.bytes
      BY <1>1 DEF CallIs
    <2>4. kept = CASE op \in {"prepend", "sort"} -> 0
                   [] op \in {"displace", "insert", "splice"} -> Place(data, input[1])
                   [] OTHER -> Len(data)
      BY DEF SpliceOps
    <2>5. QED
      BY <2>1, <2>2, <2>3, <2>4 DEF FailureKeepsHead
  <1>7. data' \in Bytes
    BY <1>1, <1>2 DEF CallIs
  <1>8. QED
    BY <1>4, <1>5, <1>6, <1>7 DEF CallSound

\* append: all there was stays, and an array that is appended to itself is
\* there twice.
LEMMA AppendSound ==
  ASSUME data \in Bytes, NEW args \in Seq(Argument), append(args)
  PROVE  CallSound' /\ data' \in Bytes
  <1>1. PICK a : a = do_append(data, args)
    OBVIOUS
  <1>2. Called("append", args, a.bytes, IF a.ok THEN Len(a.bytes) ELSE None, a.ok)
    BY <1>1 DEF append, Changed
  <1>3. CallIs("append", args, a.bytes, IF a.ok THEN Len(a.bytes) ELSE None, a.ok)
    BY <1>2, CalledIs
  <1>4. /\ a \in Outcome /\ Begins(data, a.bytes)
        /\ a.ok /\ (\A i \in DOMAIN args : args[i] # Self) => a.bytes = data \o args
    BY <1>1, AppendFacts DEF Appends
  <1>5. Shown("append", args, a, Len(a.bytes))
    BY <1>3, <1>4 DEF Shown
  <1>6. ASSUME a.ok PROVE Splices'
    <2>1. call'.op = "append" /\ call'.before = data /\ call'.input = args /\ data' = a.bytes /\ call'.result = Len(a.bytes)
      BY <1>3, <1>6 DEF CallIs
    <2>2. PICK k \in Nat : k = Len(data)
      BY DEF Bytes
    <2>3. Between(data, 0, k) = data /\ Between(data, k, k) = <<>>
      BY <2>2, BetweenAll
    <2>4. PutsIn(data', k, k, args)
      <3>1. SUFFICES ASSUME \A i \in DOMAIN args : args[i] # Self
                     PROVE  data' = Between(data, 0, k) \o args \o Between(data, k, Len(data))
        BY DEF PutsIn
      <3>2. data' = data \o args
        BY <1>4, <1>6, <2>1, <3>1
      <3>3. data \in Seq(Argument)
        BY DEF Bytes, Argument
      <3>4. PICK s : s = data \o args /\ s \in Seq(Argument)
        BY <3>3, ConcatProperties
      <3>5. s \o <<>> = s
        BY <3>4, ConcatEmptySeq
      <3>6. QED
        BY <2>2, <2>3, <3>2, <3>4, <3>5
    <2>5. Replaced(k, k, args)'
      <3>1. k = Larger(k, k)
        BY DEF Larger
      <3>2. QED
        BY <2>1, <2>4, <3>1, ReplacedIs
    <2>6. args = <<Self>> => data' = data \o data
      <3>1. SUFFICES ASSUME args = <<Self>> PROVE data' = data \o data
        OBVIOUS
      <3>2. PICK e, r : e = <<>> /\ e \in Seq(Argument) /\ r = do_append(data, e) /\ r = [bytes |-> data, ok |-> TRUE]
        BY AppendFolds, EmptySeq
      <3>3. Self \in Argument /\ args = Append(e, Self)
        BY <3>1, <3>2 DEF Argument
      <3>4. a = AppendOne(r, Self)
        BY <1>1, <3>2, <3>3, AppendFolds
      <3>5. r.ok /\ r.bytes = data
        BY <3>2
      <3>6. Self # Bad
        BY <1>6, <3>4, <3>5 DEF AppendOne
      <3>7. a = [r EXCEPT !.bytes = r.bytes \o r.bytes]
        BY <3>4, <3>5, <3>6 DEF AppendOne
      <3>8. PICK d : d = data \o data
        OBVIOUS
      <3>9. a = [r EXCEPT !.bytes = d]
        BY <3>5, <3>7, <3>8
      <3>10. a.bytes = d
        BY <3>2, <3>9
      <3>11. QED
        BY <2>1, <3>8, <3>10
    <2>7. QED
      BY <2>1, <2>2, <2>5, <2>6 DEF Splices
  <1>7. PICK k \in Nat : k = Len(data) /\ k <= Len(data)
    BY DEF Bytes
  <1>8. Begins(Between(data, 0, k), a.bytes)
    BY <1>4, <1>7, BetweenAll
  <1>9. "append" \in SpliceOps
    BY DEF SpliceOps
  <1>10. QED
    BY <1>5, <1>6, <1>7, <1>8, <1>9, ShownSound

\* The components of pairs and triples.
LEMMA Inputs ==
  ASSUME NEW a, NEW b, NEW c
  PROVE  /\ <<a, b>>[1] = a /\ <<a, b>>[2] = b
         /\ <<a, b, c>>[1] = a /\ <<a, b, c>>[2] = b /\ <<a, b, c>>[3] = c
  OBVIOUS

\* The methods that set aside what is behind a range.
LEMMA DisplacedSound ==
  ASSUME data \in Bytes, NEW op \in {"prepend", "displace", "insert", "splice"}, NEW input,
         NEW r, NEW f, NEW l, RangeIs(r, f, l), NEW args \in Seq(Argument),
         NEW a, a = Displaced(r, args), NEW result,
         Called(op, input, a.bytes, IF a.ok THEN result ELSE None, a.ok),
         f = IF op = "prepend" THEN 0 ELSE Place(data, input[1]),
         a.ok /\ PutsIn(data', f, l, args) => Splices'
  PROVE  CallSound' /\ data' \in Bytes
  <1>1. /\ a \in Outcome /\ Begins(Between(data, 0, f), a.bytes)
        /\ a.ok /\ (\A i \in DOMAIN args : args[i] # Self) =>
             a.bytes = Between(data, 0, f) \o args \o Between(data, l, Len(data))
    BY DisplacedFacts
  <1>2. PICK x : x = IF a.ok THEN result ELSE None
    OBVIOUS
  <1>3. Called(op, input, a.bytes, x, a.ok)
    BY <1>2
  <1>4. CallIs(op, input, a.bytes, x, a.ok)
    BY <1>3, CalledIs
  <1>5. Shown(op, input, a, result)
    BY <1>1, <1>2, <1>4 DEF Shown
  <1>6. a.ok => PutsIn(data', f, l, args)
    <2>1. data' = a.bytes
      BY <1>4 DEF CallIs
    <2>2. PICK t : t = Between(data, 0, f) \o args \o Between(data, l, Len(data))
      OBVIOUS
    <2>3. a.ok /\ (\A i \in DOMAIN args : args[i] # Self) => a.bytes = t
      BY ONLY <1>1, <2>2
    <2>4. a.ok /\ (\A i \in DOMAIN args : args[i] # Self) => data' = t
      BY ONLY <2>1, <2>3
    <2>5. QED
      BY ONLY <2>2, <2>4 DEF PutsIn
  <1>7. f \in Nat /\ f <= Len(data)
    BY DEF RangeIs, n
  <1>8. op \in SpliceOps
    BY DEF SpliceOps
  <1>9. f = CASE op = "prepend" -> 0
              [] op \in {"displace", "insert", "splice"} -> Place(data, input[1])
              [] OTHER -> Len(data)
    OBVIOUS
  <1>10. a.ok => Splices'
    BY <1>6
  <1>11. QED
    BY <1>1, <1>5, <1>7, <1>8, <1>9, <1>10, ShownSound

\* The data and the range in front of them.
LEMMA AtStart ==
  ASSUME data \in Bytes
  PROVE  RangeIs([first |-> 0, last |-> 0], 0, 0) /\ n \in Nat /\ n = Len(data)
  BY DEF RangeIs, Bytes, n

\* prepend puts its arguments before all bytes.
LEMMA PrependSound ==
  ASSUME data \in Bytes, NEW args \in Seq(Argument), prepend(args)
  PROVE  CallSound' /\ data' \in Bytes
  <1>1. PICK r : r = [first |-> 0, last |-> 0] /\ RangeIs(r, 0, 0)
    BY AtStart
  <1>2. PICK a : a = Displaced(r, args)
    OBVIOUS
  <1>3. Called("prepend", args, a.bytes, IF a.ok THEN Len(a.bytes) ELSE None, a.ok)
    BY <1>1, <1>2 DEF prepend, Changed
  <1>4. ASSUME a.ok, PutsIn(data', 0, 0, args) PROVE Splices'
    <2>1. CallIs("prepend", args, a.bytes, IF a.ok THEN Len(a.bytes) ELSE None, a.ok)
      BY <1>3, CalledIs
    <2>2. call'.op = "prepend" /\ call'.before = data /\ call'.input = args /\ data' = a.bytes /\ call'.result = Len(a.bytes)
      BY <1>4, <2>1 DEF CallIs
    <2>3. 0 = Larger(0, 0) /\ 0 \in Nat /\ 0 \in Int
      BY DEF Larger
    <2>4. Replaced(0, 0, args)'
      BY <1>4, <2>2, <2>3, ReplacedIs
    <2>5. QED
      BY <2>2, <2>4 DEF Splices
  <1>5. PICK f : f = 0 /\ f = IF "prepend" = "prepend" THEN 0 ELSE Place(data, args[1])
    OBVIOUS
  <1>6. QED
    BY <1>1, <1>2, <1>3, <1>4, <1>5, DisplacedSound

\* displace and insert: from the place of the beginning to that of the end.
LEMMA DisplaceSound ==
  ASSUME data \in Bytes, NEW b \in Int, NEW e \in IntOrNone, NEW args \in Seq(Argument), displace(b, e, args)
  PROVE  CallSound' /\ data' \in Bytes
  <1>1. b >= -n
    BY DEF displace
  <1>2. PICK f, l, r : f = Place(data, b) /\ l = Larger(To(data, e), f) /\ r = BeginEnd(b, e) /\ RangeIs(r, f, l)
    BY <1>1, BeginEndFits
  <1>3. PICK a : a = Displaced(r, args)
    OBVIOUS
  <1>4. PICK in : in = <<b, e, args>> /\ in[1] = b /\ in[2] = e /\ in[3] = args
    <2>1. PICK in : in = <<b, e, args>>
      OBVIOUS
    <2>2. in[1] = b /\ in[2] = e /\ in[3] = args
      BY <2>1, Inputs
    <2>3. QED
      BY <2>1, <2>2
  <1>5. Called("displace", in, a.bytes, IF a.ok THEN Len(a.bytes) ELSE None, a.ok)
    BY <1>2, <1>3, <1>4 DEF displace, Changed
  <1>6. ASSUME a.ok, PutsIn(data', f, l, args) PROVE Splices'
    <2>1. CallIs("displace", in, a.bytes, IF a.ok THEN Len(a.bytes) ELSE None, a.ok)
      BY <1>5, CalledIs
    <2>2. call'.op = "displace" /\ call'.before = data /\ call'.input = in /\ data' = a.bytes /\ call'.result = Len(a.bytes)
      BY <1>6, <2>1 DEF CallIs
    <2>3. f \in Nat /\ To(data, e) \in Int
      BY <1>2, ToIs, AtStart DEF RangeIs
    <2>4. PICK m : m = To(data, e) /\ m \in Int /\ l = Larger(m, f)
      BY <1>2, <2>3
    <2>5. Replaced(f, m, args)'
      BY <1>6, <2>2, <2>3, <2>4, ReplacedIs
    <2>6. QED
      BY <1>2, <1>4, <2>2, <2>4, <2>5 DEF Splices
  <1>7. f = IF "displace" = "prepend" THEN 0 ELSE Place(data, in[1])
    BY <1>2, <1>4
  <1>8. QED
    BY <1>2, <1>3, <1>5, <1>6, <1>7, DisplacedSound

\* insert puts its arguments at the place of its position.
LEMMA InsertSound ==
  ASSUME data \in Bytes, NEW b \in Int, NEW args \in Seq(Argument), insert(b, args)
  PROVE  CallSound' /\ data' \in Bytes
  <1>1. b >= -n /\ b \in IntOrNone
    BY DEF insert, IntOrNone
  <1>2. PICK f, l, r : f = Place(data, b) /\ l = Larger(To(data, b), f) /\ r = BeginEnd(b, b) /\ RangeIs(r, f, l)
    BY <1>1, BeginEndFits
  <1>3. PICK a : a = Displaced(r, args)
    OBVIOUS
  <1>4. PICK in : in = <<b, args>> /\ in[1] = b /\ in[2] = args
    <2>1. PICK in : in = <<b, args>>
      OBVIOUS
    <2>2. in[1] = b /\ in[2] = args
      BY <2>1, Inputs
    <2>3. QED
      BY <2>1, <2>2
  <1>5. Called("insert", in, a.bytes, IF a.ok THEN Len(a.bytes) ELSE None, a.ok)
    BY <1>2, <1>3, <1>4 DEF insert, Changed
  <1>6. l = f
    <2>1. To(data, b) = f
      BY <1>2, ByteAssumption DEF To
    <2>2. QED
      BY <1>2, <2>1 DEF Larger
  <1>7. ASSUME a.ok, PutsIn(data', f, l, args) PROVE Splices'
    <2>1. CallIs("insert", in, a.bytes, IF a.ok THEN Len(a.bytes) ELSE None, a.ok)
      BY <1>5, CalledIs
    <2>2. call'.op = "insert" /\ call'.before = data /\ call'.input = in /\ data' = a.bytes /\ call'.result = Len(a.bytes)
      BY <1>7, <2>1 DEF CallIs
    <2>3. f \in Nat /\ f \in Int /\ l = Larger(f, f)
      BY <1>2, <1>6 DEF RangeIs, Larger
    <2>4. Replaced(f, f, args)'
      BY <1>7, <2>2, <2>3, ReplacedIs
    <2>5. QED
      BY <1>2, <1>4, <2>2, <2>4 DEF Splices
  <1>8. f = IF "insert" = "prepend" THEN 0 ELSE Place(data, in[1])
    BY <1>2, <1>4
  <1>9. QED
    BY <1>2, <1>3, <1>5, <1>7, <1>8, DisplacedSound

\* splice puts its arguments in the place of so many bytes.
LEMMA SpliceSound ==
  ASSUME data \in Bytes, NEW b \in Int, NEW e \in IntOrNone, NEW args \in Seq(Argument), splice(b, e, args)
  PROVE  CallSound' /\ data' \in Bytes
  <1>1. PICK f, c, l, q : f = Place(data, b) /\ c = Count(data, f, e) /\ l = f + c /\ q = StartLength(b, e)
                          /\ c \in Nat /\ RangeIs(q, f, l)
    BY StartLengthFits
  <1>2. f \in Nat /\ l \in Nat /\ f <= l /\ l <= n /\ q.first = f /\ q.last = l /\ n \in Nat /\ n = Len(data)
    BY <1>1, AtStart DEF RangeIs
  <1>3. f \in Int /\ f >= -n /\ l \in IntOrNone
    BY <1>2 DEF IntOrNone
  <1>4. Place(data, f) = f
    BY <1>2, PlaceIs DEF Smaller
  <1>5. PICK r : r = BeginEnd(f, l) /\ RangeIs(r, f, Larger(To(data, l), f))
    BY <1>3, <1>4, BeginEndFits
  <1>6. Larger(To(data, l), f) = l
    <2>1. l # None
      BY <1>2, ByteAssumption
    <2>2. To(data, l) = l
      BY <1>2, <1>3, <2>1, ToIs DEF Smaller
    <2>3. QED
      BY <1>2, <2>2 DEF Larger
  <1>7. PICK a : a = Displaced(r, args)
    OBVIOUS
  <1>8. PICK in : in = <<b, e, args>> /\ in[1] = b /\ in[2] = e /\ in[3] = args
    <2>1. PICK in : in = <<b, e, args>>
      OBVIOUS
    <2>2. in[1] = b /\ in[2] = e /\ in[3] = args
      BY <2>1, Inputs
    <2>3. QED
      BY <2>1, <2>2
  <1>9. PICK p : p = Part(data, q) /\ p = Between(data, f, l)
    BY <1>1, RangeParts
  <1>10. Called("splice", in, a.bytes, IF a.ok THEN p ELSE None, a.ok)
    BY <1>1, <1>2, <1>5, <1>7, <1>8, <1>9 DEF splice, Changed
  <1>11. ASSUME a.ok, PutsIn(data', f, l, args) PROVE Splices'
    <2>1. CallIs("splice", in, a.bytes, IF a.ok THEN p ELSE None, a.ok)
      BY <1>10, CalledIs
    <2>2. call'.op = "splice" /\ call'.before = data /\ call'.input = in /\ data' = a.bytes /\ call'.result = p
      BY <1>11, <2>1 DEF CallIs
    <2>3. l \in Int /\ l = Larger(l, f)
      BY <1>2 DEF Larger
    <2>4. Replaced(f, l, args)'
      BY <1>2, <1>11, <2>2, <2>3, ReplacedIs
    <2>5. QED
      BY <1>1, <1>8, <1>9, <2>2, <2>4 DEF Splices
  <1>12. f = IF "splice" = "prepend" THEN 0 ELSE Place(data, in[1])
    BY <1>1, <1>8
  <1>13. QED
    BY <1>5, <1>6, <1>7, <1>10, <1>11, <1>12, DisplacedSound

\* erase leaves out a range.
LEMMA EraseSound ==
  ASSUME data \in Bytes, NEW b \in Int, NEW e \in IntOrNone, erase(b, e)
  PROVE  CallSound' /\ data' \in Bytes
  <1>1. b >= -n
    BY DEF erase
  <1>2. PICK f, l, r : f = Place(data, b) /\ l = Larger(To(data, e), f) /\ r = BeginEnd(b, e) /\ RangeIs(r, f, l)
    BY <1>1, BeginEndFits
  <1>3. /\ r.first = f /\ r.last = l /\ f \in Nat /\ l \in Nat /\ f <= l /\ l <= n
        /\ n \in Nat /\ n = Len(data)
    BY <1>2, AtStart DEF RangeIs
  <1>4. PICK p, q : p = Before(r) /\ q = Behind(r) /\ p = Between(data, 0, f) /\ q = Between(data, l, Len(data))
                    /\ p \in Bytes /\ q \in Bytes /\ Len(p) = f /\ Len(q) = n - l
    BY <1>2, RangeParts
  <1>5. PICK s : s = p \o q
    OBVIOUS
  <1>6. s \in Bytes /\ Len(s) = n - (l - f)
    <2>1. p \in Seq(Byte) /\ q \in Seq(Byte)
      BY <1>4 DEF Bytes
    <2>2. s \in Seq(Byte) /\ Len(s) = Len(p) + Len(q)
      BY <1>5, <2>1, ConcatProperties
    <2>3. QED
      BY <1>3, <1>4, <2>2 DEF Bytes
  <1>7. PICK in : in = <<b, e>> /\ in[1] = b /\ in[2] = e
    <2>1. PICK in : in = <<b, e>>
      OBVIOUS
    <2>2. in[1] = b /\ in[2] = e
      BY <2>1, Inputs
    <2>3. QED
      BY <2>1, <2>2
  <1>8. CallIs("erase", in, s, Len(s), TRUE)
    BY <1>2, <1>3, <1>4, <1>5, <1>6, <1>7, CalledIs DEF erase
  <1>9. Splices'
    <2>1. call'.op = "erase" /\ call'.before = data /\ call'.input = in /\ data' = s /\ call'.result = Len(s)
      BY <1>8 DEF CallIs
    <2>2. p \o <<>> \o q = p \o q
      <3>1. p \in Seq(Byte)
        BY <1>4 DEF Bytes
      <3>2. p \o <<>> = p
        BY <3>1, ConcatEmptySeq
      <3>3. QED
        BY <3>2
    <2>3. PutsIn(data', f, l, <<>>)
      BY <1>4, <1>5, <2>1, <2>2 DEF PutsIn
    <2>4. To(data, e) \in Int
      BY <1>3, ToIs
    <2>5. PICK m : m = To(data, e) /\ m \in Int /\ l = Larger(m, f)
      BY <1>2, <2>4
    <2>6. PICK none : none = <<>>
      OBVIOUS
    <2>7. PutsIn(data', f, l, none)
      BY <2>3, <2>6
    <2>8. Replaced(f, m, none)'
      BY <1>3, <2>1, <2>5, <2>7, ReplacedIs
    <2>9. QED
      BY <1>2, <1>7, <2>1, <2>5, <2>6, <2>8 DEF Splices
  <1>10. CallSound'
    <2>1. "erase" \notin PositionOps /\ "erase" # "split" /\ "erase" \notin {"reverse", "sort"} /\ "erase" \notin LoopOp
      BY DEF PositionOps, LoopOp
    <2>2. Positions' /\ SplitRejoins' /\ Rearranges' /\ Answers' /\ FailureKeepsHead'
      BY <1>8, <2>1, NotPlaced, NotOthers
    <2>3. QED
      BY <1>9, <2>2 DEF CallSound
  <1>11. QED
    BY <1>6, <1>8, <1>10 DEF CallIs

-----------------------------------------------------------------------------
(* Methods that read *)

\* A call that changes nothing and says what it must.
LEMMA ReadSound ==
  ASSUME data \in Bytes, NEW op \in PositionOps, NEW input, NEW result, NEW ok,
         Called(op, input, data, result, ok), ok => Positions'
  PROVE  CallSound' /\ data' = data
  <1>1. CallIs(op, input, data, result, ok)
    BY CalledIs
  <1>2. op \notin SpliceOps /\ op # "split" /\ op \notin {"reverse", "sort"} /\ op \notin LoopOp /\ op \notin CuttingOps
    BY DEF SpliceOps, PositionOps, LoopOp, CuttingOps
  <1>3. Splices' /\ SplitRejoins' /\ Rearranges' /\ Answers'
    BY <1>1, <1>2, NotSpliced, NotOthers
  <1>4. Positions'
    <2>1. CASE ok
      BY <2>1
    <2>2. CASE ~ok
      BY <1>1, <2>2, NotPlaced
    <2>3. QED
      BY <2>1, <2>2
  <1>5. Begins(data, data)
    <2>1. Len(data) \in Nat
      BY DEF Bytes
    <2>2. QED
      BY <2>1 DEF Begins
  <1>6. FailureKeepsHead'
    BY <1>1, <1>2, <1>5, KeepsAll
  <1>7. QED
    BY <1>1, <1>3, <1>4, <1>6 DEF CallSound, CallIs

\* slice returns the bytes of a range.
LEMMA SliceSound ==
  ASSUME data \in Bytes, NEW b \in Int, NEW e \in IntOrNone, Slice(b, e)
  PROVE  CallSound' /\ data' = data
  <1>1. b >= -n
    BY DEF Slice
  <1>2. PICK f, l, r : f = Place(data, b) /\ l = Larger(To(data, e), f) /\ r = BeginEnd(b, e) /\ RangeIs(r, f, l)
    BY <1>1, BeginEndFits
  <1>3. PICK in : in = <<b, e>>
    OBVIOUS
  <1>4. in[1] = b /\ in[2] = e
    BY <1>3, Inputs
  <1>5. PICK p : p = Part(data, r)
    OBVIOUS
  <1>6. Called("slice", in, data, p, TRUE)
    BY <1>2, <1>3, <1>5 DEF Slice
  <1>7. p = Between(data, f, To(data, e))
    <2>1. f \in Nat /\ To(data, e) \in Int
      BY <1>2, ToIs, AtStart DEF RangeIs
    <2>2. Between(data, f, To(data, e)) = Between(data, f, l)
      BY <1>2, <2>1, BetweenOrder
    <2>3. QED
      BY <1>2, <1>5, <2>2, RangeParts
  <1>8. Positions'
    <2>1. CallIs("slice", in, data, p, TRUE)
      BY <1>6, CalledIs
    <2>2. call'.op = "slice" /\ call'.before = data /\ call'.input = in /\ call'.result = p
      BY <2>1 DEF CallIs
    <2>3. QED
      BY <1>2, <1>4, <1>7, <2>2 DEF Positions
  <1>9. "slice" \in PositionOps
    BY DEF PositionOps
  <1>10. QED
    BY <1>6, <1>8, <1>9, ReadSound

\* substr returns so many bytes from a place.
LEMMA SubstrSound ==
  ASSUME data \in Bytes, NEW b \in Int, NEW e \in IntOrNone, Substr(b, e)
  PROVE  CallSound' /\ data' = data
  <1>1. PICK f, l, r : f = Place(data, b) /\ l = f + Count(data, f, e) /\ r = StartLength(b, e) /\ RangeIs(r, f, l)
    BY StartLengthFits
  <1>2. PICK in : in = <<b, e>>
    OBVIOUS
  <1>3. in[1] = b /\ in[2] = e
    BY <1>2, Inputs
  <1>4. PICK p : p = Part(data, r)
    OBVIOUS
  <1>5. Called("substr", in, data, p, TRUE)
    BY <1>1, <1>2, <1>4 DEF Substr
  <1>6. p = Between(data, f, l)
    BY <1>1, <1>4, RangeParts
  <1>7. Positions'
    <2>1. CallIs("substr", in, data, p, TRUE)
      BY <1>5, CalledIs
    <2>2. call'.op = "substr" /\ call'.before = data /\ call'.input = in /\ call'.result = p
      BY <2>1 DEF CallIs
    <2>3. QED
      BY <1>1, <1>3, <1>6, <2>2 DEF Positions
  <1>8. "substr" \in PositionOps
    BY DEF PositionOps
  <1>9. QED
    BY <1>5, <1>7, <1>8, ReadSound

\* substring returns the bytes between two places.
LEMMA SubstringSound ==
  ASSUME data \in Bytes, NEW b \in Int, NEW e \in IntOrNone, Substring(b, e)
  PROVE  CallSound' /\ data' = data
  <1>1. PICK f, l, r : f = Least(Greatest(b, 0), n) /\ l = (IF e = None THEN n ELSE Least(Greatest(e, 0), n))
                       /\ r = FirstLast(b, e) /\ RangeIs(r, Least(f, l), Greatest(f, l))
    BY FirstLastFits
  <1>2. PICK in : in = <<b, e>>
    OBVIOUS
  <1>3. in[1] = b /\ in[2] = e
    BY <1>2, Inputs
  <1>4. PICK p : p = Part(data, r)
    OBVIOUS
  <1>5. Called("substring", in, data, p, TRUE)
    BY <1>1, <1>2, <1>4 DEF Substring
  <1>6. p = Between(data, Least(f, l), Greatest(f, l))
    BY <1>1, <1>4, RangeParts
  <1>7. Positions'
    <2>1. CallIs("substring", in, data, p, TRUE)
      BY <1>5, CalledIs
    <2>2. call'.op = "substring" /\ call'.before = data /\ call'.input = in /\ call'.result = p
      BY <2>1 DEF CallIs
    <2>3. QED
      BY <1>1, <1>3, <1>6, <2>2 DEF Positions, n
  <1>8. "substring" \in PositionOps
    BY DEF PositionOps
  <1>9. QED
    BY <1>5, <1>7, <1>8, ReadSound

\* get returns the byte of its position.
LEMMA GetSound ==
  ASSUME data \in Bytes, NEW i \in Int, Get(i)
  PROVE  CallSound' /\ data' = data
  <1>1. n \in Nat /\ n = Len(data)
    BY AtStart
  <1>2. PICK in : in = <<i>>
    OBVIOUS
  <1>3. in[1] = i
    BY <1>2
  <1>4. "get" \in PositionOps
    BY DEF PositionOps
  <1>5. CASE i \notin 0 .. n
    <2>1. Called("get", in, data, None, FALSE)
      BY <1>2, <1>5 DEF Get
    <2>2. QED
      BY <1>4, <2>1, ReadSound
  <1>6. CASE i \in 0 .. n
    <2>1. PICK b \in ReadAt(data, i) : Called("get", in, data, b, TRUE)
      BY <1>2, <1>6 DEF Get
    <2>2. i # n => b = data[i + 1]
      BY <1>1, <1>6 DEF ReadAt
    <2>3. CallIs("get", in, data, b, TRUE)
      BY <2>1, CalledIs
    <2>4. call'.op = "get" /\ call'.before = data /\ call'.input = in /\ call'.result = b
      BY <2>3 DEF CallIs
    <2>5. Positions'
      BY <1>1, <1>3, <1>6, <2>2, <2>4 DEF Positions
    <2>6. QED
      BY <1>4, <2>1, <2>5, ReadSound
  <1>7. QED
    BY <1>5, <1>6

-----------------------------------------------------------------------------
(* Searching *)

\* The least and the greatest of some numbers.
LEMMA MinMaxIn ==
  ASSUME NEW k \in Nat, NEW S \in SUBSET (0 .. k), S # {}
  PROVE  /\ Min(S) \in S /\ \A i \in S : Min(S) <= i
         /\ Max(S) \in S /\ \A i \in S : Max(S) >= i
  <1>1. \E m \in S : \A i \in S : m <= i
    BY LeastNumber
  <1>2. \E m \in S : \A i \in S : m >= i
    <2>1. PICK T : T = {k - i : i \in S}
      OBVIOUS
    <2>2. T \in SUBSET Nat /\ T = {k - i : i \in S}
      BY <2>1
    <2>3. T # {}
      BY <2>2
    <2>4. PICK t \in T : \A j \in T : t <= j
      BY <2>2, <2>3, LeastNumber
    <2>5. PICK m \in S : t = k - m
      BY <2>2
    <2>6. \A i \in S : k - i \in T
      BY <2>2
    <2>7. \A i \in S : m >= i
      BY <2>4, <2>5, <2>6
    <2>8. QED
      BY <2>7
  <1>3. QED
    BY <1>1, <1>2 DEF Min, Max

\* The places at which a search may find x.
Places(x, start, stop) == {i \in SearchedPart(start, stop) : data[i + 1] = x}

\* What Positions calls a hit, of the last call.
Hit(in, i) ==
  LET s == data
      stop == IF in[3] \in 0 .. Len(s) - 1 THEN in[3] + 1 ELSE Len(s)
      searched == Between(s, 0, stop)
  IN  i + 1 \in DOMAIN searched /\ searched[i + 1] = in[1] /\ i >= (IF in[2] = None THEN 0 ELSE in[2])

\* The hits are the places that the code searches.
LEMMA HitsArePlaces ==
  ASSUME data \in Bytes, NEW x, NEW s \in IntOrNone, NEW e \in IntOrNone,
         NEW in, in[1] = x, in[2] = s, in[3] = e
  PROVE  /\ Places(x, s, e) \in SUBSET (0 .. n)
         /\ \A i \in Int : Hit(in, i) <=> i \in Places(x, s, e)
  <1>1. n \in Nat /\ n = Len(data)
    BY AtStart
  <1>2. PICK stop : stop = (IF e \in 0 .. n - 1 THEN e + 1 ELSE n) /\ stop \in 0 .. n
    BY <1>1
  <1>3. PICK from : from = Greatest(Given(s, 0), 0) /\ from \in Nat
                    /\ \A i \in Nat : i >= from <=> i >= (IF s = None THEN 0 ELSE s)
    <2>1. PICK g \in Int : g = Given(s, 0)
      BY DEF Given, IntOrNone
    <2>2. Greatest(g, 0) = Larger(g, 0)
      BY LeastGreatest
    <2>3. g = IF s = None THEN 0 ELSE s
      BY <2>1 DEF Given
    <2>4. Larger(g, 0) \in Nat /\ \A i \in Nat : i >= Larger(g, 0) <=> i >= g
      BY DEF Larger
    <2>5. QED
      BY <2>1, <2>2, <2>3, <2>4
  <1>4. SearchedPart(s, e) = from .. stop - 1
    <2>1. PICK z \in Int : z = n - 1
      BY <1>1
    <2>2. PICK g \in Int : g = Given(e, n - 1)
      BY <2>1 DEF Given, IntOrNone
    <2>3. (IF g < 0 \/ g >= n THEN n - 1 ELSE g) = stop - 1
      <3>1. CASE e = None
        BY <1>1, <1>2, <2>2, <3>1, ByteAssumption DEF Given
      <3>2. CASE e # None
        BY <1>1, <1>2, <2>2, <3>2 DEF Given, IntOrNone
      <3>3. QED
        BY <3>1, <3>2
    <2>4. SearchedPart(s, e) = Greatest(Given(s, 0), 0) .. (IF g < 0 \/ g >= n THEN n - 1 ELSE g)
      BY <2>2 DEF SearchedPart
    <2>5. QED
      BY <1>3, <2>3, <2>4
  <1>5. PICK t : t = Between(data, 0, stop) /\ DOMAIN t = 1 .. stop /\ \A i \in 1 .. stop : t[i] = data[i]
    <2>1. PICK z \in Nat, k \in Nat : z = 0 /\ k = stop /\ z <= k /\ k <= Len(data)
      BY <1>1, <1>2
    <2>2. PICK t : t = Between(data, z, k) /\ t \in Bytes /\ Len(t) = k - z /\ \A i \in 1 .. k - z : t[i] = data[z + i]
      BY <2>1, BetweenIs
    <2>3. DOMAIN t = 1 .. k
      BY <2>1, <2>2 DEF Bytes
    <2>4. QED
      BY <2>1, <2>2, <2>3
  <1>6. ASSUME NEW i \in Int
        PROVE  Hit(in, i) <=> i + 1 \in 1 .. stop /\ t[i + 1] = x /\ i >= (IF s = None THEN 0 ELSE s)
    BY <1>1, <1>2, <1>5 DEF Hit
  <1>7. ASSUME NEW i \in Int PROVE i \in Places(x, s, e) <=> i \in from .. stop - 1 /\ data[i + 1] = x
    BY <1>4 DEF Places
  <1>8. Places(x, s, e) \in SUBSET (0 .. n)
    BY <1>1, <1>2, <1>3, <1>4 DEF Places
  <1>9. ASSUME NEW i \in Int PROVE Hit(in, i) <=> i \in Places(x, s, e)
    <2>1. i + 1 \in 1 .. stop => i \in Nat /\ t[i + 1] = data[i + 1]
      BY <1>2, <1>5
    <2>2. i \in from .. stop - 1 => i \in Nat /\ i + 1 \in 1 .. stop
      BY <1>2, <1>3
    <2>3. i + 1 \in 1 .. stop /\ i >= from => i \in from .. stop - 1
      BY <1>2, <1>3
    <2>4. QED
      BY <1>3, <1>6, <1>7, <2>1, <2>2, <2>3
  <1>10. QED
    BY <1>8, <1>9

\* indexOf returns the first hit, lastIndexOf the last.
LEMMA SearchSound ==
  ASSUME data \in Bytes, NEW op \in {"indexOf", "lastIndexOf"}, NEW x, NEW s \in IntOrNone, NEW e \in IntOrNone,
         Search(op, x, s, e)
  PROVE  CallSound' /\ data' = data
  <1>1. op \in PositionOps
    BY DEF PositionOps
  <1>2. PICK in : in = <<x, s, e>>
    OBVIOUS
  <1>3. in[1] = x /\ in[2] = s /\ in[3] = e
    BY <1>2, Inputs
  <1>4. CASE x = Bad
    <2>1. Called(op, in, data, None, FALSE)
      BY <1>2, <1>4 DEF Search
    <2>2. QED
      BY <1>1, <2>1, ReadSound
  <1>5. CASE x # Bad
    <2>1. PICK at : at = Places(x, s, e)
      OBVIOUS
    <2>2. PICK which : which = IF at = {} THEN -1 ELSE IF op = "indexOf" THEN Min(at) ELSE Max(at)
      OBVIOUS
    <2>3. Called(op, in, data, which, TRUE)
      BY <1>2, <1>5, <2>1, <2>2 DEF Search, Places
    <2>4. at \in SUBSET (0 .. n) /\ \A i \in Int : Hit(in, i) <=> i \in at
      BY <1>3, <2>1, HitsArePlaces
    <2>5. n \in Nat /\ n = Len(data)
      BY AtStart
    <2>6. /\ which = -1 <=> at = {}
          /\ at # {} => /\ which \in at
                        /\ \A i \in at : IF op = "indexOf" THEN i >= which ELSE i <= which
      <3>1. CASE at = {}
        BY <2>2, <3>1
      <3>2. CASE at # {}
        <4>1. /\ Min(at) \in at /\ \A i \in at : Min(at) <= i
              /\ Max(at) \in at /\ \A i \in at : Max(at) >= i
          BY <2>4, <2>5, <3>2, MinMaxIn
        <4>2. PICK m, k : m = Min(at) /\ k = Max(at)
          OBVIOUS
        <4>3. m \in Nat /\ k \in Nat
          <5>1. m \in at /\ k \in at
            BY ONLY <4>2, <4>1
          <5>2. at \in SUBSET (0 .. n)
            BY <2>4
          <5>3. QED
            BY <2>5, <5>1, <5>2
        <4>4. which = IF op = "indexOf" THEN m ELSE k
          BY <2>2, <3>2, <4>2
        <4>5. QED
          BY <3>2, <4>2, <4>1, <4>3, <4>4
      <3>3. QED
        BY <3>1, <3>2
    <2>7. CallIs(op, in, data, which, TRUE)
      BY <2>3, CalledIs
    <2>8. call'.op = op /\ call'.before = data /\ call'.input = in /\ call'.result = which
      BY <2>7 DEF CallIs
    <2>9. IF which = -1 THEN \A i \in 0 .. Len(data) : ~Hit(in, i)
          ELSE /\ Hit(in, which)
               /\ \A i \in 0 .. Len(data) : Hit(in, i) => IF op = "indexOf" THEN i >= which ELSE i <= which
      <3>1. CASE at = {}
        BY <2>4, <2>5, <2>6, <3>1
      <3>2. CASE at # {}
        <4>1. which \in at /\ at \in SUBSET (0 .. n)
          BY <2>4, <2>6, <3>2
        <4>2. which \in at /\ which # -1 /\ which \in Int
          BY <2>5, <4>1
        <4>3. Hit(in, which)
          BY <2>4, <4>2
        <4>4. ASSUME NEW i \in 0 .. Len(data), Hit(in, i) PROVE IF op = "indexOf" THEN i >= which ELSE i <= which
          <5>1. i \in at
            BY <2>4, <2>5, <4>4
          <5>2. QED
            BY <2>6, <3>2, <5>1
        <4>5. QED
          BY <4>2, <4>3, <4>4
      <3>3. QED
        BY <3>1, <3>2
    <2>10. Positions'
      BY <2>8, <2>9 DEF Positions, Hit
    <2>11. QED
      BY <1>1, <2>3, <2>10, ReadSound
  <1>6. QED
    BY <1>4, <1>5

-----------------------------------------------------------------------------
(* Methods of which nothing more is said *)

\* The methods that leave the array alone.
LEMMA PlainAsk ==
  ASSUME data \in Bytes,
         \/ Copy \/ \E args : Concat(args) \/ NewOfSize(args) \/ NewOfBytes(args) \/ NewOfText(args)
         \/ \E elements, d : Join(elements, d)
  PROVE  CallSound' /\ data' = data
  <1>1. \E op \in {"copy", "concat", "new", "join"} : \E input, result, ok : Called(op, input, data, result, ok)
    <2>1. Copy => Called("copy", <<>>, data, data, TRUE)
      BY DEF Copy
    <2>2. ASSUME NEW args, Concat(args) PROVE \E input, result, ok : Called("concat", input, data, result, ok)
      BY <2>2 DEF Concat
    <2>3. ASSUME NEW args, NewOfSize(args) PROVE \E input, result, ok : Called("new", input, data, result, ok)
      BY <2>3 DEF NewOfSize
    <2>4. ASSUME NEW args, NewOfBytes(args) PROVE \E input, result, ok : Called("new", input, data, result, ok)
      BY <2>4 DEF NewOfBytes
    <2>5. ASSUME NEW args, NewOfText(args) PROVE \E input, result, ok : Called("new", input, data, result, ok)
      BY <2>5 DEF NewOfText
    <2>6. ASSUME NEW args, NEW d, Join(args, d) PROVE \E input, result, ok : Called("join", input, data, result, ok)
      BY <2>6 DEF Join
    <2>7. QED
      BY <2>1, <2>2, <2>3, <2>4, <2>5, <2>6
  <1>2. PICK op \in {"copy", "concat", "new", "join"} : \E input, result, ok : Called(op, input, data, result, ok)
    BY <1>1
  <1>3. PICK input, result, ok : Called(op, input, data, result, ok)
    BY <1>2
  <1>4. CallIs(op, input, data, result, ok)
    BY <1>3, CalledIs
  <1>5. op \notin SpecialOps
    BY DEF SpecialOps, SpliceOps, PositionOps, LoopOp
  <1>6. QED
    BY <1>4, <1>5, PlainSound DEF CallIs

\* The methods that change it.
LEMMA PlainChange ==
  ASSUME data \in Bytes,
         \/ pop \/ shift \/ \E l \in Nat : set_length(l)
         \/ \E i \in Int, x \in Byte \cup {Bad} : SetElement(i, x)
  PROVE  CallSound' /\ data' \in Bytes
  <1>1. n \in Nat /\ n = Len(data) /\ data \in Seq(Byte)
    BY AtStart DEF Bytes
  <1> DEFINE Good(op, input, after, result, ok) ==
               Called(op, input, after, result, ok) /\ after \in Bytes /\ (ok \/ after = data)
  <1>2. \E op \in {"pop", "shift", "length", "set"} : \E input, after, result, ok : Good(op, input, after, result, ok)
    <2>1. ASSUME pop PROVE \E input, after, result, ok : Good("pop", input, after, result, ok)
      <3>1. CASE data = <<>>
        <4>1. Good("pop", <<>>, data, None, FALSE)
          BY <2>1, <3>1 DEF pop
        <4>2. QED
          BY <4>1
      <3>2. CASE data # <<>>
        <4>1. Front(data) \in Seq(Byte)
          BY <1>1, <3>2 DEF Front
        <4>2. Good("pop", <<>>, Front(data), Last(data), TRUE)
          BY <2>1, <3>2, <4>1 DEF pop, Bytes
        <4>3. QED
          BY <4>2
      <3>3. QED
        BY <3>1, <3>2
    <2>2. ASSUME shift PROVE \E input, after, result, ok : Good("shift", input, after, result, ok)
      <3>1. CASE data = <<>>
        <4>1. Good("shift", <<>>, data, None, FALSE)
          BY <2>2, <3>1 DEF shift
        <4>2. QED
          BY <4>1
      <3>2. CASE data # <<>>
        <4>1. Tail(data) \in Seq(Byte)
          BY <1>1, <3>2
        <4>2. Good("shift", <<>>, Tail(data), Head(data), TRUE)
          BY <2>2, <3>2, <4>1 DEF shift, Bytes
        <4>3. QED
          BY <4>2
      <3>3. QED
        BY <3>1, <3>2
    <2>3. ASSUME NEW l \in Nat, set_length(l) PROVE \E input, after, result, ok : Good("length", input, after, result, ok)
      <3>1. PICK s : s = [i \in 1 .. l |-> IF i <= n THEN data[i] ELSE 0]
        OBVIOUS
      <3>2. \A i \in 1 .. l : s[i] \in Byte
        <4>1. \A i \in 1 .. n : data[i] \in Byte
          BY <1>1
        <4>2. \A i \in 1 .. l : i <= n => i \in 1 .. n
          BY <1>1
        <4>3. QED
          BY <3>1, <4>1, <4>2, ByteAssumption
      <3>3. s \in Seq(Byte)
        <4>1. s \in [1 .. l -> Byte]
          BY <3>1, <3>2
        <4>2. QED
          BY <4>1
      <3>4. Good("length", <<l>>, s, None, TRUE)
        BY <2>3, <3>1, <3>3 DEF set_length, Bytes
      <3>5. QED
        BY <3>4
    <2>4. ASSUME NEW i \in Int, NEW x \in Byte \cup {Bad}, SetElement(i, x)
          PROVE  \E input, after, result, ok : Good("set", input, after, result, ok)
      <3>1. CASE i \notin 0 .. n - 1 \/ x = Bad
        <4>1. Good("set", <<i, x>>, data, None, FALSE)
          BY <2>4, <3>1 DEF SetElement
        <4>2. QED
          BY <4>1
      <3>2. CASE ~(i \notin 0 .. n - 1 \/ x = Bad)
        <4>1. PICK k \in 1 .. n : k = i + 1
          BY <1>1, <3>2
        <4>2. PICK s : s = [data EXCEPT ![i + 1] = x]
          OBVIOUS
        <4>3. s \in Seq(Byte)
          BY <1>1, <3>2, <4>1, <4>2
        <4>4. Good("set", <<i, x>>, s, None, TRUE)
          BY <2>4, <3>2, <4>2, <4>3 DEF SetElement, Bytes
        <4>5. QED
          BY <4>4
      <3>3. QED
        BY <3>1, <3>2
    <2>5. QED
      BY <2>1, <2>2, <2>3, <2>4
  <1>3. PICK op \in {"pop", "shift", "length", "set"} : \E input, after, result, ok : Good(op, input, after, result, ok)
    BY <1>2
  <1>4. PICK input, after, result, ok : Good(op, input, after, result, ok)
    BY <1>3
  <1>5. CallIs(op, input, after, result, ok)
    BY <1>4, CalledIs
  <1>6. op \notin SpecialOps
    BY DEF SpecialOps, SpliceOps, PositionOps, LoopOp
  <1>7. QED
    BY <1>4, <1>5, <1>6, PlainSound DEF CallIs

-----------------------------------------------------------------------------
(* Rearranging *)

\* How often a byte occurs is a number.
LEMMA OftenFinite ==
  ASSUME NEW s \in Bytes, NEW b
  PROVE  /\ IsFiniteSet({i \in DOMAIN s : s[i] = b})
         /\ HowOften(s, b) = Cardinality({i \in DOMAIN s : s[i] = b})
         /\ HowOften(s, b) \in Nat
         /\ HowOften(s, b) = 0 <=> \A i \in 1 .. Len(s) : s[i] # b
  <1>1. Len(s) \in Nat /\ DOMAIN s = 1 .. Len(s)
    BY DEF Bytes
  <1>2. IsFiniteSet(1 .. Len(s))
    BY <1>1, FS_Interval
  <1>3. PICK A \in SUBSET (1 .. Len(s)) : A = {i \in DOMAIN s : s[i] = b}
    BY <1>1
  <1>4. IsFiniteSet(A) /\ Cardinality(A) \in Nat
    BY <1>2, FS_Subset, FS_CardinalityType
  <1>5. Cardinality(A) = 0 <=> A = {}
    BY <1>4, FS_EmptySet
  <1>6. A = {} <=> \A i \in 1 .. Len(s) : s[i] # b
    BY <1>1, <1>3
  <1>7. QED
    BY <1>3, <1>4, <1>5, <1>6 DEF HowOften

\* t has the bytes of s, each as often.
Moved(s, t) ==
  /\ t \in Bytes /\ Len(t) = Len(s)
  /\ \A b \in Byte : HowOften(t, b) = HowOften(s, b)

\* Bytes that have only been moved are those that were there.
LEMMA MovedKeeps ==
  ASSUME NEW s \in Bytes, NEW t, Moved(s, t)
  PROVE  ToSet(t) \subseteq ToSet(s)
  <1>1. t \in Bytes /\ \A b \in Byte : HowOften(t, b) = HowOften(s, b)
    BY DEF Moved
  <1>2. /\ Len(t) \in Nat /\ DOMAIN t = 1 .. Len(t) /\ \A i \in 1 .. Len(t) : t[i] \in Byte
        /\ Len(s) \in Nat /\ DOMAIN s = 1 .. Len(s)
    BY <1>1 DEF Bytes
  <1>3. ASSUME NEW i \in 1 .. Len(t) PROVE \E j \in 1 .. Len(s) : s[j] = t[i]
    <2>1. PICK b \in Byte : b = t[i]
      BY <1>2
    <2>2. HowOften(t, b) # 0
      BY <1>1, <2>1, OftenFinite
    <2>3. HowOften(s, b) # 0
      BY <1>1, <2>2
    <2>4. QED
      BY <2>1, <2>3, OftenFinite
  <1>4. QED
    BY <1>2, <1>3 DEF ToSet

\* Bytes may be moved twice.
LEMMA MovedTwice ==
  ASSUME NEW s, NEW t, NEW u, Moved(s, t), Moved(t, u)
  PROVE  Moved(s, u)
  BY DEF Moved

\* Reversing moves bytes.
LEMMA ReverseMoves ==
  ASSUME NEW s \in Bytes
  PROVE  Moved(s, Reverse(s))
  <1>1. PICK k \in Nat : k = Len(s) /\ DOMAIN s = 1 .. k /\ \A i \in 1 .. k : s[i] \in Byte
    BY DEF Bytes
  <1>2. PICK t : t = [i \in 1 .. k |-> s[(k - i) + 1]] /\ t = Reverse(s)
    BY <1>1 DEF Reverse
  <1>3. \A i \in 1 .. k : (k - i) + 1 \in 1 .. k /\ (k - ((k - i) + 1)) + 1 = i
    BY <1>1
  <1>4. t \in [1 .. k -> Byte]
    BY <1>1, <1>2, <1>3
  <1>5. t \in Bytes /\ Len(t) = k /\ DOMAIN t = 1 .. k
    BY <1>4 DEF Bytes
  <1>6. ASSUME NEW b \in Byte PROVE HowOften(t, b) = HowOften(s, b)
    <2>1. PICK A, B : A = {i \in DOMAIN s : s[i] = b} /\ B = {i \in DOMAIN t : t[i] = b}
      OBVIOUS
    <2>2. IsFiniteSet(A) /\ HowOften(s, b) = Cardinality(A) /\ HowOften(t, b) = Cardinality(B)
      BY <1>5, <2>1, OftenFinite
    <2>3. \A i \in A : i \in 1 .. k /\ (k - i) + 1 \in B
      BY <1>1, <1>2, <1>3, <1>5, <2>1
    <2>4. \A i \in B : i \in 1 .. k /\ (k - i) + 1 \in A
      BY <1>1, <1>2, <1>3, <1>5, <2>1
    <2>5. PICK f : f = [i \in A |-> (k - i) + 1]
      OBVIOUS
    <2>6. f \in [A -> B]
      BY <2>3, <2>5
    <2>7. \A i, j \in A : f[i] = f[j] => i = j
      BY <2>3, <2>5
    <2>8. \A j \in B : \E i \in A : f[i] = j
      BY <1>3, <2>4, <2>5
    <2>9. f \in Bijection(A, B)
      BY <2>6, <2>7, <2>8 DEF Bijection, Injection, Surjection, IsInjective
    <2>10. QED
      BY <2>2, <2>9, FS_Bijection DEF ExistsBijection
  <1>7. QED
    BY <1>1, <1>2, <1>5, <1>6 DEF Moved

\* t is r with b behind k of its bytes.
Inserted(t, r, k, b) ==
  /\ t \in Bytes /\ Len(t) = Len(r) + 1
  /\ \A i \in 1 .. k : t[i] = r[i]
  /\ t[k + 1] = b
  /\ \A i \in k + 1 .. Len(r) : t[i + 1] = r[i]

\* One byte more occurs once more.
LEMMA InsertedCounts ==
  ASSUME NEW r \in Bytes, NEW k \in 0 .. Len(r), NEW b \in Byte, NEW t, Inserted(t, r, k, b), NEW c \in Byte
  PROVE  HowOften(t, c) = HowOften(r, c) + (IF b = c THEN 1 ELSE 0)
  <1>1. PICK m \in Nat : m = Len(r) /\ DOMAIN r = 1 .. m
    BY DEF Bytes
  <1>2. /\ t \in Bytes /\ Len(t) = m + 1 /\ \A i \in 1 .. k : t[i] = r[i]
        /\ t[k + 1] = b /\ \A i \in k + 1 .. m : t[i + 1] = r[i]
    BY <1>1 DEF Inserted
  <1>3. DOMAIN t = 1 .. m + 1
    BY <1>2 DEF Bytes
  <1>4. k \in 0 .. m
    BY <1>1
  <1>5. PICK A, B : A = {i \in DOMAIN r : r[i] = c} /\ B = {i \in DOMAIN t : t[i] = c}
    OBVIOUS
  <1>6. /\ IsFiniteSet(A) /\ HowOften(r, c) = Cardinality(A) /\ Cardinality(A) \in Nat
        /\ IsFiniteSet(B) /\ HowOften(t, c) = Cardinality(B) /\ Cardinality(B) \in Nat
    <2>1. IsFiniteSet(A) /\ HowOften(r, c) = Cardinality(A) /\ HowOften(r, c) \in Nat
      BY <1>5, OftenFinite
    <2>2. IsFiniteSet(B) /\ HowOften(t, c) = Cardinality(B) /\ HowOften(t, c) \in Nat
      <3>1. t \in Bytes
        BY <1>2
      <3>2. QED
        BY ONLY <1>5, <3>1, OftenFinite
    <2>3. QED
      BY <2>1, <2>2
  <1>7. PICK C : C = B \ {k + 1}
    OBVIOUS
  <1>8. PICK f : f = [i \in A |-> IF i <= k THEN i ELSE i + 1]
    OBVIOUS
  <1>9. \A i \in A : i \in 1 .. m /\ f[i] \in C
    BY <1>1, <1>2, <1>3, <1>4, <1>5, <1>7, <1>8
  <1>10. f \in [A -> C]
    BY <1>8, <1>9
  <1>11. \A i, j \in A : f[i] = f[j] => i = j
    BY <1>4, <1>8, <1>9
  <1>12. ASSUME NEW j \in C PROVE \E i \in A : f[i] = j
    <2>1. j \in 1 .. m + 1 /\ j # k + 1 /\ t[j] = c
      BY <1>3, <1>5, <1>7
    <2>2. CASE j <= k
      BY <1>1, <1>2, <1>4, <1>5, <1>8, <2>1, <2>2
    <2>3. CASE j > k + 1
      <3>1. PICK i \in k + 1 .. m : j = i + 1
        BY <1>4, <2>1, <2>3
      <3>2. i \in 1 .. m /\ r[i] = c /\ ~(i <= k)
        BY <1>2, <1>4, <2>1, <3>1
      <3>3. QED
        BY <1>1, <1>5, <1>8, <3>1, <3>2
    <2>4. QED
      BY <1>4, <2>1, <2>2, <2>3
  <1>13. f \in Bijection(A, C)
    BY <1>10, <1>11, <1>12 DEF Bijection, Injection, Surjection, IsInjective
  <1>14. Cardinality(C) = Cardinality(A)
    BY <1>6, <1>13, FS_Bijection DEF ExistsBijection
  <1>15. Cardinality(C) = IF k + 1 \in B THEN Cardinality(B) - 1 ELSE Cardinality(B)
    BY <1>6, <1>7, FS_RemoveElement
  <1>16. k + 1 \in B <=> b = c
    BY <1>2, <1>3, <1>4, <1>5
  <1>17. QED
    BY <1>6, <1>14, <1>15, <1>16

OrderFold == INSTANCE FoldLemmas WITH op <- PutInto

\* Ordered, a byte at a time.
LEMMA OrderFolds ==
  /\ Ordered(<<>>) = <<>>
  /\ \A s \in Bytes, b \in Byte : Ordered(Append(s, b)) = PutInto(Ordered(s), b)
  <1>1. PICK e : e = <<>>
    OBVIOUS
  <1>2. \A s : Ordered(s) = OrderFold!Fold(e, s)
    BY <1>1 DEF Ordered, FoldLeft, MapThenFoldSet, Max, OrderFold!Fold, OrderFold!Folding, OrderFold!Largest
  <1>3. OrderFold!Fold(e, <<>>) = e
    BY OrderFold!FoldNothing
  <1>4. ASSUME NEW s \in Bytes, NEW b \in Byte PROVE Ordered(Append(s, b)) = PutInto(Ordered(s), b)
    <2>1. s \in Seq(Byte)
      BY DEF Bytes
    <2>2. OrderFold!Fold(e, Append(s, b)) = PutInto(OrderFold!Fold(e, s), b)
      BY <2>1, OrderFold!FoldMore
    <2>3. QED
      BY <1>2, <2>2
  <1>5. QED
    BY <1>1, <1>2, <1>3, <1>4

\* PutInto puts one byte in.
LEMMA PutIntoInserts ==
  ASSUME NEW r \in Bytes, NEW b \in Byte
  PROVE  \E k \in 0 .. Len(r) : Inserted(PutInto(r, b), r, k, b)
  <1>1. PICK m \in Nat : m = Len(r) /\ DOMAIN r = 1 .. m /\ r \in Seq(Byte)
    BY DEF Bytes
  <1>2. PICK A \in SUBSET (1 .. m) : A = {i \in DOMAIN r : r[i] <= b}
    BY <1>1
  <1>3. PICK k : k = Cardinality(A)
    OBVIOUS
  <1>4. k \in 0 .. m
    <2>1. IsFiniteSet(1 .. m) /\ Cardinality(1 .. m) = m
      BY FS_Interval
    <2>2. IsFiniteSet(A) /\ k <= m /\ k \in Nat
      BY <1>3, <2>1, FS_Subset, FS_CardinalityType
    <2>3. QED
      BY <2>2
  <1>5. PICK p : p = SubSeq(r, 1, k)
    OBVIOUS
  <1>6. p \in Seq(Byte) /\ Len(p) = k /\ \A i \in 1 .. k : p[i] = r[i]
    BY <1>1, <1>4, <1>5
  <1>7. PICK q : q = Append(p, b)
    OBVIOUS
  <1>8. q \in Seq(Byte) /\ Len(q) = k + 1 /\ q[k + 1] = b /\ \A i \in 1 .. k : q[i] = r[i]
    BY <1>4, <1>6, <1>7, AppendProperties
  <1>9. PICK u : u = SubSeq(r, k + 1, m)
    OBVIOUS
  <1>10. u \in Seq(Byte) /\ Len(u) = m - k /\ \A i \in 1 .. m - k : u[i] = r[k + i]
    BY <1>1, <1>4, <1>9
  <1>11. PICK t : t = q \o u /\ t = PutInto(r, b)
    BY <1>1, <1>2, <1>3, <1>5, <1>7, <1>9 DEF PutInto
  <1>12. /\ t \in Seq(Byte) /\ Len(t) = Len(q) + Len(u)
         /\ \A i \in 1 .. Len(q) : t[i] = q[i]
         /\ \A i \in 1 .. Len(u) : t[Len(q) + i] = u[i]
    <2>1. q \in Seq(Byte) /\ u \in Seq(Byte) /\ t = q \o u
      BY <1>8, <1>10, <1>11
    <2>2. QED
      BY ONLY <2>1, ConcatProperties
  <1>13. Len(t) = m + 1
    BY <1>4, <1>8, <1>10, <1>12
  <1>14. \A i \in 1 .. k : t[i] = r[i]
    BY <1>4, <1>8, <1>12
  <1>15. t[k + 1] = b
    BY <1>4, <1>8, <1>12
  <1>16. ASSUME NEW i \in k + 1 .. m PROVE t[i + 1] = r[i]
    <2>1. PICK j \in 1 .. m - k : i = k + j
      BY <1>4
    <2>2. t[(k + 1) + j] = u[j] /\ u[j] = r[k + j]
      BY <1>4, <1>8, <1>10, <1>12, <2>1
    <2>3. (k + 1) + j = i + 1
      BY <1>4, <2>1
    <2>4. QED
      BY <2>1, <2>2, <2>3
  <1>17. Inserted(t, r, k, b)
    BY <1>1, <1>12, <1>13, <1>14, <1>15, <1>16 DEF Inserted, Bytes
  <1>18. QED
    BY <1>1, <1>4, <1>11, <1>17

\* So does Append.
LEMMA AppendInserts ==
  ASSUME NEW r \in Bytes, NEW b \in Byte
  PROVE  Inserted(Append(r, b), r, Len(r), b) /\ Len(r) \in 0 .. Len(r)
  <1>1. PICK m \in Nat : m = Len(r) /\ r \in Seq(Byte)
    BY DEF Bytes
  <1>2. PICK t : t = Append(r, b)
    OBVIOUS
  <1>3. t \in Seq(Byte) /\ Len(t) = m + 1 /\ t[m + 1] = b /\ \A i \in 1 .. m : t[i] = r[i]
    BY <1>1, <1>2, AppendProperties
  <1>4. QED
    BY <1>1, <1>2, <1>3 DEF Inserted, Bytes

\* Ordering moves bytes.
LEMMA OrderMoves ==
  ASSUME NEW s \in Bytes
  PROVE  Moved(s, Ordered(s))
  <1> DEFINE T == {u \in Seq(Byte) : Moved(u, Ordered(u))}
  <1>1. <<>> \in T
    <2>1. PICK e : e = <<>>
      OBVIOUS
    <2>2. e \in Seq(Byte) /\ Ordered(e) = e
      BY <2>1, OrderFolds
    <2>3. Moved(e, e)
      BY <2>2 DEF Moved, Bytes
    <2>4. QED
      BY <2>1, <2>2, <2>3
  <1>2. ASSUME NEW u \in T, NEW b \in Byte PROVE Append(u, b) \in T
    <2>1. u \in Bytes /\ u \in Seq(Byte)
      BY DEF Bytes
    <2>2. PICK o : o = Ordered(u) /\ Moved(u, o)
      OBVIOUS
    <2>3. o \in Bytes /\ Len(o) = Len(u) /\ \A c \in Byte : HowOften(o, c) = HowOften(u, c)
      BY <2>2 DEF Moved
    <2>4. PICK v : v = Append(u, b)
      OBVIOUS
    <2>5. Inserted(v, u, Len(u), b) /\ Len(u) \in 0 .. Len(u)
      BY <2>1, <2>4, AppendInserts
    <2>6. PICK p : p = PutInto(o, b)
      OBVIOUS
    <2>7. PICK k \in 0 .. Len(o) : Inserted(p, o, k, b)
      BY <2>3, <2>6, PutIntoInserts
    <2>8. ASSUME NEW c \in Byte PROVE HowOften(p, c) = HowOften(v, c)
      <3>1. HowOften(p, c) = HowOften(o, c) + (IF b = c THEN 1 ELSE 0)
        BY <2>3, <2>7, InsertedCounts
      <3>2. HowOften(v, c) = HowOften(u, c) + (IF b = c THEN 1 ELSE 0)
        BY <2>1, <2>5, InsertedCounts
      <3>3. QED
        BY <2>3, <3>1, <3>2
    <2>9. p \in Bytes /\ Len(p) = Len(v)
      BY <2>3, <2>5, <2>7 DEF Inserted
    <2>10. Moved(v, p)
      BY <2>8, <2>9 DEF Moved
    <2>11. Ordered(v) = p
      BY <2>1, <2>2, <2>4, <2>6, OrderFolds
    <2>12. v \in Seq(Byte)
      BY <2>1, <2>4
    <2>13. QED
      BY <2>4, <2>10, <2>11, <2>12
  <1>3. T = Seq(Byte)
    <2>1. T \in SUBSET Seq(Byte)
      OBVIOUS
    <2>2. QED
      BY <1>1, <1>2, <2>1, SequenceInduction
  <1>4. QED
    BY <1>3 DEF Bytes

\* A call that moves bytes.
LEMMA RearrangedSound ==
  ASSUME data \in Bytes, NEW op \in {"reverse", "sort"}, NEW after, NEW ok \in BOOLEAN,
         Called(op, <<>>, after, None, ok),
         after \in Bytes, Len(after) = Len(data), ToSet(after) \subseteq ToSet(data),
         ok => Moved(data, after), op = "reverse" => ok
  PROVE  CallSound' /\ data' \in Bytes
  <1>1. CallIs(op, <<>>, after, None, ok)
    BY CalledIs
  <1>2. call'.op = op /\ call'.before = data /\ call'.ok = ok /\ data' = after
    BY <1>1 DEF CallIs
  <1>3. op \notin SpliceOps /\ op \notin PositionOps /\ op # "split" /\ op \notin LoopOp
    BY DEF SpliceOps, PositionOps, LoopOp
  <1>4. Splices' /\ Positions' /\ SplitRejoins' /\ Answers'
    BY <1>1, <1>3, NotSpliced, NotPlaced, NotOthers
  <1>5. Rearranges'
    BY <1>2 DEF Rearranges, Moved
  <1>6. FailureKeepsHead'
    <2>1. CASE ok
      BY <1>1, <2>1, NotOthers
    <2>2. CASE ~ok
      <3>1. op = "sort"
        BY <2>2
      <3>2. PICK e : e = Between(data, 0, 0) /\ e = <<>>
        BY BetweenAll
      <3>3. IsPrefix(e, after)
        <4>1. e \in Bytes /\ Begins(e, after)
          <5>1. Len(after) \in Nat
            BY DEF Bytes
          <5>2. e \in Seq(Byte)
            <6>1. \A z : z = <<>> => z \in Seq(Byte)
              BY ONLY EmptySeq
            <6>2. QED
              BY ONLY <3>2, <6>1
          <5>3. Len(e) = 0
            BY <3>2
          <5>4. \A i \in 1 .. 0 : FALSE
            OBVIOUS
          <5>5. QED
            BY <5>1, <5>2, <5>3, <5>4 DEF Bytes, Begins
        <4>2. QED
          BY <4>1, PrefixIs
      <3>4. QED
        BY <1>2, <3>1, <3>2, <3>3 DEF FailureKeepsHead
    <2>3. QED
      BY <2>1, <2>2
  <1>7. QED
    BY <1>2, <1>4, <1>5, <1>6 DEF CallSound

\* reverse and sort, with and without a function, move bytes.
LEMMA RearrangeSound ==
  ASSUME data \in Bytes, reverse \/ sort \/ SortBy
  PROVE  CallSound' /\ data' \in Bytes
  <1>1. PICK r, o : r = Reverse(data) /\ o = Ordered(data) /\ Moved(data, r) /\ Moved(data, o)
    BY ReverseMoves, OrderMoves
  <1>2. PICK q : q = Reverse(o) /\ Moved(data, q)
    <2>1. Moved(o, Reverse(o))
      BY <1>1, ReverseMoves DEF Moved
    <2>2. QED
      BY <1>1, <2>1, MovedTwice
  <1>3. ASSUME NEW after, Moved(data, after)
        PROVE  after \in Bytes /\ Len(after) = Len(data) /\ ToSet(after) \subseteq ToSet(data)
    BY <1>3, MovedKeeps DEF Moved
  <1>4. CASE reverse
    <2>1. Called("reverse", <<>>, r, None, TRUE)
      BY <1>1, <1>4 DEF reverse
    <2>2. QED
      BY <1>1, <1>3, <2>1, RearrangedSound
  <1>5. CASE sort
    <2>1. Called("sort", <<>>, o, None, TRUE)
      BY <1>1, <1>5 DEF sort
    <2>2. QED
      BY <1>1, <1>3, <2>1, RearrangedSound
  <1>6. CASE SortBy
    <2>1. CASE Called("sort", <<>>, q, None, TRUE)
      BY <1>2, <1>3, <2>1, RearrangedSound
    <2>2. ASSUME NEW after \in Arrays, Len(after) = n, ToSet(after) \subseteq ToSet(data),
                 Called("sort", <<>>, after, None, FALSE)
          PROVE  CallSound' /\ data' \in Bytes
      <3>1. after \in Bytes
        BY DEF Arrays, SeqOf, Bytes
      <3>2. QED
        BY <2>2, <3>1, RearrangedSound DEF n
    <2>3. QED
      BY <1>1, <1>2, <1>6, <2>1, <2>2 DEF SortBy
  <1>7. QED
    BY <1>4, <1>5, <1>6

-----------------------------------------------------------------------------
(* Sequences of sequences *)

Then(s, t) == s \o t

FlatFold == INSTANCE FoldLemmas WITH op <- Then

\* What FlattenSeq makes: of nothing nothing, of an element more what the
\* others make with that element behind it.
LEMMA FlatRuns ==
  ASSUME NEW E, NEW S \in Seq(Seq(E)), S # <<>>
  PROVE  FlattenSeq(S) = FlatFold!Fold(<<>>, S)
  <1>1. PICK k \in Nat : k = Len(S) /\ DOMAIN S = 1 .. k /\ k > 0 /\ \A i \in 1 .. k : S[i] \in Seq(E)
    OBVIOUS
  <1>2. PICK h : FlatFold!Runs(h, <<>>, S, k) /\ FlatFold!Fold(<<>>, S) = h[k]
    BY <1>1, FlatFold!FoldRuns
  <1>3. h[0] = <<>> /\ \A i \in 1 .. k : h[i] = h[i - 1] \o S[i]
    BY <1>2 DEF FlatFold!Runs, Then
  <1>4. h[1] = S[1]
    <2>1. 1 \in 1 .. k /\ 1 - 1 = 0
      BY <1>1
    <2>2. h[1] = <<>> \o S[1]
      BY <1>3, <2>1
    <2>3. PICK s \in Seq(E) : s = S[1]
      BY <1>1, <2>1
    <2>4. <<>> \o s = s
      BY <2>3, ConcatEmptySeq
    <2>5. QED
      BY <2>2, <2>3, <2>4
  <1> DEFINE Flat(f) == f = [i \in 1 .. k |-> IF i = 1 THEN S[i] ELSE f[i - 1] \o S[i]]
  <1>5. \E f : Flat(f)
    <2>1. PICK f : f = [i \in 1 .. k |-> h[i]]
      OBVIOUS
    <2>2. ASSUME NEW i \in 1 .. k PROVE f[i] = IF i = 1 THEN S[i] ELSE f[i - 1] \o S[i]
      <3>1. CASE i = 1
        BY <1>4, <2>1, <3>1
      <3>2. CASE i # 1
        <4>1. i - 1 \in 1 .. k
          BY <1>1, <3>2
        <4>2. QED
          BY <1>3, <2>1, <3>2, <4>1
      <3>3. QED
        BY <3>1, <3>2
    <2>3. f = [i \in 1 .. k |-> IF i = 1 THEN S[i] ELSE f[i - 1] \o S[i]]
      BY <2>1, <2>2
    <2>4. QED
      BY <2>3
  <1>6. PICK f : f = CHOOSE g : Flat(g)
    OBVIOUS
  <1>7. Flat(f)
    BY <1>5, <1>6
  <1>8. \A i \in 1 .. k : f[i] = IF i = 1 THEN S[i] ELSE f[i - 1] \o S[i]
    BY <1>7
  <1>9. FlattenSeq(S) = f[k]
    BY <1>1, <1>6 DEF FlattenSeq
  <1> HIDE DEF Flat
  <1> DEFINE T == {i \in Nat : i \in 1 .. k => f[i] = h[i]}
  <1>10. 0 \in T
    OBVIOUS
  <1>11. ASSUME NEW i \in T PROVE i + 1 \in T
    <2>1. SUFFICES ASSUME i + 1 \in 1 .. k PROVE f[i + 1] = h[i + 1]
      OBVIOUS
    <2>2. CASE i = 0
      BY <1>4, <1>8, <2>1, <2>2
    <2>3. CASE i # 0
      <3>1. i \in 1 .. k /\ f[i] = h[i] /\ (i + 1) - 1 = i /\ i + 1 # 1
        BY <1>1, <1>11, <2>1, <2>3
      <3>2. f[i + 1] = f[i] \o S[i + 1] /\ h[i + 1] = h[i] \o S[i + 1]
        BY <1>3, <1>8, <2>1, <3>1
      <3>3. QED
        BY <3>1, <3>2
    <2>4. QED
      BY <2>2, <2>3
  <1>12. T = Nat
    <2>1. T \in SUBSET Nat
      OBVIOUS
    <2>2. QED
      BY <1>10, <1>11, <2>1, SetInduction
  <1>13. f[k] = h[k]
    BY <1>1, <1>12
  <1>14. QED
    BY <1>2, <1>9, <1>13

\* FlattenSeq, a sequence at a time.
LEMMA FlatFacts ==
  ASSUME NEW E
  PROVE  /\ FlattenSeq(<<>>) = <<>>
         /\ \A S \in Seq(Seq(E)) : FlattenSeq(S) \in Seq(E)
         /\ \A S \in Seq(Seq(E)), s \in Seq(E) : FlattenSeq(Append(S, s)) = FlattenSeq(S) \o s
  <1>1. PICK e : e = <<>>
    OBVIOUS
  <1>2. FlattenSeq(<<>>) = e
    BY <1>1 DEF FlattenSeq
  <1>3. FlatFold!Fold(e, <<>>) = e
    BY FlatFold!FoldNothing
  <1>4. ASSUME NEW S \in Seq(Seq(E)) PROVE FlattenSeq(S) = FlatFold!Fold(e, S)
    BY <1>1, <1>2, <1>3, FlatRuns
  <1>5. ASSUME NEW S \in Seq(Seq(E)), NEW s \in Seq(E) PROVE FlattenSeq(Append(S, s)) = FlattenSeq(S) \o s
    <2>1. PICK F : F = Seq(E)
      OBVIOUS
    <2>2. PICK R : R = Append(S, s) /\ R \in Seq(Seq(E))
      <3>1. S \in Seq(F) /\ s \in F
        BY <2>1
      <3>2. Append(S, s) \in Seq(F)
        BY ONLY <3>1
      <3>3. QED
        BY <2>1, <3>2
    <2>3. FlatFold!Fold(e, Append(S, s)) = Then(FlatFold!Fold(e, S), s)
      BY <2>1, FlatFold!FoldMore
    <2>4. QED
      BY <1>4, <2>2, <2>3 DEF Then
  <1> DEFINE T == {S \in Seq(Seq(E)) : FlattenSeq(S) \in Seq(E)}
  <1>6. <<>> \in T
    <2>1. PICK F : F = Seq(E)
      OBVIOUS
    <2>2. e \in Seq(F) /\ e \in Seq(E)
      <3>1. \A C : \A z : z = <<>> => z \in Seq(C)
        BY ONLY EmptySeq
      <3>2. QED
        BY ONLY <1>1, <3>1
    <2>3. QED
      BY <1>1, <1>2, <2>1, <2>2
  <1>7. ASSUME NEW S \in T, NEW s \in Seq(E) PROVE Append(S, s) \in T
    <2>1. FlattenSeq(Append(S, s)) = FlattenSeq(S) \o s
      BY <1>5
    <2>2. FlattenSeq(S) \o s \in Seq(E)
      <3>1. PICK t \in Seq(E) : t = FlattenSeq(S)
        OBVIOUS
      <3>2. QED
        BY <3>1
    <2>3. Append(S, s) \in Seq(Seq(E))
      OBVIOUS
    <2>4. QED
      BY <2>1, <2>2, <2>3
  <1>8. T = Seq(Seq(E))
    <2>1. PICK F : F = Seq(E)
      OBVIOUS
    <2>2. T \in SUBSET Seq(F) /\ \A S \in T, s \in F : Append(S, s) \in T
      BY <1>7, <2>1
    <2>3. PICK U : U = T
      OBVIOUS
    <2>4. U \in SUBSET Seq(F) /\ <<>> \in U /\ \A S \in U, s \in F : Append(S, s) \in U
      BY <1>6, <2>2, <2>3
    <2>5. U = Seq(F)
      BY ONLY <2>4, SequenceInduction
    <2>6. QED
      BY <2>1, <2>3, <2>5
  <1>9. QED
    BY <1>1, <1>2, <1>5, <1>8

-----------------------------------------------------------------------------
(* Delimiters *)

\* Bytes that may be a delimiter.
Word == Bytes \ {<<>>}

DelimFold == INSTANCE FoldLemmas WITH op <- AddDelim

\* Delimiters, one at a time.
LEMMA DelimiterFolds ==
  ASSUME NEW C
  PROVE  /\ Delimiters(<<>>) = <<>>
         /\ \A s \in Seq(C), d \in C : Delimiters(Append(s, d)) = AddDelim(Delimiters(s), d)
  <1>1. PICK e : e = <<>>
    OBVIOUS
  <1>2. \A s : Delimiters(s) = DelimFold!Fold(e, s)
    BY <1>1 DEF Delimiters, FoldLeft, MapThenFoldSet, Max, DelimFold!Fold, DelimFold!Folding, DelimFold!Largest
  <1>3. DelimFold!Fold(e, <<>>) = e
    BY DelimFold!FoldNothing
  <1>4. ASSUME NEW s \in Seq(C), NEW d \in C PROVE Delimiters(Append(s, d)) = AddDelim(Delimiters(s), d)
    <2>1. DelimFold!Fold(e, Append(s, d)) = AddDelim(DelimFold!Fold(e, s), d)
      BY DelimFold!FoldMore
    <2>2. QED
      BY <1>2, <2>1
  <1>5. QED
    BY <1>1, <1>2, <1>3, <1>4

\* Delimiters that count are not empty.
LEMMA DelimitersCount ==
  ASSUME NEW C, NEW s \in Seq(C)
  PROVE  Delimiters(s) \in Seq(C \ {<<>>})
  <1>1. PICK C2 : C2 = C \ {<<>>}
    OBVIOUS
  <1> DEFINE T == {u \in Seq(C) : Delimiters(u) \in Seq(C2)}
  <1>2. <<>> \in T
    <2>1. \A z : z = <<>> => z \in Seq(C) /\ z \in Seq(C2)
      BY ONLY EmptySeq
    <2>2. QED
      BY <2>1, DelimiterFolds
  <1>3. ASSUME NEW u \in T, NEW d \in C PROVE Append(u, d) \in T
    <2>1. PICK r : r = Delimiters(u) /\ r \in Seq(C2)
      OBVIOUS
    <2>2. Delimiters(Append(u, d)) = AddDelim(r, d)
      BY <2>1, DelimiterFolds
    <2>3. AddDelim(r, d) \in Seq(C2)
      BY <1>1, <2>1 DEF AddDelim
    <2>4. Append(u, d) \in Seq(C)
      OBVIOUS
    <2>5. QED
      BY <2>2, <2>3, <2>4
  <1>4. T = Seq(C)
    <2>1. PICK U : U = T
      OBVIOUS
    <2>2. U \in SUBSET Seq(C) /\ <<>> \in U /\ \A u \in U, d \in C : Append(u, d) \in U
      BY <1>2, <1>3, <2>1
    <2>3. U = Seq(C)
      BY ONLY <2>2, SequenceInduction
    <2>4. QED
      BY <2>1, <2>3
  <1>5. QED
    BY <1>1, <1>4

\* The delimiters that a split goes by are bytes, and there are some.
LEMMA GoodDelims ==
  ASSUME NEW delims \in Seq(Seq(Byte \cup {Bad})), ~BadDelims(delims)
  PROVE  Delimiters(delims) \in Seq(Word) /\ Delimiters(delims) # <<>>
  <1>1. Delimiters(delims) # <<>> /\ \A j \in DOMAIN delims : Bad \notin ToSet(delims[j])
    BY DEF BadDelims
  <1>2. PICK m \in Nat : m = Len(delims) /\ DOMAIN delims = 1 .. m /\ delims \in [1 .. m -> Seq(Byte \cup {Bad})]
    OBVIOUS
  <1>3. ASSUME NEW j \in 1 .. m PROVE delims[j] \in Bytes
    <2>1. PICK d \in Seq(Byte \cup {Bad}) : d = delims[j]
      BY <1>2
    <2>2. \A i \in DOMAIN d : d[i] # Bad
      BY <1>1, <1>2, <2>1 DEF ToSet
    <2>3. DOMAIN d = 1 .. Len(d) /\ Len(d) \in Nat /\ \A i \in 1 .. Len(d) : d[i] \in Byte \cup {Bad}
      OBVIOUS
    <2>4. d \in [1 .. Len(d) -> Byte]
      BY <2>2, <2>3
    <2>5. d \in Seq(Byte)
      BY <2>3, <2>4
    <2>6. QED
      BY <2>1, <2>5 DEF Bytes
  <1>4. delims \in [1 .. m -> Bytes]
    BY <1>2, <1>3
  <1>5. delims \in Seq(Bytes)
    BY <1>4
  <1>6. QED
    BY <1>1, <1>5, DelimitersCount DEF Word

-----------------------------------------------------------------------------
(* The next delimiter *)

\* x says where, at or behind pos, the next of the delimiters D is.
NextIs(D, pos, x) ==
  /\ x.delim \in ToSet(D) /\ x.delim \in Word
  /\ x.at \in Nat /\ pos <= x.at /\ x.at + Len(x.delim) <= n
  /\ SubSeq(data, x.at + 1, x.at + Len(x.delim)) = x.delim
  /\ \A e \in ToSet(D) : ~StartsIn(data, e, pos, x.at)

\* A delimiter has a byte.
LEMMA WordLength ==
  ASSUME NEW d \in Word
  PROVE  d \in Bytes /\ Len(d) \in Nat /\ Len(d) > 0
  BY DEF Word, Bytes

\* Where a delimiter is found.
LEMMA FoundIs ==
  ASSUME data \in Bytes, NEW d \in Word, NEW pos \in Nat
  PROVE  \A i \in Int : i \in Found(d, pos) <=>
           i >= pos /\ i + Len(d) <= n /\ SubSeq(data, i + 1, i + Len(d)) = d
  <1>1. n \in Nat /\ n = Len(data)
    BY AtStart
  <1>2. PICK k \in Nat : k = Len(d) /\ k > 0
    BY WordLength
  <1>3. ASSUME NEW i \in Int PROVE i \in pos .. n - k <=> i >= pos /\ i + k <= n
    BY <1>1, <1>2
  <1>4. Found(d, pos) = {i \in pos .. n - k : SubSeq(data, i + 1, i + k) = d}
    BY <1>2 DEF Found
  <1>5. QED
    BY <1>2, <1>3, <1>4

\* Where none is found none starts.
LEMMA NoneStarts ==
  ASSUME data \in Bytes, NEW D \in Seq(Word), NEW pos \in Nat,
         \A j \in DOMAIN D : Found(D[j], pos) = {}
  PROVE  \A e \in ToSet(D) : ~StartsIn(data, e, pos, n)
  <1>1. n \in Nat /\ n = Len(data)
    BY AtStart
  <1>2. ASSUME NEW j \in DOMAIN D, NEW i \in pos .. n - 1,
               i + Len(D[j]) <= n, SubSeq(data, i + 1, i + Len(D[j])) = D[j]
        PROVE  FALSE
    <2>1. PICK d \in Word : d = D[j]
      OBVIOUS
    <2>2. i \in Int /\ i >= pos
      BY <1>1
    <2>3. i \in Found(d, pos)
      BY <1>2, <2>1, <2>2, FoundIs
    <2>4. QED
      BY <2>1, <2>3
  <1>3. QED
    BY <1>1, <1>2 DEF StartsIn, ToSet

\* NextDelim is the next delimiter.
LEMMA NextDelimIs ==
  ASSUME data \in Bytes, NEW D \in Seq(Word), NEW pos \in Nat,
         ~ \A j \in DOMAIN D : Found(D[j], pos) = {}
  PROVE  NextIs(D, pos, NextDelim(D, pos))
  <1>1. n \in Nat /\ n = Len(data)
    BY AtStart
  <1>2. PICK m \in Nat : m = Len(D) /\ DOMAIN D = 1 .. m /\ \A j \in 1 .. m : D[j] \in Word
    OBVIOUS
  <1>3. ASSUME NEW j \in 1 .. m, NEW i
        PROVE  i \in Found(D[j], pos) => i \in 0 .. n /\ i >= pos
    <2>1. PICK d \in Word : d = D[j]
      BY <1>2
    <2>2. PICK k \in Nat : k = Len(d)
      BY WordLength
    <2>3. Found(d, pos) \subseteq pos .. n - k
      BY <2>2 DEF Found
    <2>4. QED
      BY <1>1, <2>1, <2>2, <2>3
  <1>4. PICK A : A = UNION {Found(D[j], pos) : j \in DOMAIN D}
    OBVIOUS
  <1>5. A \in SUBSET (0 .. n) /\ A # {}
    BY <1>2, <1>3, <1>4
  <1>6. PICK at : at = Min(A)
    OBVIOUS
  <1>7. at \in A /\ \A i \in A : at <= i
    BY <1>1, <1>5, <1>6, MinMaxIn
  <1>8. PICK J : J = {j \in DOMAIN D : at \in Found(D[j], pos)}
    OBVIOUS
  <1>9. J \in SUBSET (0 .. m) /\ J # {}
    BY <1>2, <1>4, <1>7, <1>8
  <1>10. PICK j : j = Min(J)
    OBVIOUS
  <1>11. j \in J
    BY <1>9, <1>10, MinMaxIn
  <1>12. j \in DOMAIN D /\ j \in 1 .. m /\ at \in Found(D[j], pos)
    BY <1>2, <1>8, <1>11
  <1>13. PICK d \in Word : d = D[j]
    BY <1>2, <1>12
  <1>14. PICK x : x = [at |-> at, delim |-> d] /\ x = NextDelim(D, pos)
    BY <1>4, <1>6, <1>8, <1>10, <1>13 DEF NextDelim
  <1>15. at \in Nat /\ at >= pos
    BY <1>1, <1>3, <1>12
  <1>16. at + Len(d) <= n /\ SubSeq(data, at + 1, at + Len(d)) = d
    <2>1. at \in Int /\ at \in Found(d, pos)
      BY <1>12, <1>13, <1>15
    <2>2. \A i \in Int : i \in Found(d, pos) <=> i >= pos /\ i + Len(d) <= n /\ SubSeq(data, i + 1, i + Len(d)) = d
      BY FoundIs
    <2>3. QED
      BY <2>1, <2>2
  <1>17. d \in ToSet(D)
    BY <1>12, <1>13 DEF ToSet
  <1>18. ASSUME NEW e \in ToSet(D) PROVE ~StartsIn(data, e, pos, at)
    <2>1. PICK b \in 1 .. m : e = D[b] /\ e \in Word /\ b \in DOMAIN D
      BY <1>2 DEF ToSet
    <2>2. ASSUME NEW i \in pos .. at - 1, i + Len(e) <= n, SubSeq(data, i + 1, i + Len(e)) = e PROVE FALSE
      <3>1. i \in Int /\ i >= pos /\ i < at
        BY <1>15
      <3>2. i \in Found(e, pos)
        BY <2>1, <2>2, <3>1, FoundIs
      <3>3. i \in A
        BY <1>4, <2>1, <3>2
      <3>4. QED
        BY <1>7, <1>15, <3>1, <3>3
    <2>3. QED
      BY <1>1, <2>2 DEF StartsIn
  <1>19. x.at = at /\ x.delim = d
    BY ONLY <1>14
  <1>20. NextIs(D, pos, x)
    BY <1>15, <1>16, <1>17, <1>18, <1>19 DEF NextIs
  <1>21. QED
    BY <1>14, <1>20

-----------------------------------------------------------------------------
(* Sequences of pieces *)

\* FlattenSeq of sequences of bytes.
LEMMA FlatBytes ==
  /\ FlattenSeq(<<>>) = <<>>
  /\ \A S \in Seq(Bytes) : FlattenSeq(S) \in Bytes
  /\ \A S \in Seq(Bytes), s \in Bytes : FlattenSeq(Append(S, s)) = FlattenSeq(S) \o s
  BY FlatFacts DEF Bytes

\* How many bytes come before the i-th of the sequences q.
Off(q, i) == Len(FlattenSeq(SubSeq(q, 1, i - 1)))

\* A sequence more does not change what comes before the others.
LEMMA OffStays ==
  ASSUME NEW S, NEW q \in Seq(S), NEW x \in S, NEW w, w = Append(q, x), NEW i \in 1 .. Len(q) + 1
  PROVE  Off(w, i) = Off(q, i)
  <1>1. PICK m \in Nat : m = Len(q)
    OBVIOUS
  <1>2. w \in Seq(S) /\ Len(w) = m + 1 /\ \A j \in 1 .. m : w[j] = q[j]
    BY <1>1, AppendProperties
  <1>3. PICK k \in Nat : k = i - 1 /\ k <= m
    BY <1>1
  <1>4. SubSeq(w, 1, k) \in Seq(S) /\ Len(SubSeq(w, 1, k)) = k /\ \A j \in 1 .. k : SubSeq(w, 1, k)[j] = w[j]
    BY <1>2, <1>3
  <1>5. SubSeq(q, 1, k) \in Seq(S) /\ Len(SubSeq(q, 1, k)) = k /\ \A j \in 1 .. k : SubSeq(q, 1, k)[j] = q[j]
    BY <1>1, <1>3
  <1>6. \A j \in 1 .. k : w[j] = q[j]
    BY <1>2, <1>3
  <1>7. PICK a \in Seq(S), b \in Seq(S) : a = SubSeq(w, 1, k) /\ b = SubSeq(q, 1, k)
    BY <1>4, <1>5
  <1>8. a = b
    BY <1>4, <1>5, <1>6, <1>7, SeqEqual
  <1>9. QED
    BY <1>3, <1>7, <1>8 DEF Off

\* Before the end come all of them.
LEMMA OffEnd ==
  ASSUME NEW S, NEW q \in Seq(S), NEW i, i = Len(q) + 1
  PROVE  Off(q, i) = Len(FlattenSeq(q))
  <1>1. i - 1 = Len(q)
    OBVIOUS
  <1>2. SubSeq(q, 1, Len(q)) = q
    OBVIOUS
  <1>3. QED
    BY <1>1, <1>2 DEF Off

\* The pieces p and the delimiters l between them, in one sequence.
Shapes(pieces, p, l, include) ==
  /\ pieces \in Seq(Bytes)
  /\ IF include
     THEN /\ Len(pieces) = 2 * Len(p)
          /\ \A i \in 1 .. Len(p) : pieces[2 * i - 1] = p[i] /\ pieces[2 * i] = l[i]
     ELSE pieces = p

\* What k turns have cut off: the pieces p, each with the delimiter in l
\* behind it, are in q what stands before the position.
CutsTo(r, D, include, p, l, q) ==
  /\ p \in Seq(Bytes) /\ l \in Seq(Word) /\ q \in Seq(Bytes)
  /\ Len(l) = Len(p) /\ Len(q) = Len(p)
  /\ \A i \in 1 .. Len(p) : q[i] = p[i] \o l[i] /\ l[i] \in ToSet(D)
  /\ r.pos \in Nat /\ r.pos <= n /\ Len(p) <= r.pos
  /\ FlattenSeq(q) = SubSeq(data, 1, r.pos)
  /\ \A i \in 1 .. Len(p), e \in ToSet(D) : ~StartsIn(data, e, Off(q, i), Off(q, i) + Len(p[i]))
  /\ Shapes(r.pieces, p, l, include)

\* One piece more, and the delimiter behind it.
LEMMA ShapesMore ==
  ASSUME NEW include \in BOOLEAN, NEW p \in Seq(Bytes), NEW l \in Seq(Word), Len(l) = Len(p),
         NEW pieces, Shapes(pieces, p, l, include), NEW x \in Bytes, NEW d \in Word, NEW more,
         more = pieces \o IF include THEN <<x, d>> ELSE <<x>>
  PROVE  Shapes(more, Append(p, x), Append(l, d), include)
  <1>1. PICK m \in Nat : m = Len(p) /\ m = Len(l)
    OBVIOUS
  <1>2. PICK p2 : p2 = Append(p, x)
    OBVIOUS
  <1>3. p2 \in Seq(Bytes) /\ Len(p2) = m + 1 /\ p2[m + 1] = x /\ \A i \in 1 .. m : p2[i] = p[i]
    BY <1>1, <1>2, AppendProperties
  <1>4. PICK l2 : l2 = Append(l, d)
    OBVIOUS
  <1>5. l2 \in Seq(Word) /\ Len(l2) = m + 1 /\ l2[m + 1] = d /\ \A i \in 1 .. m : l2[i] = l[i]
    BY <1>1, <1>4, AppendProperties
  <1>6. CASE ~include
    <2>1. pieces = p /\ more = p \o <<x>>
      BY <1>6 DEF Shapes
    <2>2. p \o <<x>> = Append(p, x)
      OBVIOUS
    <2>3. QED
      BY <1>2, <1>3, <1>6, <2>1, <2>2 DEF Shapes
  <1>7. CASE include
    <2>1. pieces \in Seq(Bytes) /\ Len(pieces) = 2 * m /\ \A i \in 1 .. m : pieces[2 * i - 1] = p[i] /\ pieces[2 * i] = l[i]
      BY <1>1, <1>7 DEF Shapes
    <2>2. PICK t : t = <<x, d>>
      OBVIOUS
    <2>3. t \in Seq(Bytes) /\ Len(t) = 2 /\ t[1] = x /\ t[2] = d
      <3>1. d \in Bytes
        BY WordLength
      <3>2. QED
        BY <2>2, <3>1
    <2>4. more = pieces \o t
      BY <1>7, <2>2
    <2>5. /\ more \in Seq(Bytes) /\ Len(more) = Len(pieces) + Len(t)
          /\ \A i \in 1 .. Len(pieces) + Len(t) : more[i] = IF i <= Len(pieces) THEN pieces[i] ELSE t[i - Len(pieces)]
      BY ONLY <2>1, <2>3, <2>4, ConcatProperties
    <2>6. /\ Len(more) = 2 * (m + 1)
          /\ \A i \in 1 .. 2 * m : more[i] = pieces[i]
          /\ more[2 * m + 1] = x /\ more[2 * m + 2] = d
      BY <2>1, <2>3, <2>5
    <2>7. ASSUME NEW i \in 1 .. m + 1 PROVE more[2 * i - 1] = p2[i] /\ more[2 * i] = l2[i]
      <3>1. CASE i = m + 1
        BY <1>3, <1>5, <2>6, <3>1
      <3>2. CASE i # m + 1
        <4>1. i \in 1 .. m /\ 2 * i - 1 \in 1 .. 2 * m /\ 2 * i \in 1 .. 2 * m
          BY <3>2
        <4>2. QED
          BY <1>3, <1>5, <2>1, <2>6, <4>1
      <3>3. QED
        BY <3>1, <3>2
    <2>8. QED
      BY <1>2, <1>3, <1>4, <1>7, <2>5, <2>6, <2>7 DEF Shapes
  <1>8. QED
    BY <1>6, <1>7

\* Before the first turn nothing has been cut off.
LEMMA CutsStart ==
  ASSUME data \in Bytes, NEW D, NEW include \in BOOLEAN, NEW r, r.pos = 0, r.pieces = <<>>
  PROVE  CutsTo(r, D, include, <<>>, <<>>, <<>>)
  <1>1. n \in Nat /\ n = Len(data)
    BY AtStart
  <1>2. PICK e : e = <<>>
    OBVIOUS
  <1>3. e \in Seq(Bytes) /\ e \in Seq(Word) /\ Len(e) = 0
    <2>1. \A C : \A z : z = <<>> => z \in Seq(C) /\ Len(z) = 0
      BY ONLY EmptySeq
    <2>2. QED
      BY ONLY <1>2, <2>1
  <1>4. FlattenSeq(e) = SubSeq(data, 1, 0)
    <2>1. SubSeq(data, 1, 0) = <<>>
      BY DEF Bytes
    <2>2. QED
      BY <1>2, <2>1, FlatBytes
  <1>5. Shapes(e, e, e, include)
    BY <1>3 DEF Shapes
  <1>6. \A i \in 1 .. Len(e) : FALSE
    BY <1>3
  <1>7. r.pos = 0 /\ r.pieces = e
    BY <1>2
  <1>8. CutsTo(r, D, include, e, e, e)
    BY <1>1, <1>3, <1>4, <1>5, <1>6, <1>7 DEF CutsTo
  <1>9. QED
    BY <1>2, <1>8

\* Two parts that meet are one.
LEMMA PartsJoin ==
  ASSUME NEW s \in Bytes, NEW f \in Nat, NEW a \in Nat, NEW b \in Nat, f <= a, a <= b, b <= Len(s)
  PROVE  /\ SubSeq(s, f + 1, a) \o SubSeq(s, a + 1, b) = SubSeq(s, f + 1, b)
         /\ SubSeq(s, f + 1, a) \in Bytes /\ Len(SubSeq(s, f + 1, a)) = a - f
  <1>1. s \in Seq(Byte) /\ Len(s) \in Nat
    BY DEF Bytes
  <1>2. PICK u : u = SubSeq(s, f + 1, a)
    OBVIOUS
  <1>3. u \in Seq(Byte) /\ Len(u) = a - f /\ \A i \in 1 .. a - f : u[i] = s[f + i]
    BY <1>1, <1>2
  <1>4. PICK v : v = SubSeq(s, a + 1, b)
    OBVIOUS
  <1>5. v \in Seq(Byte) /\ Len(v) = b - a /\ \A i \in 1 .. b - a : v[i] = s[a + i]
    BY <1>1, <1>4
  <1>6. PICK w : w = SubSeq(s, f + 1, b)
    OBVIOUS
  <1>7. w \in Seq(Byte) /\ Len(w) = b - f /\ \A i \in 1 .. b - f : w[i] = s[f + i]
    BY <1>1, <1>6
  <1>8. PICK t : t = u \o v
    OBVIOUS
  <1>9. /\ t \in Seq(Byte) /\ Len(t) = Len(u) + Len(v)
        /\ \A i \in 1 .. Len(u) + Len(v) : t[i] = IF i <= Len(u) THEN u[i] ELSE v[i - Len(u)]
    BY ONLY <1>3, <1>5, <1>8, ConcatProperties
  <1>10. Len(t) = b - f
    BY <1>3, <1>5, <1>9
  <1>11. ASSUME NEW i \in 1 .. b - f PROVE t[i] = w[i]
    <2>1. CASE i <= a - f
      <3>1. i \in 1 .. a - f /\ i \in 1 .. Len(u) + Len(v)
        BY <1>3, <1>5, <2>1
      <3>2. t[i] = u[i] /\ u[i] = s[f + i] /\ w[i] = s[f + i]
        BY <1>3, <1>7, <1>9, <3>1
      <3>3. QED
        BY <3>2
    <2>2. CASE ~(i <= a - f)
      <3>1. PICK j \in 1 .. b - a : j = i - (a - f) /\ a + j = f + i
        BY <2>2
      <3>2. t[i] = v[j] /\ v[j] = s[a + j] /\ w[i] = s[f + i]
        BY <1>3, <1>5, <1>7, <1>9, <2>2, <3>1
      <3>3. QED
        BY <3>1, <3>2
    <2>3. QED
      BY <2>1, <2>2
  <1>12. t = w
    BY <1>7, <1>9, <1>10, <1>11, SeqEqual
  <1>13. QED
    BY <1>2, <1>3, <1>4, <1>6, <1>8, <1>12 DEF Bytes

\* No delimiter is left behind pos.
NoneFound(D, pos) == \A j \in DOMAIN D : Found(D[j], pos) = {}

\* One turn cuts off one piece more.
LEMMA CutMore ==
  ASSUME data \in Bytes, NEW D \in Seq(Word), NEW include \in BOOLEAN,
         NEW r, NEW p, NEW l, NEW q, CutsTo(r, D, include, p, l, q),
         ~NoneFound(D, r.pos), NEW next, next = Cut(r, D, include)
  PROVE  \E p2, l2, q2 : CutsTo(next, D, include, p2, l2, q2) /\ Len(p2) = Len(p) + 1
  <1>1. n \in Nat /\ n = Len(data)
    BY AtStart
  <1>2. /\ p \in Seq(Bytes) /\ l \in Seq(Word) /\ q \in Seq(Bytes)
        /\ Len(l) = Len(p) /\ Len(q) = Len(p)
        /\ \A i \in 1 .. Len(p) : q[i] = p[i] \o l[i] /\ l[i] \in ToSet(D)
    BY DEF CutsTo
  <1>3. /\ FlattenSeq(q) = SubSeq(data, 1, r.pos)
        /\ \A i \in 1 .. Len(p), e \in ToSet(D) : ~StartsIn(data, e, Off(q, i), Off(q, i) + Len(p[i]))
        /\ Shapes(r.pieces, p, l, include)
    BY DEF CutsTo
  <1>4. PICK pos \in Nat : pos = r.pos /\ pos <= n /\ Len(p) <= pos
    BY DEF CutsTo
  <1>5. PICK x : x = NextDelim(D, pos) /\ NextIs(D, pos, x)
    BY <1>4, NextDelimIs DEF NoneFound
  <1>6. PICK d : d = x.delim /\ d \in ToSet(D) /\ d \in Word
    BY <1>5 DEF NextIs
  <1>7. PICK at \in Nat : at = x.at /\ pos <= at /\ at + Len(d) <= n /\ SubSeq(data, at + 1, at + Len(d)) = d
                          /\ \A e \in ToSet(D) : ~StartsIn(data, e, pos, at)
    BY <1>5, <1>6 DEF NextIs
  <1>8. PICK end \in Nat : end = at + Len(d) /\ at < end /\ end <= n
    BY <1>6, <1>7, WordLength
  <1>9. pos <= at /\ at <= end /\ pos <= end /\ 0 <= pos
    <2>1. pos <= at /\ at < end
      BY <1>7, <1>8
    <2>2. QED
      BY ONLY <2>1, pos \in Nat, at \in Nat, end \in Nat
  <1>10. end <= Len(data)
    BY ONLY <1>1, <1>8
  <1>11. d = SubSeq(data, at + 1, end)
    BY ONLY <1>7, <1>8
  <1>12. PICK piece : piece = SubSeq(data, pos + 1, at)
    OBVIOUS
  <1>13. PICK t : t = piece \o d
    OBVIOUS
  <1>14. piece \in Bytes /\ Len(piece) = at - pos /\ t = SubSeq(data, pos + 1, end)
    <2>1. data \in Bytes /\ pos <= at /\ at <= end /\ end <= Len(data) /\ d = SubSeq(data, at + 1, end)
      BY <1>9, <1>10, <1>11
    <2>2. /\ SubSeq(data, pos + 1, at) \o SubSeq(data, at + 1, end) = SubSeq(data, pos + 1, end)
          /\ SubSeq(data, pos + 1, at) \in Bytes /\ Len(SubSeq(data, pos + 1, at)) = at - pos
      BY ONLY <2>1, PartsJoin, pos \in Nat, at \in Nat, end \in Nat
    <2>3. QED
      BY <1>12, <1>13, <2>1, <2>2
  <1>15. t \in Bytes
    <2>1. d \in Bytes
      BY <1>6, WordLength
    <2>2. QED
      BY ONLY <1>13, <1>14, <2>1, ConcatProperties DEF Bytes
  <1>16. PICK m \in Nat : m = Len(p) /\ m = Len(q) /\ m = Len(l)
    BY <1>2
  <1>17. PICK p2 : p2 = Append(p, piece)
    OBVIOUS
  <1>18. p2 \in Seq(Bytes) /\ Len(p2) = m + 1 /\ p2[m + 1] = piece /\ \A i \in 1 .. m : p2[i] = p[i]
    BY <1>2, <1>14, <1>16, <1>17, AppendProperties
  <1>19. PICK l2 : l2 = Append(l, d)
    OBVIOUS
  <1>20. l2 \in Seq(Word) /\ Len(l2) = m + 1 /\ l2[m + 1] = d /\ \A i \in 1 .. m : l2[i] = l[i]
    BY <1>2, <1>6, <1>16, <1>19, AppendProperties
  <1>21. PICK q2 : q2 = Append(q, t)
    OBVIOUS
  <1>22. q2 \in Seq(Bytes) /\ Len(q2) = m + 1 /\ q2[m + 1] = t /\ \A i \in 1 .. m : q2[i] = q[i]
    BY <1>2, <1>15, <1>16, <1>21, AppendProperties
  <1>23. PICK r2 : r2 = Cut(r, D, include)
    OBVIOUS
  <1>24. r2.pos = end /\ r2.pieces = r.pieces \o IF include THEN <<piece, d>> ELSE <<piece>>
    BY <1>4, <1>5, <1>6, <1>7, <1>8, <1>12, <1>23 DEF Cut, NoneFound
  <1>25. Shapes(r2.pieces, p2, l2, include)
    <2>1. PICK more : more = r2.pieces
      OBVIOUS
    <2>2. Shapes(more, Append(p, piece), Append(l, d), include)
      BY <1>2, <1>3, <1>6, <1>14, <1>24, <2>1, ShapesMore
    <2>3. QED
      BY <1>17, <1>19, <2>1, <2>2
  <1>26. FlattenSeq(q2) = SubSeq(data, 1, end)
    <2>1. FlattenSeq(q2) = FlattenSeq(q) \o t
      BY <1>2, <1>15, <1>21, FlatBytes
    <2>2. SubSeq(data, 0 + 1, pos) \o SubSeq(data, pos + 1, end) = SubSeq(data, 0 + 1, end)
      <3>1. data \in Bytes /\ 0 \in Nat /\ 0 <= pos /\ pos <= end /\ end <= Len(data)
        BY <1>9, <1>10
      <3>2. QED
        BY ONLY <3>1, PartsJoin, pos \in Nat, end \in Nat
    <2>3. SubSeq(data, 0 + 1, pos) = SubSeq(data, 1, pos) /\ SubSeq(data, 0 + 1, end) = SubSeq(data, 1, end)
      OBVIOUS
    <2>4. QED
      BY ONLY <1>3, <1>4, <1>14, <2>1, <2>2, <2>3
  <1>27. Len(FlattenSeq(q)) = pos
    <2>1. Len(SubSeq(data, 0 + 1, pos)) = pos - 0
      BY <1>1, <1>4, PartsJoin
    <2>2. QED
      BY <1>3, <1>4, <2>1
  <1>28. ASSUME NEW i \in 1 .. m + 1, NEW e \in ToSet(D)
         PROVE  ~StartsIn(data, e, Off(q2, i), Off(q2, i) + Len(p2[i]))
    <2>1. Off(q2, i) = Off(q, i)
      <3>1. i \in 1 .. Len(q) + 1
        BY <1>16
      <3>2. q \in Seq(Bytes)
        BY <1>2
      <3>3. QED
        BY ONLY <1>15, <1>21, <3>1, <3>2, OffStays
    <2>2. CASE i = m + 1
      <3>1. Off(q, i) = pos
        BY <1>2, <1>16, <1>27, <2>2, OffEnd
      <3>2. Off(q, i) + Len(p2[i]) = at
        BY <1>7, <1>14, <1>18, <2>2, <3>1
      <3>3. QED
        BY <1>7, <2>1, <3>1, <3>2
    <2>3. CASE i # m + 1
      <3>1. i \in 1 .. m /\ p2[i] = p[i]
        BY <1>18, <2>3
      <3>2. QED
        BY <1>3, <1>16, <2>1, <3>1
    <2>4. QED
      BY <2>2, <2>3
  <1>29. ASSUME NEW i \in 1 .. m + 1 PROVE q2[i] = p2[i] \o l2[i] /\ l2[i] \in ToSet(D)
    <2>1. CASE i = m + 1
      BY <1>6, <1>13, <1>18, <1>20, <1>22, <2>1
    <2>2. CASE i # m + 1
      <3>1. i \in 1 .. m
        BY <2>2
      <3>2. QED
        BY <1>2, <1>16, <1>18, <1>20, <1>22, <3>1
    <2>3. QED
      BY <2>1, <2>2
  <1>30. r2.pos \in Nat /\ r2.pos <= n /\ Len(p2) <= r2.pos
    BY <1>4, <1>7, <1>8, <1>16, <1>18, <1>24
  <1>31. CutsTo(r2, D, include, p2, l2, q2)
    BY <1>18, <1>20, <1>22, <1>24, <1>25, <1>26, <1>28, <1>29, <1>30 DEF CutsTo
  <1>32. QED
    BY <1>16, <1>18, <1>23, <1>31

-----------------------------------------------------------------------------
(* The loop of split *)

\* A turn of the loop, for x.delims and x.include.
CutBy(r, x) == Cut(r, x.delims, x.include)

CutFold == INSTANCE FoldLemmas WITH op <- CutBy

\* What r is after each of k turns.
Turns(c, D, include, k) ==
  /\ c[0] = [pos |-> 0, pieces |-> <<>>]
  /\ \A i \in 1 .. k : c[i] = Cut(c[i - 1], D, include)

\* The turns that Pieces speaks of.
LEMMA TurnsExist ==
  ASSUME NEW D, NEW include, NEW m \in Nat
  PROVE  \E c : c = [k \in 0 .. m |-> IF k = 0 THEN [pos |-> 0, pieces |-> <<>>] ELSE Cut(c[k - 1], D, include)]
  <1>1. PICK e : e = [pos |-> 0, pieces |-> <<>>]
    OBVIOUS
  <1>2. PICK x : x = [delims |-> D, include |-> include]
    OBVIOUS
  <1>3. PICK s : s = [i \in 1 .. m |-> x]
    OBVIOUS
  <1>4. DOMAIN s = 1 .. m
    BY <1>3
  <1>5. PICK h : CutFold!Runs(h, e, s, m)
    BY <1>4, CutFold!FoldRuns
  <1>6. h[0] = e /\ \A i \in 1 .. m : h[i] = CutBy(h[i - 1], s[i])
    BY <1>5 DEF CutFold!Runs
  <1>7. ASSUME NEW i \in 1 .. m PROVE h[i] = Cut(h[i - 1], D, include)
    <2>1. s[i] = x /\ x.delims = D /\ x.include = include
      BY <1>2, <1>3
    <2>2. QED
      BY <1>6, <2>1 DEF CutBy
  <1>8. PICK c : c = [k \in 0 .. m |-> h[k]]
    OBVIOUS
  <1>9. ASSUME NEW k \in 0 .. m PROVE c[k] = IF k = 0 THEN e ELSE Cut(c[k - 1], D, include)
    <2>1. CASE k = 0
      BY <1>6, <1>8, <2>1
    <2>2. CASE k # 0
      <3>1. k \in 1 .. m /\ k - 1 \in 0 .. m
        BY <2>2
      <3>2. QED
        BY <1>7, <1>8, <2>2, <3>1
    <2>3. QED
      BY <2>1, <2>2
  <1>10. c = [k \in 0 .. m |-> IF k = 0 THEN e ELSE Cut(c[k - 1], D, include)]
    BY <1>8, <1>9
  <1>11. QED
    BY <1>1, <1>10

\* After k turns there are k pieces, or no delimiter is left.
LEMMA TurnsCut ==
  ASSUME data \in Bytes, NEW D \in Seq(Word), NEW include \in BOOLEAN,
         NEW c, NEW m \in Nat, Turns(c, D, include, m)
  PROVE  \A k \in 0 .. m : \E p, l, q :
           /\ CutsTo(c[k], D, include, p, l, q) /\ Len(p) <= k
           /\ Len(p) = k \/ \A j \in DOMAIN D : Found(D[j], c[k].pos) = {}
  <1> DEFINE Stuck(r) == \A j \in DOMAIN D : Found(D[j], r.pos) = {}
             Good(k) == \E p, l, q : CutsTo(c[k], D, include, p, l, q) /\ Len(p) <= k /\ (Len(p) = k \/ Stuck(c[k]))
             T == {k \in Nat : k <= m => Good(k)}
  <1>1. 0 \in T
    <2>1. c[0].pos = 0 /\ c[0].pieces = <<>>
      BY DEF Turns
    <2>2. CutsTo(c[0], D, include, <<>>, <<>>, <<>>)
      BY <2>1, CutsStart
    <2>3. Len(<<>>) = 0
      OBVIOUS
    <2>4. PICK z : CutsTo(c[0], D, include, z, z, z) /\ Len(z) = 0
      BY <2>2, <2>3
    <2>5. Good(0)
      BY <2>4
    <2>6. QED
      BY <2>5
  <1>2. ASSUME NEW k \in T PROVE k + 1 \in T
    <2> SUFFICES ASSUME k + 1 <= m PROVE Good(k + 1)
      OBVIOUS
    <2>1. k \in Nat /\ k + 1 \in 1 .. m /\ Good(k) /\ (k + 1) - 1 = k
      BY <1>2
    <2>2. PICK p, l, q : CutsTo(c[k], D, include, p, l, q) /\ Len(p) <= k /\ (Len(p) = k \/ Stuck(c[k]))
      BY <2>1
    <2>3. c[k + 1] = Cut(c[k], D, include)
      BY <2>1 DEF Turns
    <2>4. Len(p) \in Nat
      BY <2>2 DEF CutsTo
    <2>5. CASE Stuck(c[k])
      <3>1. c[k + 1] = c[k]
        BY <2>3, <2>5 DEF Cut
      <3>2. Len(p) <= k + 1
        BY <2>1, <2>2, <2>4
      <3>3. QED
        BY <2>2, <2>5, <3>1, <3>2
    <2>6. CASE ~Stuck(c[k])
      <3>1. PICK p2, l2, q2 : CutsTo(c[k + 1], D, include, p2, l2, q2) /\ Len(p2) = Len(p) + 1
        <4>1. PICK r : r = c[k]
          OBVIOUS
        <4>2. CutsTo(r, D, include, p, l, q) /\ ~NoneFound(D, r.pos)
          BY <2>2, <2>6, <4>1 DEF NoneFound
        <4>3. PICK next : next = Cut(r, D, include)
          OBVIOUS
        <4>4. \E p2, l2, q2 : CutsTo(next, D, include, p2, l2, q2) /\ Len(p2) = Len(p) + 1
          BY <4>2, <4>3, CutMore
        <4>5. QED
          BY <2>3, <4>1, <4>3, <4>4
      <3>2. Len(p2) = k + 1
        BY <2>2, <2>6, <3>1
      <3>3. QED
        BY <2>1, <3>1, <3>2
    <2>7. QED
      BY <2>5, <2>6
  <1>3. T = Nat
    <2>1. T \in SUBSET Nat
      OBVIOUS
    <2> HIDE DEF T
    <2>2. QED
      BY <1>1, <1>2, <2>1, SetInduction
  <1>4. ASSUME NEW k \in 0 .. m PROVE Good(k)
    <2>1. k \in Nat /\ k <= m
      OBVIOUS
    <2> HIDE DEF T
    <2>2. k \in T
      BY <1>3, <2>1
    <2>3. QED
      BY <2>1, <2>2 DEF T
  <1>5. QED
    BY <1>4

\* What split returns, and why.
Splits(result, D, count, include, r, p, l, q) ==
  /\ CutsTo(r, D, include, p, l, q)
  /\ result = Append(r.pieces, SubSeq(data, r.pos + 1, n))
  /\ count # None => Len(p) + 1 <= Greatest(count, 1)
  /\ Len(p) + 1 # count /\ count # 0 => \A e \in ToSet(D) : ~StartsIn(data, e, r.pos, n)

\* Pieces returns what Splits says.
LEMMA PiecesAre ==
  ASSUME data \in Bytes, NEW D \in Seq(Word), NEW count \in Nat \cup {None}, NEW include \in BOOLEAN
  PROVE  \E r, p, l, q : Splits(Pieces(D, count, include), D, count, include, r, p, l, q)
  <1>1. n \in Nat /\ n = Len(data)
    BY AtStart
  <1>2. PICK c : c = CHOOSE f : f = [k \in 0 .. n |-> IF k = 0 THEN [pos |-> 0, pieces |-> <<>>] ELSE Cut(f[k - 1], D, include)]
    OBVIOUS
  <1>3. c = [k \in 0 .. n |-> IF k = 0 THEN [pos |-> 0, pieces |-> <<>>] ELSE Cut(c[k - 1], D, include)]
    BY <1>1, <1>2, TurnsExist
  <1>4. Turns(c, D, include, n)
    <2>1. \A k \in 0 .. n : c[k] = IF k = 0 THEN [pos |-> 0, pieces |-> <<>>] ELSE Cut(c[k - 1], D, include)
      BY <1>3
    <2>2. 0 \in 0 .. n /\ \A i \in 1 .. n : i \in 0 .. n /\ i # 0
      BY <1>1
    <2>3. QED
      BY <2>1, <2>2 DEF Turns
  <1>5. PICK K : K = IF count = None THEN n ELSE Least(Greatest(count - 1, 0), n)
    OBVIOUS
  <1>6. /\ K \in 0 .. n
        /\ count # None /\ K # n => K + 1 = count \/ count = 0
        /\ count # None => K + 1 <= Greatest(count, 1)
    <2>1. CASE count = None
      BY <1>1, <1>5, <2>1
    <2>2. CASE count # None
      <3>1. count \in Nat /\ count - 1 \in Int
        BY <2>2
      <3>2. Greatest(count - 1, 0) = Larger(count - 1, 0) /\ Greatest(count, 1) = Larger(count, 1)
        BY <3>1, LeastGreatest
      <3>3. PICK g \in Nat : g = Larger(count - 1, 0) /\ (g + 1 = count \/ (count = 0 /\ g = 0)) /\ g + 1 = Larger(count, 1)
        BY <3>1 DEF Larger
      <3>4. Least(g, n) = Smaller(g, n)
        BY <1>1, LeastGreatest
      <3>5. K = Smaller(g, n)
        BY <1>5, <2>2, <3>2, <3>3, <3>4
      <3>6. QED
        BY <1>1, <2>2, <3>1, <3>2, <3>3, <3>5 DEF Smaller
    <2>3. QED
      BY <2>1, <2>2
  <1>7. PICK r : r = c[K]
    OBVIOUS
  <1>8. PICK p, l, q : /\ CutsTo(r, D, include, p, l, q) /\ Len(p) <= K
                       /\ Len(p) = K \/ \A j \in DOMAIN D : Found(D[j], r.pos) = {}
    BY <1>1, <1>4, <1>6, <1>7, TurnsCut
  <1>9. PICK result : result = Pieces(D, count, include)
    OBVIOUS
  <1>10. result = Append(r.pieces, SubSeq(data, r.pos + 1, n))
    BY <1>2, <1>5, <1>7, <1>9 DEF Pieces
  <1>11. PICK pos \in Nat, m \in Nat : pos = r.pos /\ m = Len(p) /\ pos <= n /\ m <= pos
    BY <1>8 DEF CutsTo
  <1>12. ASSUME count # None PROVE m + 1 <= Greatest(count, 1)
    <2>1. PICK g \in Int : g = Greatest(count, 1) /\ K + 1 <= g
      <3>1. Greatest(count, 1) = Larger(count, 1) /\ Larger(count, 1) \in Int
        BY <1>12, LeastGreatest DEF Larger
      <3>2. QED
        BY <1>6, <1>12, <3>1
    <2>2. QED
      BY <1>6, <1>8, <1>11, <2>1
  <1>13. ASSUME m + 1 # count, count # 0 PROVE \A e \in ToSet(D) : ~StartsIn(data, e, pos, n)
    <2>1. CASE \A j \in DOMAIN D : Found(D[j], r.pos) = {}
      BY <1>11, <2>1, NoneStarts
    <2>2. CASE ~ \A j \in DOMAIN D : Found(D[j], r.pos) = {}
      <3>1. m = K
        BY <1>8, <1>11, <2>2
      <3>2. K = n
        BY <1>5, <1>6, <1>13, <3>1
      <3>3. pos .. n - 1 = {}
        BY <1>1, <1>11, <3>1, <3>2
      <3>4. QED
        BY <3>3 DEF StartsIn
    <2>3. QED
      BY <2>1, <2>2
  <1>14. Splits(result, D, count, include, r, p, l, q)
    BY <1>8, <1>10, <1>11, <1>12, <1>13 DEF Splits
  <1>15. QED
    BY <1>9, <1>14

-----------------------------------------------------------------------------
(* join undoes split *)

\* The elements of p with d before each but the first, and behind each.
Led(p, d) == [i \in DOMAIN p |-> (IF i = 1 THEN <<>> ELSE d) \o p[i]]
Trailed(p, d) == [i \in DOMAIN p |-> p[i] \o d]

\* Led and Trailed, an element at a time.
LEMMA LedMore ==
  ASSUME NEW d \in Bytes, NEW p \in Seq(Bytes), NEW x \in Bytes, NEW w, Adds(w, p, x),
         NEW dx, Concats(dx, d, x), NEW xd, Concats(xd, x, d)
  PROVE  /\ dx \in Bytes /\ xd \in Bytes
         /\ Led(p, d) \in Seq(Bytes) /\ Trailed(p, d) \in Seq(Bytes)
         /\ p = <<>> => Adds(Led(w, d), Led(p, d), x)
         /\ p # <<>> => Adds(Led(w, d), Led(p, d), dx)
         /\ Adds(Trailed(w, d), Trailed(p, d), xd)
  <1>1. PICK m \in Nat : m = Len(p) /\ DOMAIN p = 1 .. m /\ \A i \in 1 .. m : p[i] \in Bytes
    OBVIOUS
  <1>2. w = Append(p, x) /\ dx = d \o x /\ xd = x \o d
    BY DEF Adds, Concats
  <1>3. w \in Seq(Bytes) /\ Len(w) = m + 1 /\ w[m + 1] = x /\ \A i \in 1 .. m : w[i] = p[i]
    BY <1>2, <1>1, AppendProperties
  <1>4. DOMAIN w = 1 .. m + 1
    BY <1>3
  <1>5. \A y \in Bytes : d \o y \in Bytes /\ y \o d \in Bytes /\ <<>> \o y = y
    <2>1. \A y \in Seq(Byte) : d \o y \in Seq(Byte) /\ y \o d \in Seq(Byte) /\ <<>> \o y = y
      <3>1. ASSUME NEW y \in Seq(Byte) PROVE d \o y \in Seq(Byte) /\ y \o d \in Seq(Byte) /\ <<>> \o y = y
        <4>1. d \in Seq(Byte)
          BY DEF Bytes
        <4>2. QED
          BY <4>1, ConcatProperties, ConcatEmptySeq
      <3>2. QED
        BY <3>1
    <2>2. QED
      BY <2>1 DEF Bytes
  <1>6. PICK u : u = Led(p, d)
    OBVIOUS
  <1>7. u = [i \in 1 .. m |-> (IF i = 1 THEN <<>> ELSE d) \o p[i]]
    BY <1>1, <1>6 DEF Led
  <1>8. ASSUME NEW i \in 1 .. m PROVE u[i] = (IF i = 1 THEN p[i] ELSE d \o p[i]) /\ u[i] \in Bytes
    <2>1. PICK y \in Bytes : y = p[i]
      BY <1>1
    <2>2. u[i] = (IF i = 1 THEN <<>> ELSE d) \o y
      BY <1>7, <2>1
    <2>3. QED
      BY <1>5, <2>1, <2>2
  <1>9. u \in Seq(Bytes) /\ Len(u) = m
    <2>1. u \in [1 .. m -> Bytes]
      BY <1>7, <1>8
    <2>2. QED
      BY <2>1
  <1>10. PICK v : v = Led(w, d)
    OBVIOUS
  <1>11. v = [i \in 1 .. m + 1 |-> (IF i = 1 THEN <<>> ELSE d) \o w[i]]
    BY <1>4, <1>10 DEF Led
  <1>12. ASSUME NEW i \in 1 .. m + 1 PROVE v[i] = (IF i = 1 THEN w[i] ELSE d \o w[i]) /\ v[i] \in Bytes
    <2>1. PICK y \in Bytes : y = w[i]
      BY <1>3
    <2>2. v[i] = (IF i = 1 THEN <<>> ELSE d) \o y
      BY <1>11, <2>1
    <2>3. QED
      BY <1>5, <2>1, <2>2
  <1>13. v \in Seq(Bytes) /\ Len(v) = m + 1
    <2>1. v \in [1 .. m + 1 -> Bytes]
      BY <1>11, <1>12
    <2>2. QED
      BY <2>1
  <1>14. ASSUME NEW y \in Bytes, y = IF m = 0 THEN x ELSE d \o x PROVE v = Append(u, y)
    <2>1. PICK a : a = Append(u, y)
      OBVIOUS
    <2>2. a \in Seq(Bytes) /\ Len(a) = m + 1 /\ a[m + 1] = y /\ \A i \in 1 .. m : a[i] = u[i]
      BY <1>9, <2>1, AppendProperties
    <2>3. ASSUME NEW i \in 1 .. m + 1 PROVE v[i] = a[i]
      <3>1. CASE i = m + 1
        BY <1>3, <1>12, <1>14, <2>2, <3>1
      <3>2. CASE i # m + 1
        <4>1. i \in 1 .. m
          BY <3>2
        <4>2. QED
          BY <1>3, <1>8, <1>12, <2>2, <4>1
      <3>3. QED
        BY <3>1, <3>2
    <2>4. QED
      BY <1>13, <2>1, <2>2, <2>3, SeqEqual
  <1>15. p = <<>> <=> m = 0
    BY <1>1
  <1>16. PICK s : s = Trailed(p, d)
    OBVIOUS
  <1>17. s = [i \in 1 .. m |-> p[i] \o d]
    BY <1>1, <1>16 DEF Trailed
  <1>18. s \in Seq(Bytes) /\ Len(s) = m
    <2>1. s \in [1 .. m -> Bytes]
      BY <1>1, <1>5, <1>17
    <2>2. QED
      BY <2>1
  <1>19. PICK t : t = Trailed(w, d)
    OBVIOUS
  <1>20. t = [i \in 1 .. m + 1 |-> w[i] \o d]
    BY <1>4, <1>19 DEF Trailed
  <1>21. t \in Seq(Bytes) /\ Len(t) = m + 1
    <2>1. t \in [1 .. m + 1 -> Bytes]
      BY <1>3, <1>5, <1>20
    <2>2. QED
      BY <2>1
  <1>22. PICK y \in Bytes : y = x \o d
    BY <1>5
  <1>23. PICK a : a = Append(s, y)
    OBVIOUS
  <1>24. a \in Seq(Bytes) /\ Len(a) = m + 1 /\ a[m + 1] = y /\ \A i \in 1 .. m : a[i] = s[i]
    BY <1>18, <1>23, AppendProperties
  <1>25. ASSUME NEW i \in 1 .. m + 1 PROVE t[i] = a[i]
    <2>1. CASE i = m + 1
      BY <1>3, <1>20, <1>22, <1>24, <2>1
    <2>2. CASE i # m + 1
      <3>1. i \in 1 .. m
        BY <2>2
      <3>2. QED
        BY <1>3, <1>17, <1>20, <1>24, <3>1
    <2>3. QED
      BY <2>1, <2>2
  <1>26. t = a
    BY <1>21, <1>24, <1>25, SeqEqual
  <1>27. d \o x \in Bytes /\ x \o d \in Bytes
    BY <1>5
  <1>28. (m = 0 => v = Append(u, x)) /\ (m # 0 => v = Append(u, d \o x))
    BY <1>14, <1>27
  <1>29. dx \in Bytes /\ xd \in Bytes
    BY <1>2, <1>27
  <1>30. Adds(Trailed(w, d), Trailed(p, d), xd)
    BY <1>2, <1>16, <1>19, <1>22, <1>23, <1>26 DEF Adds
  <1>31. (p = <<>> => Adds(Led(w, d), Led(p, d), x)) /\ (p # <<>> => Adds(Led(w, d), Led(p, d), dx))
    BY <1>2, <1>6, <1>10, <1>15, <1>28 DEF Adds
  <1>32. QED
    BY <1>6, <1>9, <1>16, <1>18, <1>29, <1>30, <1>31

\* Two sequences of bytes, one after the other, are one.
LEMMA ConcatIs ==
  ASSUME NEW s \in Bytes, NEW t \in Bytes
  PROVE  \E w \in Bytes : Concats(w, s, t)
  <1>1. s \in Seq(Byte) /\ t \in Seq(Byte)
    BY DEF Bytes
  <1>2. s \o t \in Seq(Byte)
    BY <1>1, ConcatProperties
  <1>3. QED
    BY <1>2 DEF Concats, Bytes

\* s, t and u one after the other.
LEMMA ConcatThree ==
  ASSUME NEW s \in Bytes, NEW t \in Bytes, NEW u \in Bytes,
         NEW st, Concats(st, s, t), NEW tu, Concats(tu, t, u), NEW a, NEW b
  PROVE  Concats(a, st, u) /\ Concats(b, s, tu) => a = b
  <1>1. s \in Seq(Byte) /\ t \in Seq(Byte) /\ u \in Seq(Byte)
    BY DEF Bytes
  <1>2. (s \o t) \o u = s \o (t \o u)
    BY <1>1, ConcatAssociative
  <1>3. QED
    BY <1>2 DEF Concats

\* Nothing before or behind a sequence changes it.
LEMMA ConcatNothing ==
  ASSUME NEW s \in Bytes, NEW e, e = <<>>
  PROVE  Concats(s, s, e) /\ Concats(s, e, s) /\ e \in Bytes
  <1>1. s \in Seq(Byte)
    BY DEF Bytes
  <1>2. s \o <<>> = s /\ <<>> \o s = s
    BY <1>1, ConcatEmptySeq
  <1>3. \A C : \A z : z = <<>> => z \in Seq(C)
    BY ONLY EmptySeq
  <1>4. QED
    BY <1>2, <1>3 DEF Concats, Bytes

\* What FlattenSeq makes of a sequence more.
LEMMA FlatAdds ==
  ASSUME NEW S \in Seq(Bytes), NEW s \in Bytes, NEW w, Adds(w, S, s)
  PROVE  w \in Seq(Bytes) /\ FlattenSeq(S) \in Bytes /\ Concats(FlattenSeq(w), FlattenSeq(S), s)
  <1>1. w = Append(S, s)
    BY DEF Adds
  <1>2. w \in Seq(Bytes)
    BY <1>1, AppendProperties
  <1>3. FlattenSeq(S) \in Bytes /\ FlattenSeq(w) = FlattenSeq(S) \o s
    BY <1>1, FlatBytes
  <1>4. QED
    BY <1>2, <1>3 DEF Concats

\* Of nothing nothing is made.
LEMMA FlatNothing ==
  ASSUME NEW p, p = <<>>, NEW d
  PROVE  FlattenSeq(Led(p, d)) = <<>> /\ FlattenSeq(Trailed(p, d)) = <<>>
  <1>1. DOMAIN p = {}
    OBVIOUS
  <1>2. PICK a, b : a = Led(p, d) /\ b = Trailed(p, d)
    OBVIOUS
  <1>3. a = [i \in {} |-> 0] /\ b = [i \in {} |-> 0]
    BY <1>1, <1>2 DEF Led, Trailed
  <1>4. [i \in {} |-> 0] = <<>>
    OBVIOUS
  <1>5. QED
    BY <1>2, <1>3, <1>4, FlatBytes

\* With d behind it too, what join makes is all pieces with d behind each.
JoinsTo(p, d) == Concats(FlattenSeq(Trailed(p, d)), FlattenSeq(Led(p, d)), d)

\* JoinsTo holds for an element more.
LEMMA LedTrailedMore ==
  ASSUME NEW d \in Bytes, NEW u \in Seq(Bytes), u # <<>> => JoinsTo(u, d), NEW x \in Bytes, NEW w, Adds(w, u, x)
  PROVE  /\ JoinsTo(w, d)
         /\ Concats(FlattenSeq(Led(w, d)), FlattenSeq(Trailed(u, d)), x)
  <1>1. PICK dx \in Bytes, xd \in Bytes : Concats(dx, d, x) /\ Concats(xd, x, d)
    BY ConcatIs
  <1>2. /\ Led(u, d) \in Seq(Bytes) /\ Trailed(u, d) \in Seq(Bytes)
        /\ u = <<>> => Adds(Led(w, d), Led(u, d), x)
        /\ u # <<>> => Adds(Led(w, d), Led(u, d), dx)
        /\ Adds(Trailed(w, d), Trailed(u, d), xd)
    BY <1>1, LedMore
  <1>3. PICK f, g, h, k : f = FlattenSeq(Led(u, d)) /\ g = FlattenSeq(Trailed(u, d))
                          /\ h = FlattenSeq(Led(w, d)) /\ k = FlattenSeq(Trailed(w, d))
    OBVIOUS
  <1>4. g \in Bytes /\ Concats(k, g, xd)
    BY <1>1, <1>2, <1>3, FlatAdds
  <1>5. f \in Bytes
    BY <1>2, <1>3, FlatBytes
  <1>6. Concats(h, g, x)
    <2>1. CASE u = <<>>
      <3>1. f = <<>> /\ g = <<>>
        BY <1>3, <2>1, FlatNothing
      <3>2. Concats(h, f, x)
        BY <1>2, <1>3, <2>1, FlatAdds
      <3>3. QED
        BY <3>1, <3>2
    <2>2. CASE u # <<>>
      <3>1. Concats(g, f, d)
        BY <1>3, <2>2 DEF JoinsTo
      <3>2. Concats(h, f, dx)
        BY <1>1, <1>2, <1>3, <2>2, FlatAdds
      <3>3. PICK gx \in Bytes : Concats(gx, g, x)
        BY <1>4, ConcatIs
      <3>4. gx = h
        BY <1>1, <1>5, <3>1, <3>2, <3>3, ConcatThree
      <3>5. QED
        BY <3>3, <3>4
    <2>3. QED
      BY <2>1, <2>2
  <1>7. PICK hd : Concats(hd, h, d)
    BY DEF Concats
  <1>8. hd = k
    BY <1>1, <1>4, <1>6, <1>7, ConcatThree
  <1>9. QED
    BY <1>3, <1>6, <1>7, <1>8 DEF JoinsTo

\* JoinsTo holds for all pieces.
LEMMA LedTrailed ==
  ASSUME NEW d \in Bytes, NEW p \in Seq(Bytes)
  PROVE  p # <<>> => JoinsTo(p, d)
  <1> DEFINE T == {u \in Seq(Bytes) : u # <<>> => JoinsTo(u, d)}
  <1>1. <<>> \in T
    BY EmptySeq
  <1>2. ASSUME NEW u \in T, NEW x \in Bytes PROVE Append(u, x) \in T
    <2>1. PICK w : Adds(w, u, x)
      BY DEF Adds
    <2>2. JoinsTo(w, d)
      BY <2>1, LedTrailedMore
    <2>3. w = Append(u, x) /\ w \in Seq(Bytes)
      BY <2>1 DEF Adds
    <2>4. QED
      BY <2>2, <2>3
  <1>3. T = Seq(Bytes)
    <2>1. PICK U : U = T
      OBVIOUS
    <2>2. U \in SUBSET Seq(Bytes) /\ <<>> \in U /\ \A u \in U, x \in Bytes : Append(u, x) \in U
      BY <1>1, <1>2, <2>1
    <2>3. U = Seq(Bytes)
      BY ONLY <2>2, SequenceInduction
    <2>4. QED
      BY <2>1, <2>3
  <1>4. QED
    BY <1>3

\* Bytes can be appended to nothing.
LEMMA BytesAppended ==
  ASSUME NEW s \in Bytes
  PROVE  do_append(<<>>, s) = [bytes |-> s, ok |-> TRUE]
  <1>1. PICK e : e = <<>> /\ e \in Bytes
    BY ConcatNothing
  <1>2. DOMAIN s = 1 .. Len(s) /\ Len(s) \in Nat /\ \A i \in 1 .. Len(s) : s[i] \in Byte
    BY DEF Bytes
  <1>3. s \in Seq(Argument)
    <2>1. s \in [1 .. Len(s) -> Argument]
      <3>1. \A i \in 1 .. Len(s) : s[i] \in Argument
        BY <1>2 DEF Argument
      <3>2. s \in [1 .. Len(s) -> Byte]
        BY <1>2 DEF Bytes
      <3>3. QED
        BY <3>1, <3>2
    <2>2. QED
      BY <1>2, <2>1
  <1>4. \A i \in DOMAIN s : s[i] # Self /\ s[i] \notin {Bad, Self}
    BY <1>2, ByteAssumption
  <1>5. PICK a : a = do_append(e, s)
    OBVIOUS
  <1>6. a \in Outcome /\ a.ok /\ a.bytes = e \o s
    BY <1>1, <1>3, <1>4, <1>5, AppendFacts DEF Appends
  <1>7. a.bytes = s
    BY <1>1, <1>6, ConcatNothing DEF Concats
  <1>8. a = [bytes |-> s, ok |-> TRUE]
    BY <1>6, <1>7 DEF Outcome
  <1>9. QED
    BY <1>1, <1>5, <1>8

\* join of the pieces, the last of which has no delimiter behind it.
LEMMA JoinUndoes ==
  ASSUME NEW d \in Bytes, NEW p \in Seq(Bytes), NEW x \in Bytes, NEW s \in Bytes,
         Concats(s, FlattenSeq(Trailed(p, d)), x), NEW w, Adds(w, p, x)
  PROVE  Joined(w, d) = [bytes |-> s, ok |-> TRUE]
  <1>1. Concats(FlattenSeq(Led(w, d)), FlattenSeq(Trailed(p, d)), x)
    BY LedTrailed, LedTrailedMore
  <1>2. FlattenSeq(Led(w, d)) = s
    BY <1>1 DEF Concats
  <1>3. Joined(w, d) = do_append(<<>>, s)
    BY <1>2 DEF Joined, Led
  <1>4. QED
    BY <1>3, BytesAppended

\* Of what the loop leaves, the pieces are those it has cut off, and the rest.
LEMMA PiecesOfShapes ==
  ASSUME NEW include \in BOOLEAN, NEW p \in Seq(Bytes), NEW l \in Seq(Word), Len(l) = Len(p),
         NEW pieces, Shapes(pieces, p, l, include), NEW x \in Bytes, NEW in, in.include = include,
         NEW result, Adds(result, pieces, x), NEW w, Adds(w, p, x)
  PROVE  /\ PiecesOf(in, result) = w
         /\ include => \A i \in DOMAIN l : l[i] = result[2 * i]
         /\ ~include => result = w
  <1>1. PICK m \in Nat : m = Len(p) /\ m = Len(l) /\ DOMAIN l = 1 .. m
    OBVIOUS
  <1>2. w = Append(p, x) /\ result = Append(pieces, x)
    BY DEF Adds
  <1>3. w \in Seq(Bytes) /\ Len(w) = m + 1 /\ w[m + 1] = x /\ \A i \in 1 .. m : w[i] = p[i]
    BY <1>1, <1>2, AppendProperties
  <1>4. CASE ~include
    BY <1>2, <1>4 DEF Shapes, PiecesOf
  <1>5. CASE include
    <2>1. pieces \in Seq(Bytes) /\ Len(pieces) = 2 * m /\ \A i \in 1 .. m : pieces[2 * i - 1] = p[i] /\ pieces[2 * i] = l[i]
      BY <1>1, <1>5 DEF Shapes
    <2>2. /\ result \in Seq(Bytes) /\ Len(result) = 2 * m + 1 /\ result[2 * m + 1] = x
          /\ \A i \in 1 .. 2 * m : result[i] = pieces[i]
      BY <1>2, <2>1, AppendProperties
    <2>3. (Len(result) + 1) \div 2 = m + 1
      BY <2>2
    <2>4. PICK v : v = [i \in 1 .. m + 1 |-> result[2 * i - 1]]
      OBVIOUS
    <2>5. PiecesOf(in, result) = v
      BY <1>5, <2>3, <2>4 DEF PiecesOf
    <2>6. ASSUME NEW i \in 1 .. m + 1 PROVE v[i] = w[i]
      <3>1. CASE i = m + 1
        BY <1>3, <2>2, <2>4, <3>1
      <3>2. CASE i # m + 1
        <4>1. i \in 1 .. m /\ 2 * i - 1 \in 1 .. 2 * m
          BY <3>2
        <4>2. QED
          BY <1>3, <2>1, <2>2, <2>4, <4>1
      <3>3. QED
        BY <3>1, <3>2
    <2>7. v = w
      <3>1. \A i \in 1 .. m + 1 : w[i] \in Bytes
        BY <1>3
      <3>2. v \in [1 .. m + 1 -> Bytes]
        BY <2>4, <2>6, <3>1
      <3>3. v \in Seq(Bytes) /\ Len(v) = m + 1
        BY <3>2
      <3>4. QED
        BY <1>3, <2>6, <3>3, SeqEqual
    <2>8. ASSUME NEW i \in 1 .. m PROVE l[i] = result[2 * i]
      <3>1. 2 * i \in 1 .. 2 * m
        OBVIOUS
      <3>2. QED
        BY <2>1, <2>2, <3>1
    <2>9. QED
      BY <1>1, <1>5, <2>5, <2>7, <2>8
  <1>6. QED
    BY <1>4, <1>5

\* What is behind the position, and whether a delimiter may start there.
Rest(x, pos) == x = SubSeq(data, pos + 1, n)
Clean(whole, D, pos) == whole => \A e \in ToSet(D) : ~StartsIn(data, e, pos, n)

\* The pieces are what is said of them.
LEMMA CutsOut ==
  ASSUME data \in Bytes, NEW D \in Seq(Word), NEW include \in BOOLEAN,
         NEW r, NEW p, NEW l, NEW q, CutsTo(r, D, include, p, l, q),
         NEW x, Rest(x, r.pos), NEW w, Adds(w, p, x), NEW whole \in BOOLEAN, Clean(whole, D, r.pos)
  PROVE  CutOut(data, w, l, ToSet(D), whole) /\ Len(w) = Len(p) + 1 /\ Concats(data, FlattenSeq(q), x) /\ x \in Bytes
  <1>1. n \in Nat /\ n = Len(data)
    BY AtStart
  <1>2. /\ p \in Seq(Bytes) /\ l \in Seq(Word) /\ q \in Seq(Bytes)
        /\ Len(l) = Len(p) /\ Len(q) = Len(p)
        /\ \A i \in 1 .. Len(p) : q[i] = p[i] \o l[i]
    BY DEF CutsTo
  <1>3. /\ FlattenSeq(q) = SubSeq(data, 1, r.pos)
        /\ \A i \in 1 .. Len(p), e \in ToSet(D) : ~StartsIn(data, e, Off(q, i), Off(q, i) + Len(p[i]))
    BY DEF CutsTo
  <1>4. PICK pos \in Nat : pos = r.pos /\ pos <= n
    BY DEF CutsTo
  <1>5. PICK m \in Nat : m = Len(p) /\ m = Len(q) /\ m = Len(l) /\ DOMAIN l = 1 .. m
    BY <1>2
  <1>6. /\ SubSeq(data, 1, pos) \o x = data /\ Len(SubSeq(data, 1, pos)) = pos /\ x \in Bytes
    <2>1. PICK k \in Nat : k = n /\ k = Len(data)
      BY <1>1
    <2>2. data \in Bytes /\ 0 \in Nat /\ 0 <= pos /\ pos <= k /\ k <= k /\ k <= Len(data)
      BY <1>1, <1>4, <2>1
    <2>3. /\ SubSeq(data, 0 + 1, pos) \o SubSeq(data, pos + 1, k) = SubSeq(data, 0 + 1, k)
          /\ Len(SubSeq(data, 0 + 1, pos)) = pos - 0
      BY ONLY <2>2, PartsJoin, pos \in Nat, k \in Nat
    <2>4. SubSeq(data, pos + 1, k) \in Bytes
      BY ONLY <2>2, PartsJoin, pos \in Nat, k \in Nat
    <2>5. SubSeq(data, 0 + 1, k) = data
      BY <2>1 DEF Bytes
    <2>6. SubSeq(data, 0 + 1, pos) = SubSeq(data, 1, pos) /\ pos - 0 = pos
      OBVIOUS
    <2>7. x = SubSeq(data, pos + 1, k)
      BY ONLY <1>4, <2>1, Rest(x, r.pos) DEF Rest
    <2>8. QED
      BY ONLY <2>3, <2>4, <2>5, <2>6, <2>7
  <1>7. Concats(data, FlattenSeq(q), x) /\ Len(FlattenSeq(q)) = pos
    BY <1>3, <1>4, <1>6 DEF Concats
  <1>8. w = Append(p, x)
    BY DEF Adds
  <1>9. w \in Seq(Bytes) /\ Len(w) = m + 1 /\ w[m + 1] = x /\ \A i \in 1 .. m : w[i] = p[i]
    <2>1. p \in Seq(Bytes) /\ x \in Bytes
      BY <1>2, <1>6
    <2>2. QED
      <3>1. Len(p) = m /\ m \in Nat
        BY <1>5
      <3>2. w \in Seq(Bytes) /\ Len(w) = Len(p) + 1
        BY ONLY <1>8, <2>1, AppendProperties
      <3>3. w[Len(p) + 1] = x /\ \A i \in 1 .. Len(p) : w[i] = p[i]
        BY ONLY <1>8, <2>1, AppendProperties
      <3>4. QED
        BY ONLY <3>1, <3>2, <3>3
  <1>10. PICK cut : cut = [i \in DOMAIN l |-> w[i] \o l[i]]
    OBVIOUS
  <1>11. cut = q
    <2>1. \A i \in 1 .. m : cut[i] = q[i] /\ q[i] \in Bytes
      <3>1. ASSUME NEW i \in 1 .. m PROVE cut[i] = q[i] /\ q[i] \in Bytes
        <4>1. cut[i] = w[i] \o l[i]
          BY <1>5, <1>10
        <4>2. q[i] = p[i] \o l[i] /\ w[i] = p[i]
          BY <1>2, <1>5, <1>9
        <4>3. q[i] \in Bytes
          BY <1>2, <1>5
        <4>4. QED
          BY <4>1, <4>2, <4>3
      <3>2. QED
        BY <3>1
    <2>2. cut \in [1 .. m -> Bytes]
      BY <1>5, <1>10, <2>1
    <2>3. cut \in Seq(Bytes) /\ Len(cut) = m
      BY <2>2
    <2>4. QED
      BY <1>2, <1>5, <2>1, <2>3, SeqEqual
  <1>12. FlattenSeq(cut) \o w[Len(w)] = data
    BY <1>7, <1>9, <1>11 DEF Concats
  <1>13. ASSUME NEW i \in DOMAIN l, NEW e \in ToSet(D)
         PROVE  ~StartsIn(data, e, Len(FlattenSeq(SubSeq(cut, 1, i - 1))), Len(FlattenSeq(SubSeq(cut, 1, i - 1))) + Len(w[i]))
    <2>1. i \in 1 .. m /\ w[i] = p[i]
      BY <1>5, <1>9
    <2>2. QED
      BY <1>3, <1>5, <1>11, <2>1 DEF Off
  <1>14. ASSUME whole, NEW e \in ToSet(D)
         PROVE  ~StartsIn(data, e, Len(FlattenSeq(SubSeq(cut, 1, Len(w) - 1))), Len(data))
    <2>1. Off(q, Len(w)) = pos
      <3>1. Len(w) = Len(q) + 1
        BY <1>5, <1>9
      <3>2. QED
        BY <1>2, <1>7, <3>1, OffEnd
    <2>2. QED
      BY <1>1, <1>4, <1>11, <1>14, <2>1 DEF Off, Clean
  <1>15. CutOut(data, w, l, ToSet(D), whole)
    BY <1>10, <1>12, <1>13, <1>14 DEF CutOut
  <1>16. QED
    BY <1>5, <1>6, <1>7, <1>9, <1>15

\* The delimiters behind the pieces, where there is one only.
LEMMA OneDelim ==
  ASSUME NEW D \in Seq(Word), Len(D) = 1,
         NEW r, NEW include, NEW p, NEW l, NEW q, CutsTo(r, D, include, p, l, q)
  PROVE  D[1] \in Bytes /\ q = Trailed(p, D[1])
  <1>1. /\ p \in Seq(Bytes) /\ q \in Seq(Bytes) /\ Len(q) = Len(p)
        /\ \A i \in 1 .. Len(p) : q[i] = p[i] \o l[i] /\ l[i] \in ToSet(D)
    BY DEF CutsTo
  <1>2. D[1] \in Word /\ DOMAIN D = 1 .. 1
    OBVIOUS
  <1>3. PICK d \in Word : d = D[1]
    BY <1>2
  <1>4. \A e \in ToSet(D) : e = d
    BY <1>2, <1>3 DEF ToSet
  <1>5. PICK m \in Nat : m = Len(p) /\ DOMAIN p = 1 .. m
    BY <1>1
  <1>6. PICK t : t = Trailed(p, d)
    OBVIOUS
  <1>7. t = [i \in 1 .. m |-> p[i] \o d]
    BY <1>5, <1>6 DEF Trailed
  <1>8. ASSUME NEW i \in 1 .. m PROVE t[i] = q[i] /\ q[i] \in Bytes
    <2>1. l[i] = d /\ q[i] = p[i] \o l[i]
      BY <1>1, <1>4, <1>5
    <2>2. t[i] = p[i] \o d
      BY <1>7
    <2>3. q[i] \in Bytes
      BY <1>1, <1>5
    <2>4. QED
      BY <2>1, <2>2, <2>3
  <1>9. t = q
    <2>1. t \in [1 .. m -> Bytes]
      BY <1>7, <1>8
    <2>2. t \in Seq(Bytes) /\ Len(t) = m
      BY <2>1
    <2>3. QED
      BY <1>1, <1>5, <1>8, <2>2, SeqEqual
  <1>10. QED
    BY <1>3, <1>6, <1>9, WordLength

\* split cuts the data at the delimiters, and only there; join undoes it.
LEMMA SplitSound ==
  ASSUME data \in Bytes, NEW delims \in Seq(Seq(Byte \cup {Bad})), NEW count \in Nat \cup {None},
         NEW include \in BOOLEAN, Split(delims, count, include)
  PROVE  CallSound' /\ data' = data
  <1>1. PICK D : D = Delimiters(delims)
    OBVIOUS
  <1>2. PICK in : in = [delims |-> D, count |-> count, include |-> include]
    OBVIOUS
  <1>3. in.delims = D /\ in.count = count /\ in.include = include
    BY <1>2
  <1>4. PICK result, ok : /\ result = IF BadDelims(delims) THEN None ELSE Pieces(D, count, include)
                          /\ ok = ~BadDelims(delims)
    OBVIOUS
  <1>5. Called("split", in, data, result, ok)
    BY <1>1, <1>2, <1>4 DEF Split
  <1>6. CallIs("split", in, data, result, ok)
    BY <1>5, CalledIs
  <1>7. call'.op = "split" /\ call'.input = in /\ call'.before = data /\ call'.result = result /\ call'.ok = ok /\ data' = data
    BY <1>6 DEF CallIs
  <1>8. "split" \notin SpliceOps /\ "split" \notin PositionOps /\ "split" \notin {"reverse", "sort"} /\ "split" \notin LoopOp /\ "split" \notin CuttingOps
    BY DEF SpliceOps, PositionOps, LoopOp, CuttingOps
  <1>9. Splices' /\ Positions' /\ Rearranges' /\ Answers'
    BY <1>6, <1>8, NotSpliced, NotPlaced, NotOthers
  <1>10. FailureKeepsHead'
    <2>1. Begins(data, data)
      <3>1. Len(data) \in Nat
        BY DEF Bytes
      <3>2. QED
        BY <3>1 DEF Begins
    <2>2. QED
      BY <1>6, <1>8, <2>1, KeepsAll
  <1>11. SplitRejoins'
    <2>1. CASE BadDelims(delims)
      BY <1>4, <1>6, <2>1, NotOthers
    <2>2. CASE ~BadDelims(delims)
      <3>1. D \in Seq(Word) /\ D # <<>>
        BY <1>1, <2>2, GoodDelims
      <3>2. PICK r, p, l, q : Splits(result, D, count, include, r, p, l, q)
        BY <1>4, <2>2, <3>1, PiecesAre
      <3>3. /\ CutsTo(r, D, include, p, l, q)
            /\ count # None => Len(p) + 1 <= Greatest(count, 1)
            /\ Len(p) + 1 # count /\ count # 0 => \A e \in ToSet(D) : ~StartsIn(data, e, r.pos, n)
        BY <3>2 DEF Splits
      <3>4. PICK x : x = SubSeq(data, r.pos + 1, n) /\ Adds(result, r.pieces, x)
        BY <3>2 DEF Splits, Adds
      <3>5. PICK w : Adds(w, p, x)
        BY DEF Adds
      <3>6. /\ p \in Seq(Bytes) /\ l \in Seq(Word) /\ Len(l) = Len(p) /\ Shapes(r.pieces, p, l, include)
            /\ \A i \in 1 .. Len(p) : l[i] \in ToSet(D)
        BY <3>3 DEF CutsTo
      <3>7. PICK m \in Nat : m = Len(p) /\ DOMAIN l = 1 .. m
        BY <3>6
      <3>8. PICK whole \in BOOLEAN : whole <=> m + 1 # count /\ count # 0
        OBVIOUS
      <3>9. /\ CutOut(data, w, l, ToSet(D), whole) /\ Len(w) = m + 1
            /\ Concats(data, FlattenSeq(q), x) /\ x \in Bytes
        <4>1. Clean(whole, D, r.pos)
          BY <3>3, <3>7, <3>8 DEF Clean
        <4>2. CutsTo(r, D, include, p, l, q) /\ D \in Seq(Word)
          BY <3>1, <3>3
        <4>3. Rest(x, r.pos)
          BY <3>4 DEF Rest
        <4>4. /\ CutOut(data, w, l, ToSet(D), whole) /\ Len(w) = Len(p) + 1
              /\ Concats(data, FlattenSeq(q), x) /\ x \in Bytes
          BY <3>5, <4>1, <4>2, <4>3, CutsOut
        <4>5. QED
          BY <3>7, <4>4
      <3>10. /\ PiecesOf(in, result) = w
             /\ include => \A i \in DOMAIN l : l[i] = result[2 * i]
             /\ ~include => result = w
        BY <1>3, <3>4, <3>5, <3>6, <3>9, PiecesOfShapes
      <3>11. count # None => Len(w) <= Greatest(count, 1)
        BY <3>3, <3>7, <3>9
      <3>12. l \in [1 .. Len(w) - 1 -> ToSet(D)]
        <4>1. Len(w) - 1 = m
          BY <3>7, <3>9
        <4>2. l \in [1 .. m -> ToSet(D)]
          BY <3>6, <3>7
        <4>3. QED
          BY <4>1, <4>2
      <3>13. CutOut(data, w, l, ToSet(D), Len(w) # count /\ count # 0)
        <4>1. whole = (Len(w) # count /\ count # 0)
          BY <3>8, <3>9
        <4>2. QED
          BY <3>9, <4>1
      <3>14. ASSUME ~include, Len(D) = 1 PROVE Joined(result, D[1]) = [bytes |-> data, ok |-> TRUE]
        <4>1. D[1] \in Bytes /\ q = Trailed(p, D[1])
          BY <3>1, <3>3, <3>14, OneDelim
        <4>2. PICK d \in Bytes : d = D[1]
          BY <4>1
        <4>3. Concats(data, FlattenSeq(Trailed(p, d)), x)
          BY <3>9, <4>1, <4>2
        <4>4. Joined(w, d) = [bytes |-> data, ok |-> TRUE]
          BY <3>5, <3>6, <3>9, <4>3, JoinUndoes
        <4>5. QED
          BY <3>10, <3>14, <4>2, <4>4
      <3>15. \E d \in [1 .. Len(w) - 1 -> ToSet(D)] :
               /\ include => \A i \in DOMAIN d : d[i] = result[2 * i]
               /\ CutOut(data, w, d, ToSet(D), Len(w) # count /\ count # 0)
        BY <3>10, <3>12, <3>13
      <3>16. QED
        BY <1>3, <1>7, <3>10, <3>11, <3>14, <3>15 DEF SplitRejoins
    <2>3. QED
      BY <2>1, <2>2
  <1>12. QED
    BY <1>7, <1>9, <1>10, <1>11 DEF CallSound

\* A call has been made by one of the methods.
CallMade == \E op, input, after, result : \E ok \in BOOLEAN : Called(op, input, after, result, ok)

\* What all calls have in common.
LEMMA MadeIs ==
  ASSUME CallMade
  PROVE  /\ call # None => FALSE
         /\ loop = None /\ loop' = None
         /\ call'.before = data /\ call'.ok \in BOOLEAN /\ Len(data') <= MaxLength
  <1>1. PICK op, input, after, result, ok : Called(op, input, after, result, ok) /\ ok \in BOOLEAN
    BY DEF CallMade
  <1>2. QED
    BY <1>1 DEF Called, Idle

\* The array among its arguments is replaced by its bytes.
LEMMA CopiedIs ==
  ASSUME data \in Bytes, NEW args \in Seq(Argument)
  PROVE  Copied(args) \in Seq(Argument)
  <1>1. PICK t : t = [i \in DOMAIN args |-> IF args[i] = Self THEN data ELSE <<args[i]>>]
    OBVIOUS
  <1>2. PICK k \in Nat : k = Len(args) /\ DOMAIN args = 1 .. k
    OBVIOUS
  <1>3. data \in Seq(Argument)
    BY DEF Bytes, Argument
  <1>4. ASSUME NEW i \in 1 .. k PROVE t[i] \in Seq(Argument)
    <2>1. args[i] \in Argument
      BY <1>2
    <2>2. t[i] = IF args[i] = Self THEN data ELSE <<args[i]>>
      BY <1>1, <1>2
    <2>3. <<args[i]>> \in Seq(Argument)
      BY <2>1
    <2>4. QED
      BY <1>3, <2>2, <2>3
  <1>5. t \in Seq(Seq(Argument))
    <2>1. t \in [1 .. k -> Seq(Argument)]
      BY <1>1, <1>2, <1>4
    <2>2. QED
      BY <2>1
  <1>6. FlattenSeq(t) \in Seq(Argument)
    BY <1>5, FlatFacts
  <1>7. QED
    BY <1>1, <1>6 DEF Copied

\* join succeeds or fails as do_append does.
LEMMA JoinedIs ==
  ASSUME NEW elements \in Seq(Seq(Argument)), NEW d \in Seq(Argument)
  PROVE  Joined(elements, d) \in Outcome
  <1>1. PICK t : t = [i \in DOMAIN elements |-> (IF i = 1 THEN <<>> ELSE d) \o elements[i]]
    OBVIOUS
  <1>2. PICK k \in Nat : k = Len(elements) /\ DOMAIN elements = 1 .. k
    OBVIOUS
  <1>3. ASSUME NEW i \in 1 .. k PROVE t[i] \in Seq(Argument)
    <2>1. PICK e \in Seq(Argument) : e = elements[i]
      BY <1>2
    <2>2. PICK h : h = IF i = 1 THEN <<>> ELSE d
      OBVIOUS
    <2>3. h \in Seq(Argument)
      BY <2>2, EmptySeq
    <2>4. t[i] = h \o e
      BY <1>1, <1>2, <2>1, <2>2
    <2>5. QED
      BY <2>3, <2>4
  <1>4. t \in Seq(Seq(Argument))
    <2>1. t \in [1 .. k -> Seq(Argument)]
      BY <1>1, <1>2, <1>3
    <2>2. QED
      BY <2>1
  <1>5. PICK f : f = FlattenSeq(t)
    OBVIOUS
  <1>6. f \in Seq(Argument)
    BY <1>4, <1>5, FlatFacts
  <1>7. <<>> \in Bytes
    BY DEF Bytes
  <1>8. do_append(<<>>, f) \in Outcome
    BY <1>6, <1>7, AppendFacts DEF Appends
  <1>9. QED
    BY <1>1, <1>5, <1>8 DEF Joined

\* The sets that arguments are taken from.
LEMMA FewIs ==
  ASSUME NEW S, NEW k \in Nat, NEW s \in SeqOf(S, k)
  PROVE  s \in Seq(S)
  <1>1. PICK m \in 0 .. k : s \in [1 .. m -> S]
    BY DEF SeqOf
  <1>2. m \in Nat
    OBVIOUS
  <1>3. QED
    BY <1>1, <1>2

\* What the calls are made with.
LEMMA InputsIn ==
  /\ \A args \in Arguments : args \in Seq(Argument)
  /\ \A args \in SeqOf(Byte \cup {Bad}, 2) : args \in Seq(Argument)
  /\ \A s \in SeqOf(SeqOf(Byte \cup {Bad, Self}, 1), 2) : s \in Seq(Seq(Argument))
  /\ \A s \in Arrays : s \in Bytes
  /\ \A b \in Position : b \in Int
  /\ \A e \in Optional : e \in IntOrNone
  /\ \A b \in Byte : <<b>> \in Seq(Argument)
  /\ \A delims \in Delims : delims \in Seq(Seq(Byte \cup {Bad}))
  <1>1. \A args \in Arguments : args \in Seq(Argument)
    BY FewIs DEF Arguments, Argument
  <1>2. ASSUME NEW args \in SeqOf(Byte \cup {Bad}, 2) PROVE args \in Seq(Argument)
    <2>1. args \in Seq(Byte \cup {Bad})
      BY FewIs
    <2>2. QED
      BY <2>1 DEF Argument
  <1>3. ASSUME NEW s \in SeqOf(SeqOf(Byte \cup {Bad, Self}, 1), 2) PROVE s \in Seq(Seq(Argument))
    <2>1. PICK T : T = SeqOf(Byte \cup {Bad, Self}, 1)
      OBVIOUS
    <2>2. s \in Seq(T)
      BY <2>1, FewIs
    <2>3. \A t \in T : t \in Seq(Argument)
      BY <2>1, FewIs DEF Argument
    <2>4. QED
      BY <2>2, <2>3
  <1>4. \A s \in Arrays : s \in Bytes
    BY FewIs, BoundAssumption DEF Arrays, Bytes
  <1>5. \A b \in Position : b \in Int
    BY BoundAssumption DEF Position
  <1>6. \A e \in Optional : e \in IntOrNone
    BY <1>5 DEF Optional, IntOrNone
  <1>7. \A b \in Byte : <<b>> \in Seq(Argument)
    BY DEF Argument
  <1>8. \A delims \in Delims : delims \in Seq(Seq(Byte \cup {Bad}))
    BY DelimAssumption
  <1>9. QED
    BY <1>1, <1>2, <1>3, <1>4, <1>5, <1>6, <1>7, <1>8

\* A method that changes the array makes a call.
LEMMA ChangedMade ==
  ASSUME NEW op, NEW input, NEW a \in Outcome, NEW result, Changed(op, input, a, result)
  PROVE  CallMade
  <1>1. a.ok \in BOOLEAN
    BY DEF Outcome
  <1>2. PICK r : r = IF a.ok THEN result ELSE None
    OBVIOUS
  <1>3. Called(op, input, a.bytes, r, a.ok)
    BY <1>2 DEF Changed
  <1>4. QED
    BY <1>1, <1>3 DEF CallMade

\* So do slice, substr and substring.
LEMMA ReadMade ==
  ASSUME NEW b, NEW e, Slice(b, e) \/ Substr(b, e) \/ Substring(b, e)
  PROVE  CallMade
  BY DEF Slice, Substr, Substring, CallMade

\* So do the searches.
LEMMA SearchMade ==
  ASSUME NEW op, NEW x, NEW s, NEW e, Search(op, x, s, e)
  PROVE  CallMade
  <1>1. PICK at : at = {i \in SearchedPart(s, e) : data[i + 1] = x}
    OBVIOUS
  <1>2. PICK which : which = IF at = {} THEN -1 ELSE IF op = "indexOf" THEN Min(at) ELSE Max(at)
    OBVIOUS
  <1>3. \/ Called(op, <<x, s, e>>, data, None, FALSE)
        \/ Called(op, <<x, s, e>>, data, which, TRUE)
    BY <1>1, <1>2 DEF Search
  <1>4. QED
    BY <1>3 DEF CallMade

\* So does split.
LEMMA SplitMade ==
  ASSUME NEW delims, NEW count, NEW include, Split(delims, count, include)
  PROVE  CallMade
  <1>1. PICK in : in = [delims |-> Delimiters(delims), count |-> count, include |-> include]
    OBVIOUS
  <1>2. PICK result, ok : /\ result = IF BadDelims(delims) THEN None ELSE Pieces(Delimiters(delims), count, include)
                          /\ ok = ~BadDelims(delims)
    OBVIOUS
  <1>3. ok \in BOOLEAN
    BY <1>2 DEF BadDelims
  <1>4. Called("split", in, data, result, ok)
    BY <1>1, <1>2 DEF Split
  <1>5. QED
    BY <1>3, <1>4 DEF CallMade

\* All methods that change nothing make a call.
LEMMA AskMade ==
  ASSUME data \in Bytes, Inspect
  PROVE  CallMade
  <1>1. ASSUME NEW b \in Position, NEW e \in Optional, Slice(b, e) \/ Substr(b, e) \/ Substring(b, e)
        PROVE  CallMade
    BY <1>1, ReadMade
  <1>2. ASSUME NEW x, NEW s, NEW e, IndexOf(x, s, e) \/ LastIndexOf(x, s, e)
        PROVE  CallMade
    BY <1>2, SearchMade DEF IndexOf, LastIndexOf
  <1>3. ASSUME NEW delims, NEW count, NEW include, Split(delims, count, include)
        PROVE  CallMade
    BY <1>3, SplitMade
  <1>4. ASSUME NEW args \in Arguments, Concat(args)
        PROVE  CallMade
    <2>1. Copied(args) \in Seq(Argument)
      BY CopiedIs, InputsIn
    <2>2. PICK a : a = do_append(data, Copied(args))
      OBVIOUS
    <2>3. a.ok \in BOOLEAN
      BY <2>1, <2>2, AppendFacts DEF Appends, Outcome
    <2>4. PICK result : result = IF a.ok THEN a.bytes ELSE None
      OBVIOUS
    <2>5. Called("concat", args, data, result, a.ok)
      BY <1>4, <2>2, <2>4 DEF Concat
    <2>6. QED
      BY <2>3, <2>5 DEF CallMade
  <1>5. ASSUME NEW i, Get(i) \/ NewOfSize(i)
        PROVE  CallMade
    BY <1>5 DEF Get, NewOfSize, CallMade
  <1>6. ASSUME NEW args \in SeqOf(Byte \cup {Bad}, 2), NewOfBytes(args)
        PROVE  CallMade
    <2>1. args \in Seq(Argument)
      BY InputsIn
    <2>2. <<>> \in Bytes
      BY DEF Bytes
    <2>3. PICK a : a = do_append(<<>>, args)
      OBVIOUS
    <2>4. a.ok \in BOOLEAN
      BY <2>1, <2>3, <2>2, AppendFacts DEF Appends, Outcome
    <2>5. PICK result : result = IF a.ok THEN a.bytes ELSE None
      OBVIOUS
    <2>6. Called("new", args, data, result, a.ok)
      BY <1>6, <2>3, <2>5 DEF NewOfBytes
    <2>7. QED
      BY <2>4, <2>6 DEF CallMade
  <1>7. ASSUME NEW bytes, NewOfText(bytes)
        PROVE  CallMade
    BY <1>7 DEF NewOfText, CallMade
  <1>8. ASSUME NEW elements \in SeqOf(SeqOf(Byte \cup {Bad, Self}, 1), 2), NEW b \in Byte, Join(elements, <<b>>)
        PROVE  CallMade
    <2>1. elements \in Seq(Seq(Argument)) /\ <<b>> \in Seq(Argument)
      BY InputsIn
    <2>2. PICK d \in Seq(Argument) : d = <<b>>
      BY <2>1
    <2>3. PICK k \in Nat : k = Len(elements) /\ DOMAIN elements = 1 .. k
      BY <2>1
    <2>4. PICK t : t = [i \in DOMAIN elements |-> Copied(elements[i])]
      OBVIOUS
    <2>5. \A i \in 1 .. k : t[i] \in Seq(Argument)
      BY <2>1, <2>3, <2>4, CopiedIs
    <2>6. t \in Seq(Seq(Argument))
      <3>1. t \in [1 .. k -> Seq(Argument)]
        BY <2>3, <2>4, <2>5
      <3>2. QED
        BY <3>1
    <2>7. PICK a : a = Joined(t, d)
      OBVIOUS
    <2>8. a.ok \in BOOLEAN
      BY <2>6, <2>7, JoinedIs DEF Outcome
    <2>9. PICK result, in : result = (IF a.ok THEN a.bytes ELSE None) /\ in = <<elements, d>>
      OBVIOUS
    <2>10. Called("join", in, data, result, a.ok)
      BY <1>8, <2>2, <2>4, <2>7, <2>9 DEF Join
    <2>11. QED
      BY <2>8, <2>10 DEF CallMade
  <1>9. ASSUME Copy
        PROVE  CallMade
    BY <1>9 DEF Copy, CallMade
  <1>10. QED
    BY <1>1, <1>2, <1>3, <1>4, <1>5, <1>6, <1>7, <1>8, <1>9 DEF Inspect

\* All methods that change the array make a call.
LEMMA ChangeMade ==
  ASSUME data \in Bytes, Change
  PROVE  CallMade
  <1>1. ASSUME NEW args \in Arguments, append(args) PROVE CallMade
    <2>1. PICK a : a = do_append(data, args)
      OBVIOUS
    <2>2. a \in Outcome
      BY <2>1, AppendFacts, InputsIn DEF Appends
    <2>3. Changed("append", args, a, Len(a.bytes))
      BY <1>1, <2>1 DEF append
    <2>4. QED
      BY <2>2, <2>3, ChangedMade
  <1>2. ASSUME NEW args \in Arguments, prepend(args) PROVE CallMade
    <2>1. PICK r : r = [first |-> 0, last |-> 0]
      OBVIOUS
    <2>2. PICK a : a = Displaced(r, args)
      OBVIOUS
    <2>3. a \in Outcome
      BY <2>1, <2>2, AtStart, DisplacedFacts, InputsIn
    <2>4. Changed("prepend", args, a, Len(a.bytes))
      BY <1>2, <2>1, <2>2 DEF prepend
    <2>5. QED
      BY <2>3, <2>4, ChangedMade
  <1>3. ASSUME NEW b, NEW e, erase(b, e) PROVE CallMade
    BY <1>3 DEF erase, CallMade
  <1>4. ASSUME NEW b \in Position, NEW args \in Arguments, insert(b, args) PROVE CallMade
    <2>1. b \in Int /\ b \in IntOrNone /\ b >= -n /\ args \in Seq(Argument)
      BY <1>4, InputsIn DEF insert, IntOrNone
    <2>2. PICK r, f, l : r = BeginEnd(b, b) /\ RangeIs(r, f, l)
      BY <2>1, BeginEndFits
    <2>3. PICK a : a = Displaced(r, args)
      OBVIOUS
    <2>4. a \in Outcome
      BY <2>1, <2>2, <2>3, DisplacedFacts
    <2>5. Changed("insert", <<b, args>>, a, Len(a.bytes))
      BY <1>4, <2>2, <2>3 DEF insert
    <2>6. QED
      BY <2>4, <2>5, ChangedMade
  <1>5. ASSUME NEW b \in Position, NEW e \in Optional, NEW args \in Arguments, displace(b, e, args) PROVE CallMade
    <2>1. b \in Int /\ e \in IntOrNone /\ b >= -n /\ args \in Seq(Argument)
      BY <1>5, InputsIn DEF displace
    <2>2. PICK r, f, l : r = BeginEnd(b, e) /\ RangeIs(r, f, l)
      BY <2>1, BeginEndFits
    <2>3. PICK a : a = Displaced(r, args)
      OBVIOUS
    <2>4. a \in Outcome
      BY <2>1, <2>2, <2>3, DisplacedFacts
    <2>5. Changed("displace", <<b, e, args>>, a, Len(a.bytes))
      BY <1>5, <2>2, <2>3 DEF displace
    <2>6. QED
      BY <2>4, <2>5, ChangedMade
  <1>6. ASSUME NEW b \in Position, NEW e \in Optional, NEW args \in Arguments, splice(b, e, args) PROVE CallMade
    <2>1. b \in Int /\ e \in IntOrNone /\ args \in Seq(Argument)
      BY <1>6, InputsIn
    <2>2. PICK q, f, l : q = StartLength(b, e) /\ RangeIs(q, f, l)
      BY <2>1, StartLengthFits
    <2>3. q.first = f /\ q.last = l /\ f \in Int /\ f >= -n /\ l \in IntOrNone
      <3>1. n \in Nat
        BY AtStart
      <3>2. QED
        BY <2>2, <3>1 DEF RangeIs, IntOrNone
    <2>4. PICK r, g, h : r = BeginEnd(f, l) /\ RangeIs(r, g, h)
      BY <2>3, BeginEndFits
    <2>5. PICK a : a = Displaced(r, args)
      OBVIOUS
    <2>6. a \in Outcome
      BY <2>1, <2>4, <2>5, DisplacedFacts
    <2>7. Changed("splice", <<b, e, args>>, a, Part(data, q))
      BY <1>6, <2>2, <2>3, <2>4, <2>5 DEF splice
    <2>8. QED
      BY <2>6, <2>7, ChangedMade
  <1>7. ASSUME NEW i, NEW x, SetElement(i, x) PROVE CallMade
    BY <1>7 DEF SetElement, CallMade
  <1>8. ASSUME NEW l, set_length(l) PROVE CallMade
    BY <1>8 DEF set_length, CallMade
  <1>9. ASSUME pop \/ shift \/ reverse \/ sort \/ SortBy PROVE CallMade
    BY <1>9 DEF pop, shift, reverse, sort, SortBy, CallMade
  <1>10. QED
    BY <1>1, <1>2, <1>3, <1>4, <1>5, <1>6, <1>7, <1>8, <1>9 DEF Change

\* A method that changes nothing is sound.
LEMMA AskSound ==
  ASSUME data \in Bytes, Inspect
  PROVE  CallSound' /\ data' = data
  <1>1. ASSUME NEW b \in Position, NEW e \in Optional, Slice(b, e) \/ Substr(b, e) \/ Substring(b, e)
        PROVE  CallSound' /\ data' = data
    BY <1>1, InputsIn, SliceSound, SubstrSound, SubstringSound
  <1>2. ASSUME NEW x, NEW s \in Optional, NEW e \in Optional, IndexOf(x, s, e) \/ LastIndexOf(x, s, e)
        PROVE  CallSound' /\ data' = data
    BY <1>2, InputsIn, SearchSound DEF IndexOf, LastIndexOf
  <1>3. ASSUME NEW delims \in Delims, NEW count \in {None, 0, 1, 2}, NEW include \in BOOLEAN, Split(delims, count, include)
        PROVE  CallSound' /\ data' = data
    <2>1. delims \in Seq(Seq(Byte \cup {Bad})) /\ count \in Nat \cup {None}
      BY InputsIn
    <2>2. QED
      BY <1>3, <2>1, SplitSound
  <1>4. ASSUME NEW i \in Position, Get(i)
        PROVE  CallSound' /\ data' = data
    BY <1>4, InputsIn, GetSound
  <1>5. ASSUME \/ Copy \/ \E args : Concat(args) \/ NewOfSize(args) \/ NewOfBytes(args) \/ NewOfText(args)
               \/ \E elements, d : Join(elements, d)
        PROVE  CallSound' /\ data' = data
    BY <1>5, PlainAsk
  <1>6. QED
    BY <1>1, <1>2, <1>3, <1>4, <1>5 DEF Inspect

\* A method that changes the array is sound.
LEMMA ChangeSound ==
  ASSUME data \in Bytes, Change
  PROVE  CallSound' /\ data' \in Bytes
  <1>1. ASSUME NEW args \in Arguments, append(args) \/ prepend(args) PROVE CallSound' /\ data' \in Bytes
    BY <1>1, InputsIn, AppendSound, PrependSound
  <1>2. ASSUME NEW b \in Position, NEW e \in Optional, erase(b, e) PROVE CallSound' /\ data' \in Bytes
    BY <1>2, InputsIn, EraseSound
  <1>3. ASSUME NEW b \in Position, NEW args \in Arguments, insert(b, args) PROVE CallSound' /\ data' \in Bytes
    BY <1>3, InputsIn, InsertSound
  <1>4. ASSUME NEW b \in Position, NEW e \in Optional, NEW args \in Arguments, displace(b, e, args) \/ splice(b, e, args)
        PROVE  CallSound' /\ data' \in Bytes
    BY <1>4, InputsIn, DisplaceSound, SpliceSound
  <1>5. ASSUME NEW i \in Position, NEW x \in Byte \cup {Bad}, SetElement(i, x) PROVE CallSound' /\ data' \in Bytes
    BY <1>5, InputsIn, PlainChange
  <1>6. ASSUME NEW l \in 0 .. MaxLength, set_length(l) PROVE CallSound' /\ data' \in Bytes
    <2>1. l \in Nat
      BY BoundAssumption
    <2>2. QED
      BY <1>6, <2>1, PlainChange
  <1>7. ASSUME pop \/ shift PROVE CallSound' /\ data' \in Bytes
    BY <1>7, PlainChange
  <1>8. ASSUME reverse \/ sort \/ SortBy PROVE CallSound' /\ data' \in Bytes
    BY <1>8, RearrangeSound
  <1>9. QED
    BY <1>1, <1>2, <1>3, <1>4, <1>5, <1>6, <1>7, <1>8 DEF Change

\* What filter keeps of the bytes that have been answered for.
Judgement == [byte : Byte, kept : BOOLEAN]
Judged(s, a) == [i \in 1 .. Len(a) |-> [byte |-> s[i], kept |-> a[i] = TRUE]]
KeptOf(s, a) == FoldLeft(Kept, <<>>, Judged(s, a))
Yes(a) == {i \in DOMAIN a : a[i] = TRUE}

KeptFold == INSTANCE FoldLemmas WITH op <- Kept

\* filter, a byte at a time.
LEMMA KeptFolds ==
  /\ FoldLeft(Kept, <<>>, <<>>) = <<>>
  /\ \A s \in Seq(Judgement), e \in Judgement :
       FoldLeft(Kept, <<>>, Append(s, e)) = Kept(FoldLeft(Kept, <<>>, s), e)
  <1>1. PICK z : z = <<>>
    OBVIOUS
  <1>2. \A s : FoldLeft(Kept, z, s) = KeptFold!Fold(z, s)
    BY DEF FoldLeft, MapThenFoldSet, Max, KeptFold!Fold, KeptFold!Folding, KeptFold!Largest
  <1>3. KeptFold!Fold(z, <<>>) = z
    BY KeptFold!FoldNothing
  <1>4. ASSUME NEW s \in Seq(Judgement), NEW e \in Judgement
        PROVE  FoldLeft(Kept, z, Append(s, e)) = Kept(FoldLeft(Kept, z, s), e)
    <2>1. KeptFold!Fold(z, Append(s, e)) = Kept(KeptFold!Fold(z, s), e)
      BY KeptFold!FoldMore
    <2>2. QED
      BY <1>2, <2>1
  <1>5. QED
    BY <1>1, <1>2, <1>3, <1>4

\* One answer more.
LEMMA JudgedMore ==
  ASSUME NEW s \in Bytes, NEW a \in Seq(BOOLEAN), Len(a) < Len(s), NEW yes \in BOOLEAN,
         NEW t, Adds(t, a, yes), NEW e, e = [byte |-> s[Len(a) + 1], kept |-> yes]
  PROVE  Adds(Judged(s, t), Judged(s, a), e) /\ Judged(s, a) \in Seq(Judgement) /\ e \in Judgement
  <1>1. PICK k \in Nat : k = Len(a) /\ k + 1 <= Len(s)
    BY DEF Bytes
  <1>2. Len(t) = k + 1 /\ t[k + 1] = yes /\ \A i \in 1 .. k : t[i] = a[i]
    BY <1>1, PushOne DEF Adds
  <1>3. \A i \in 1 .. k + 1 : s[i] \in Byte
    BY <1>1 DEF Bytes
  <1>4. \A i \in 1 .. k : a[i] \in BOOLEAN
    BY <1>1
  <1>5. PICK u : u = Judged(s, a)
    OBVIOUS
  <1>6. u = [i \in 1 .. k |-> [byte |-> s[i], kept |-> a[i] = TRUE]]
    BY <1>1, <1>5 DEF Judged
  <1>7. \A i \in 1 .. k : [byte |-> s[i], kept |-> a[i] = TRUE] \in Judgement
    BY <1>3 DEF Judgement
  <1>8. u \in Seq(Judgement) /\ Len(u) = k
    BY <1>6, <1>7
  <1>9. e \in Judgement
    BY <1>1, <1>3 DEF Judgement
  <1>10. PICK v : v = Append(u, e)
    OBVIOUS
  <1>11. v \in Seq(Judgement) /\ Len(v) = k + 1 /\ v[k + 1] = e /\ \A i \in 1 .. k : v[i] = u[i]
    BY <1>8, <1>9, <1>10, PushOne
  <1>12. PICK w : w = Judged(s, t)
    OBVIOUS
  <1>13. w = [i \in 1 .. k + 1 |-> [byte |-> s[i], kept |-> t[i] = TRUE]]
    BY <1>2, <1>12 DEF Judged
  <1>14. ASSUME NEW i \in 1 .. k + 1 PROVE w[i] = v[i]
    <2>1. w[i] = [byte |-> s[i], kept |-> t[i] = TRUE]
      BY <1>13
    <2>2. CASE i \in 1 .. k
      <3>1. t[i] = a[i] /\ v[i] = u[i] /\ u[i] = [byte |-> s[i], kept |-> a[i] = TRUE]
        BY <1>2, <1>6, <1>11, <2>2
      <3>2. QED
        BY <2>1, <3>1
    <2>3. CASE i = k + 1
      <3>1. t[i] = yes /\ v[i] = e /\ (yes = TRUE) = yes
        BY <1>2, <1>11, <2>3
      <3>2. w[i] = [byte |-> s[i], kept |-> yes]
        BY <2>1, <3>1
      <3>3. e = [byte |-> s[i], kept |-> yes]
        BY <1>1, <2>3
      <3>4. QED
        BY <3>1, <3>2, <3>3
    <2>4. QED
      BY <2>2, <2>3
  <1>15. w = v
    <2>1. \A i \in 1 .. k + 1 : v[i] \in Judgement
      BY <1>11
    <2>2. w \in [1 .. k + 1 -> Judgement]
      BY <1>13, <1>14, <2>1
    <2>3. w \in Seq(Judgement) /\ Len(w) = k + 1
      BY <2>2
    <2>4. QED
      BY <1>11, <1>14, <2>3, SeqEqual
  <1>16. QED
    BY <1>5, <1>8, <1>9, <1>10, <1>12, <1>15 DEF Adds

\* filter keeps the byte of one answer more if it is yes.
LEMMA KeptMore ==
  ASSUME NEW s \in Bytes, NEW a \in Seq(BOOLEAN), Len(a) < Len(s), NEW yes \in BOOLEAN,
         NEW t, Adds(t, a, yes)
  PROVE  /\ yes => Adds(KeptOf(s, t), KeptOf(s, a), s[Len(a) + 1])
         /\ ~yes => KeptOf(s, t) = KeptOf(s, a)
  <1>1. PICK e : e = [byte |-> s[Len(a) + 1], kept |-> yes]
    OBVIOUS
  <1>2. Adds(Judged(s, t), Judged(s, a), e) /\ Judged(s, a) \in Seq(Judgement) /\ e \in Judgement
    BY <1>1, JudgedMore
  <1>3. KeptOf(s, t) = Kept(KeptOf(s, a), e)
    BY <1>2, KeptFolds DEF Adds, KeptOf
  <1>4. PICK r, b : r = KeptOf(s, a) /\ b = s[Len(a) + 1]
    OBVIOUS
  <1>5. e.byte = b /\ e.kept = yes
    BY <1>1, <1>4
  <1>6. Kept(r, e) = IF yes THEN Append(r, b) ELSE r
    BY <1>5 DEF Kept
  <1>7. QED
    BY <1>3, <1>4, <1>6 DEF Adds

\* count counts it.
LEMMA YesMore ==
  ASSUME NEW a \in Seq(BOOLEAN), NEW yes \in BOOLEAN, NEW t, Adds(t, a, yes)
  PROVE  /\ Cardinality(Yes(a)) \in Nat
         /\ yes => Cardinality(Yes(t)) = Cardinality(Yes(a)) + 1
         /\ ~yes => Cardinality(Yes(t)) = Cardinality(Yes(a))
  <1>1. PICK k \in Nat : k = Len(a) /\ DOMAIN a = 1 .. k
    OBVIOUS
  <1>2. Len(t) = k + 1 /\ t[k + 1] = yes /\ (\A i \in 1 .. k : t[i] = a[i]) /\ DOMAIN t = 1 .. k + 1
    <2>1. t \in Seq(BOOLEAN) /\ Len(t) = k + 1 /\ t[k + 1] = yes /\ \A i \in 1 .. k : t[i] = a[i]
      BY <1>1, PushOne DEF Adds
    <2>2. QED
      BY <2>1
  <1>3. PICK A, B : A = Yes(a) /\ B = Yes(t)
    OBVIOUS
  <1>4. A \in SUBSET (1 .. k) /\ IsFiniteSet(1 .. k)
    BY <1>1, <1>3, FS_Interval DEF Yes
  <1>5. IsFiniteSet(A) /\ Cardinality(A) \in Nat
    BY <1>4, FS_Subset, FS_CardinalityType
  <1>6. CASE yes
    <2>1. B = A \cup {k + 1} /\ k + 1 \notin A
      <3>1. \A i : i \in A <=> i \in 1 .. k /\ a[i] = TRUE
        BY <1>1, <1>3 DEF Yes
      <3>2. \A i : i \in B <=> i \in 1 .. k + 1 /\ t[i] = TRUE
        BY <1>2, <1>3 DEF Yes
      <3>3. t[k + 1] = TRUE
        BY <1>2, <1>6
      <3>4. k + 1 \notin A /\ k + 1 \in B
        BY <1>4, <3>2, <3>3
      <3>5. ASSUME NEW i, i # k + 1 PROVE i \in B <=> i \in A
        <4>1. i \in 1 .. k <=> i \in 1 .. k + 1
          BY <3>5
        <4>2. i \in 1 .. k => t[i] = a[i]
          BY <1>2
        <4>3. QED
          BY <3>1, <3>2, <4>1, <4>2
      <3>6. QED
        BY <3>4, <3>5
    <2>2. Cardinality(B) = Cardinality(A) + 1
      BY <1>5, <2>1, FS_AddElement
    <2>3. QED
      BY <1>3, <1>5, <1>6, <2>2
  <1>7. CASE ~yes
    <2>1. B = A
      BY <1>1, <1>2, <1>3, <1>7 DEF Yes
    <2>2. QED
      BY <1>3, <1>5, <1>7, <2>1
  <1>8. QED
    BY <1>6, <1>7

LoopFields == {"op", "at", "got", "shortened", "same", "given", "answers", "stray"}

\* The bytes as the function meets them, and what a loop that it has left
\* alone has made of its answers so far.
Met(op, d) == IF op = "reduceRight" THEN Reverse(d) ELSE d
Answer(op) == IF op = "map" THEN Bytes ELSE BOOLEAN

MadeOf(op, got, s, a) ==
  /\ op = "count" => got = Cardinality(Yes(a))
  /\ op = "filter" => got = KeptOf(s, a)
  /\ op = "map" => got = FlattenSeq(a)

AnswersSoFar(l, s) ==
  /\ l.answers \in Seq(Answer(l.op))
  /\ Len(l.answers) <= Len(s)
  /\ l.at = IF l.op = "reduceRight" THEN Len(s) - 1 - Len(l.answers) ELSE Len(l.answers)
  /\ l.given = SubSeq(s, 1, Len(l.answers))
  /\ MadeOf(l.op, l.got, s, l.answers)

\* The position is inside the data unless the function has shortened them.
InBounds(l, k) ==
  /\ DOMAIN l = LoopFields
  /\ l.op \in LoopOp /\ l.at \in -1 .. MaxLength
  /\ ~l.shortened => l.at <= (IF l.op = "reduceRight" THEN k - 1 ELSE k)
  /\ l.stray => l.shortened

\* One answer more.
MoreMade(op, got, new, x, byte) ==
  /\ op = "count" => IF x THEN new = got + 1 ELSE new = got
  /\ op = "filter" => IF x THEN Adds(new, got, byte) ELSE new = got
  /\ op = "map" => Concats(new, got, x)

\* One answer more is made into the result as the others were.
LEMMA MoreMadeOf ==
  ASSUME NEW op \in LoopOp, NEW s \in Bytes, NEW a \in Seq(Answer(op)), Len(a) < Len(s),
         NEW x \in Answer(op), NEW t, Adds(t, a, x),
         NEW got, NEW new, MadeOf(op, got, s, a), MoreMade(op, got, new, x, s[Len(a) + 1])
  PROVE  MadeOf(op, new, s, t)
  <1>1. CASE op = "count"
    <2>1. a \in Seq(BOOLEAN) /\ x \in BOOLEAN
      BY <1>1 DEF Answer
    <2>2. /\ Cardinality(Yes(a)) \in Nat
          /\ x => Cardinality(Yes(t)) = Cardinality(Yes(a)) + 1
          /\ ~x => Cardinality(Yes(t)) = Cardinality(Yes(a))
      BY <2>1, YesMore
    <2>3. got = Cardinality(Yes(a)) /\ IF x THEN new = got + 1 ELSE new = got
      BY <1>1 DEF MadeOf, MoreMade
    <2>4. new = Cardinality(Yes(t))
      BY <2>1, <2>2, <2>3
    <2>5. QED
      BY <1>1, <2>4 DEF MadeOf
  <1>2. CASE op = "filter"
    <2>1. a \in Seq(BOOLEAN) /\ x \in BOOLEAN
      BY <1>2 DEF Answer
    <2>2. /\ x => Adds(KeptOf(s, t), KeptOf(s, a), s[Len(a) + 1])
          /\ ~x => KeptOf(s, t) = KeptOf(s, a)
      BY <2>1, KeptMore
    <2>3. got = KeptOf(s, a) /\ IF x THEN Adds(new, got, s[Len(a) + 1]) ELSE new = got
      BY <1>2 DEF MadeOf, MoreMade
    <2>4. new = KeptOf(s, t)
      BY <2>2, <2>3 DEF Adds
    <2>5. QED
      BY <1>2, <2>4 DEF MadeOf
  <1>3. CASE op = "map"
    <2>1. a \in Seq(Bytes) /\ x \in Bytes
      BY <1>3 DEF Answer
    <2>2. Concats(FlattenSeq(t), FlattenSeq(a), x)
      BY <2>1, FlatAdds
    <2>3. got = FlattenSeq(a) /\ Concats(new, got, x)
      BY <1>3 DEF MadeOf, MoreMade
    <2>4. new = FlattenSeq(t)
      BY <2>2, <2>3 DEF Concats
    <2>5. QED
      BY <1>3, <2>4 DEF MadeOf
  <1>4. CASE op \notin {"count", "filter", "map"}
    BY <1>4 DEF MadeOf
  <1>5. QED
    BY <1>1, <1>2, <1>3, <1>4

\* The bytes in the order that a loop meets them.
LEMMA MetIs ==
  ASSUME NEW d \in Bytes, NEW op
  PROVE  /\ Met(op, d) \in Bytes /\ Len(Met(op, d)) = Len(d)
         /\ op = "reduceRight" => \A i \in 1 .. Len(d) : Met(op, d)[i] = d[(Len(d) - i) + 1]
         /\ op # "reduceRight" => Met(op, d) = d
  <1>1. PICK k \in Nat : k = Len(d) /\ DOMAIN d = 1 .. k /\ \A i \in 1 .. k : d[i] \in Byte
    BY DEF Bytes
  <1>2. PICK t : t = [i \in 1 .. k |-> d[(k - i) + 1]] /\ t = Reverse(d)
    BY <1>1 DEF Reverse
  <1>3. \A i \in 1 .. k : (k - i) + 1 \in 1 .. k
    BY <1>1
  <1>4. t \in [1 .. k -> Byte]
    BY <1>1, <1>2, <1>3
  <1>5. t \in Bytes /\ Len(t) = k
    BY <1>4 DEF Bytes
  <1>6. QED
    BY <1>1, <1>2, <1>5 DEF Met

\* The loop after a turn.
TurnIs(after, answer, got, rereads, byte) ==
  /\ DOMAIN loop' = LoopFields
  /\ loop'.op = loop.op
  /\ loop'.at = IF loop.op = "reduceRight" THEN loop.at - 1 ELSE loop.at + 1
  /\ loop'.got = got
  /\ loop'.shortened <=> loop.shortened \/ Len(after) < n
  /\ loop'.same <=> loop.same /\ after = data
  /\ loop'.same => Adds(loop'.given, loop.given, byte) /\ Adds(loop'.answers, loop.answers, answer)
  /\ loop'.stray <=> loop.stray \/ loop.at >= n \/ (rereads /\ loop.at >= Len(after))

\* What Turned says.
LEMMA TurnedIs ==
  ASSUME NEW after, NEW answer, NEW got, NEW rereads, DOMAIN loop = LoopFields, Turned(after, answer, got, rereads)
  PROVE  \E byte \in ReadAt(data, loop.at) : TurnIs(after, answer, got, rereads, byte)
  <1>1. PICK same : same = (loop.same /\ after = data)
    OBVIOUS
  <1>2. PICK byte \in ReadAt(data, loop.at) :
           loop' = [loop EXCEPT
                !.at = IF loop.op = "reduceRight" THEN @ - 1 ELSE @ + 1,
                !.got = got,
                !.shortened = @ \/ Len(after) < n,
                !.same = same,
                !.given = IF same THEN Append(@, byte) ELSE <<>>,
                !.answers = IF same THEN Append(@, answer) ELSE <<>>,
                !.stray = @ \/ loop.at >= n \/ (rereads /\ loop.at >= Len(after))]
    BY <1>1 DEF Turned
  <1>3. \A f \in LoopFields : f \in DOMAIN loop
    OBVIOUS
  <1>4. PICK at, shortened, given, answers, stray :
           /\ at = IF loop.op = "reduceRight" THEN loop.at - 1 ELSE loop.at + 1
           /\ shortened = (loop.shortened \/ Len(after) < n)
           /\ given = IF same THEN Append(loop.given, byte) ELSE <<>>
           /\ answers = IF same THEN Append(loop.answers, answer) ELSE <<>>
           /\ stray = (loop.stray \/ loop.at >= n \/ (rereads /\ loop.at >= Len(after)))
    OBVIOUS
  <1>5. loop' = [loop EXCEPT !.at = at, !.got = got, !.shortened = shortened, !.same = same,
                             !.given = given, !.answers = answers, !.stray = stray]
    BY <1>2, <1>4
  <1>6. /\ DOMAIN loop' = LoopFields
        /\ loop'.op = loop.op /\ loop'.at = at /\ loop'.got = got /\ loop'.shortened = shortened
        /\ loop'.same = same /\ loop'.given = given /\ loop'.answers = answers /\ loop'.stray = stray
    BY <1>3, <1>5 DEF LoopFields
  <1>7. QED
    BY <1>2, <1>4, <1>6, <1>1 DEF TurnIs, Adds

InLoop == InBounds(loop, n) /\ (loop.same => AnswersSoFar(loop, Met(loop.op, data)))

\* A turn leaves the position where it may be.
LEMMA TurnBounds ==
  ASSUME data \in Bytes, n <= MaxLength, InBounds(loop, n), More,
         NEW after \in Bytes, Len(after) <= MaxLength,
         NEW answer, NEW got, NEW rereads, rereads => loop.op # "reduceRight",
         NEW byte, TurnIs(after, answer, got, rereads, byte)
  PROVE  InBounds(loop', Len(after))
  <1>1. n \in Nat /\ Len(after) \in Nat /\ MaxLength \in Nat
    BY BoundAssumption DEF Bytes, n
  <1>2. loop.op \in LoopOp /\ loop.at \in -1 .. MaxLength /\ loop.at \in Int
    BY DEF InBounds
  <1>3. /\ DOMAIN loop' = LoopFields
        /\ loop'.op = loop.op
        /\ loop'.at = IF loop.op = "reduceRight" THEN loop.at - 1 ELSE loop.at + 1
        /\ loop'.shortened <=> loop.shortened \/ Len(after) < n
        /\ loop'.stray <=> loop.stray \/ loop.at >= n \/ (rereads /\ loop.at >= Len(after))
    BY DEF TurnIs
  <1>4. IF loop.op = "reduceRight" THEN loop.at >= 0 ELSE loop.at < n
    BY DEF More
  <1>5. loop'.at \in -1 .. MaxLength
    BY <1>1, <1>2, <1>3, <1>4
  <1>6. ASSUME ~loop'.shortened
        PROVE  /\ loop'.at <= (IF loop'.op = "reduceRight" THEN Len(after) - 1 ELSE Len(after))
               /\ ~loop'.stray
    <2>1. ~loop.shortened /\ Len(after) >= n
      BY <1>1, <1>3, <1>6
    <2>2. ~loop.stray /\ loop.at <= (IF loop.op = "reduceRight" THEN n - 1 ELSE n)
      BY <2>1 DEF InBounds
    <2>3. loop'.at <= (IF loop'.op = "reduceRight" THEN Len(after) - 1 ELSE Len(after))
      BY <1>1, <1>2, <1>3, <1>4, <2>1, <2>2
    <2>4. loop.at < n
      BY <1>1, <1>2, <1>4, <2>2
    <2>5. ~loop'.stray
      BY <1>1, <1>2, <1>3, <2>1, <2>2, <2>4
    <2>6. QED
      BY <2>3, <2>5
  <1>7. QED
    BY <1>2, <1>3, <1>5, <1>6 DEF InBounds

\* The next byte stands where the loop reads.
LEMMA NextByte ==
  ASSUME data \in Bytes, loop.op \in LoopOp, More, AnswersSoFar(loop, Met(loop.op, data))
  PROVE  /\ Len(loop.answers) \in Nat /\ Len(loop.answers) < Len(Met(loop.op, data))
         /\ loop.at \in 0 .. n - 1
         /\ Met(loop.op, data)[Len(loop.answers) + 1] = data[loop.at + 1]
  <1>1. PICK s : s = Met(loop.op, data)
    OBVIOUS
  <1>2. n \in Nat /\ n = Len(data)
    BY DEF Bytes, n
  <1>3. /\ s \in Bytes /\ Len(s) = n
        /\ loop.op = "reduceRight" => \A i \in 1 .. n : s[i] = data[(n - i) + 1]
        /\ loop.op # "reduceRight" => s = data
    BY <1>1, <1>2, MetIs
  <1>4. /\ loop.answers \in Seq(Answer(loop.op)) /\ Len(loop.answers) <= n
        /\ loop.at = IF loop.op = "reduceRight" THEN n - 1 - Len(loop.answers) ELSE Len(loop.answers)
    BY <1>1, <1>3 DEF AnswersSoFar
  <1>5. PICK k \in Nat : k = Len(loop.answers)
    BY <1>4
  <1>6. CASE loop.op = "reduceRight"
    <2>1. loop.at >= 0 /\ loop.at = n - 1 - k
      BY <1>4, <1>5, <1>6 DEF More
    <2>2. k < n /\ loop.at \in 0 .. n - 1 /\ k + 1 \in 1 .. n /\ (n - (k + 1)) + 1 = loop.at + 1
      BY <1>2, <2>1
    <2>3. s[k + 1] = data[loop.at + 1]
      BY <1>3, <1>6, <2>2
    <2>4. QED
      BY <1>1, <1>3, <1>5, <2>2, <2>3
  <1>7. CASE loop.op # "reduceRight"
    <2>1. loop.at < n /\ loop.at = k
      BY <1>4, <1>5, <1>7 DEF More
    <2>2. k < n /\ loop.at \in 0 .. n - 1
      BY <1>2, <2>1
    <2>3. QED
      BY <1>1, <1>3, <1>5, <1>7, <2>1, <2>2
  <1>8. QED
    BY <1>6, <1>7

\* One byte more of a sequence.
LEMMA HeadMore ==
  ASSUME NEW s \in Bytes, NEW k \in Nat, k < Len(s), NEW g, g = SubSeq(s, 1, k), NEW h, Adds(h, g, s[k + 1])
  PROVE  h = SubSeq(s, 1, k + 1)
  <1>1. s \in Seq(Byte) /\ Len(s) \in Nat
    BY DEF Bytes
  <1>2. g \in Seq(Byte) /\ Len(g) = k /\ \A i \in 1 .. k : g[i] = s[i]
    BY <1>1
  <1>3. s[k + 1] \in Byte
    BY <1>1
  <1>4. h \in Seq(Byte) /\ Len(h) = k + 1 /\ h[k + 1] = s[k + 1] /\ \A i \in 1 .. k : h[i] = g[i]
    BY <1>2, <1>3, PushOne DEF Adds
  <1>5. PICK u : u = SubSeq(s, 1, k + 1)
    OBVIOUS
  <1>6. u \in Seq(Byte) /\ Len(u) = k + 1 /\ \A i \in 1 .. k + 1 : u[i] = s[i]
    BY <1>1, <1>5
  <1>7. \A i \in 1 .. k + 1 : h[i] = u[i]
    BY <1>2, <1>4, <1>6
  <1>8. h = u
    BY <1>4, <1>6, <1>7, SeqEqual
  <1>9. QED
    BY <1>5, <1>8

\* A turn in which the function leaves the array alone adds its answer.
LEMMA TurnAnswers ==
  ASSUME data \in Bytes, loop.op \in LoopOp, More,
         AnswersSoFar(loop, Met(loop.op, data)),
         NEW after, NEW answer \in Answer(loop.op), NEW got, NEW rereads,
         NEW byte \in ReadAt(data, loop.at), TurnIs(after, answer, got, rereads, byte), loop'.same, data' = data,
         MoreMade(loop.op, loop.got, got, answer, data[loop.at + 1])
  PROVE  AnswersSoFar(loop', Met(loop'.op, data'))
  <1>1. PICK s : s = Met(loop.op, data)
    OBVIOUS
  <1>2. n \in Nat /\ n = Len(data) /\ s \in Bytes /\ Len(s) = n
    BY <1>1, MetIs DEF Bytes, n
  <1>3. PICK k \in Nat : k = Len(loop.answers) /\ k < n /\ loop.at \in 0 .. n - 1 /\ s[k + 1] = data[loop.at + 1]
    BY <1>1, <1>2, NextByte
  <1>4. byte = s[k + 1]
    BY <1>2, <1>3 DEF ReadAt
  <1>5. /\ loop.answers \in Seq(Answer(loop.op))
        /\ loop.at = IF loop.op = "reduceRight" THEN n - 1 - k ELSE k
        /\ loop.given = SubSeq(s, 1, k)
        /\ MadeOf(loop.op, loop.got, s, loop.answers)
    BY <1>1, <1>2, <1>3 DEF AnswersSoFar
  <1>6. /\ loop'.op = loop.op /\ loop'.got = got
        /\ loop'.at = IF loop.op = "reduceRight" THEN loop.at - 1 ELSE loop.at + 1
        /\ Adds(loop'.given, loop.given, byte) /\ Adds(loop'.answers, loop.answers, answer)
    BY DEF TurnIs
  <1>7. PICK t : t = loop'.answers
    OBVIOUS
  <1>8. t \in Seq(Answer(loop.op)) /\ Len(t) = k + 1
    BY <1>3, <1>5, <1>6, <1>7, PushOne DEF Adds
  <1>9. PICK g, h : g = loop.given /\ h = loop'.given
    OBVIOUS
  <1>10. h = SubSeq(s, 1, k + 1)
    BY <1>2, <1>3, <1>4, <1>5, <1>6, <1>9, HeadMore
  <1>11. MadeOf(loop.op, got, s, t)
    <2>1. PICK was : was = loop.got
      OBVIOUS
    <2>2. PICK a \in Seq(Answer(loop.op)) : a = loop.answers /\ was = loop.got
      BY <1>5, <2>1
    <2>3. Adds(t, a, answer) /\ MadeOf(loop.op, was, s, a)
      BY <1>5, <1>6, <1>7, <2>2
    <2>4. MoreMade(loop.op, was, got, answer, s[Len(a) + 1])
      BY <1>3, <2>2
    <2>5. Len(a) < Len(s)
      BY <1>2, <1>3, <2>2
    <2>6. QED
      BY <1>2, <2>3, <2>4, <2>5, MoreMadeOf
  <1>12. loop'.at = IF loop.op = "reduceRight" THEN n - 1 - (k + 1) ELSE k + 1
    BY <1>2, <1>5, <1>6
  <1>13. Met(loop'.op, data') = s
    BY <1>1, <1>6
  <1>14. k + 1 <= Len(s)
    BY <1>2, <1>3
  <1>15. QED
    BY <1>2, <1>6, <1>7, <1>8, <1>9, <1>10, <1>11, <1>12, <1>13, <1>14 DEF AnswersSoFar

\* A turn keeps what holds of the loop.
LEMMA TurnKeeps ==
  ASSUME data \in Bytes, n <= MaxLength, InLoop, More,
         NEW after \in Bytes, Len(after) <= MaxLength, data' = after,
         NEW answer \in Answer(loop.op), NEW got, NEW rereads, rereads => loop.op # "reduceRight",
         Turned(after, answer, got, rereads),
         loop.same /\ after = data => MoreMade(loop.op, loop.got, got, answer, data[loop.at + 1])
  PROVE  InLoop'
  <1>1. InBounds(loop, n) /\ DOMAIN loop = LoopFields /\ loop.op \in LoopOp
    BY DEF InLoop, InBounds
  <1>2. PICK byte \in ReadAt(data, loop.at) : TurnIs(after, answer, got, rereads, byte)
    BY <1>1, TurnedIs
  <1>3. n' = Len(after)
    BY DEF n
  <1>4. InBounds(loop', n')
    BY <1>1, <1>2, <1>3, TurnBounds
  <1>5. ASSUME loop'.same PROVE AnswersSoFar(loop', Met(loop'.op, data'))
    <2>1. loop.same /\ after = data
      BY <1>2, <1>5 DEF TurnIs
    <2>2. AnswersSoFar(loop, Met(loop.op, data))
      BY <2>1 DEF InLoop
    <2>3. MoreMade(loop.op, loop.got, got, answer, data[loop.at + 1]) /\ data' = data
      BY <2>1
    <2>4. QED
      BY <1>1, <1>2, <1>5, <2>2, <2>3, TurnAnswers
  <1>6. QED
    BY <1>4, <1>5 DEF InLoop

\* Where no call has just ended nothing is said of it.
LEMMA NoCall ==
  ASSUME call' = None
  PROVE  CallSound'
  BY DEF CallSound, Splices, FailureKeepsHead, Positions, SplitRejoins, Rearranges, Answers

\* A turn keeps what holds of the loop,
LEMMA TurnSound ==
  ASSUME data \in Bytes, n <= MaxLength, InLoop, NEW after \in Arrays, NEW yes \in BOOLEAN, Turn(after, yes)
  PROVE  InLoop' /\ data' = after /\ call' = call
  <1>1. More /\ loop.op # "map" /\ data' = after /\ call' = call
    BY DEF Turn
  <1>2. after \in Bytes /\ Len(after) <= MaxLength
    <2>1. PICK m \in 0 .. MaxLength : after \in [1 .. m -> Byte]
      BY DEF Arrays, SeqOf
    <2>2. m \in Nat /\ m <= MaxLength
      BY BoundAssumption
    <2>3. after \in Seq(Byte) /\ Len(after) = m
      BY <2>1, <2>2
    <2>4. QED
      BY <2>2, <2>3 DEF Bytes
  <1>3. yes \in Answer(loop.op)
    BY <1>1 DEF Answer
  <1>4. CASE loop.op = "filter" /\ yes
    <2>1. PICK b \in ReadAt(after, loop.at) : Turned(after, yes, Append(loop.got, b), TRUE)
      BY <1>4 DEF Turn
    <2>2. PICK got, rereads : got = Append(loop.got, b) /\ rereads = TRUE
      OBVIOUS
    <2>3. Turned(after, yes, got, rereads) /\ loop.op # "reduceRight"
      BY <1>4, <2>1, <2>2
    <2>4. ASSUME after = data PROVE MoreMade(loop.op, loop.got, got, yes, data[loop.at + 1])
      <3>1. loop.at < n /\ n = Len(data)
        BY <1>1, <1>4 DEF More, n
      <3>2. b = data[loop.at + 1]
        BY <2>1, <2>4, <3>1 DEF ReadAt
      <3>3. QED
        BY <1>4, <2>2, <3>2 DEF MoreMade, Adds
    <2>5. QED
      BY <1>1, <1>2, <1>3, <2>3, <2>4, TurnKeeps
  <1>5. CASE loop.op = "count" /\ yes
    <2>1. PICK got, rereads : got = loop.got + 1 /\ rereads = FALSE
      OBVIOUS
    <2>2. Turned(after, yes, got, rereads) /\ loop.op # "reduceRight"
      BY <1>5, <2>1 DEF Turn
    <2>3. MoreMade(loop.op, loop.got, got, yes, data[loop.at + 1])
      BY <1>5, <2>1 DEF MoreMade
    <2>4. QED
      BY <1>1, <1>2, <1>3, <2>2, <2>3, TurnKeeps
  <1>6. CASE ~(loop.op \in {"filter", "count"} /\ yes)
    <2>1. PICK got, rereads : got = loop.got /\ rereads = FALSE
      OBVIOUS
    <2>2. Turned(after, yes, got, rereads)
      BY <1>6, <2>1 DEF Turn
    <2>3. MoreMade(loop.op, loop.got, got, yes, data[loop.at + 1])
      BY <1>1, <1>6, <2>1 DEF MoreMade
    <2>4. rereads => loop.op # "reduceRight"
      BY <2>1
    <2>5. QED
      BY <1>1, <1>2, <1>3, <2>2, <2>3, <2>4, TurnKeeps
  <1>7. QED
    BY <1>4, <1>5, <1>6

\* and so does one of map.
LEMMA TurnMapSound ==
  ASSUME data \in Bytes, n <= MaxLength, InLoop, NEW after \in Arrays, NEW args \in SeqOf(Byte, 1), TurnMap(after, args)
  PROVE  InLoop' /\ data' = after /\ call' = call
  <1>1. PICK a : a = do_append(loop.got, args)
    OBVIOUS
  <1>2. More /\ loop.op = "map" /\ a.ok /\ Turned(after, args, a.bytes, FALSE) /\ data' = after /\ call' = call
    BY <1>1 DEF TurnMap
  <1>3. after \in Bytes /\ Len(after) <= MaxLength
    <2>1. PICK m \in 0 .. MaxLength : after \in [1 .. m -> Byte]
      BY DEF Arrays, SeqOf
    <2>2. m \in Nat /\ m <= MaxLength
      BY BoundAssumption
    <2>3. after \in Seq(Byte) /\ Len(after) = m
      BY <2>1, <2>2
    <2>4. QED
      BY <2>2, <2>3 DEF Bytes
  <1>4. args \in Bytes
    BY FewIs DEF Bytes
  <1>5. args \in Answer(loop.op)
    BY <1>2, <1>4 DEF Answer
  <1>6. PICK got, rereads : got = a.bytes /\ rereads = FALSE
    OBVIOUS
  <1>7. ASSUME loop.same PROVE MoreMade(loop.op, loop.got, got, args, data[loop.at + 1])
    <2>1. AnswersSoFar(loop, Met(loop.op, data))
      BY <1>7 DEF InLoop
    <2>2. loop.answers \in Seq(Bytes) /\ loop.got = FlattenSeq(loop.answers)
      BY <1>2, <2>1 DEF AnswersSoFar, MadeOf, Answer
    <2>3. loop.got \in Bytes
      BY <2>2, FlatBytes
    <2>4. args \in Seq(Argument) /\ \A i \in DOMAIN args : args[i] # Self
      <3>1. args \in Seq(Byte) /\ Self \notin Byte
        BY <1>4, ByteAssumption DEF Bytes
      <3>2. QED
        BY <3>1 DEF Argument
    <2>5. a.bytes = loop.got \o args
      BY <1>1, <1>2, <2>3, <2>4, AppendFacts DEF Appends
    <2>6. QED
      BY <1>2, <1>6, <2>5 DEF MoreMade, Concats
  <1>8. QED
    BY <1>2, <1>3, <1>5, <1>6, <1>7, TurnKeeps

\* It holds when a loop starts.
LEMMA StartSound ==
  ASSUME data \in Bytes, n <= MaxLength, NEW op \in LoopOp, Start(op)
  PROVE  InLoop' /\ data' = data /\ call' = None
  <1>1. n \in Nat /\ n = Len(data) /\ MaxLength \in Nat
    BY BoundAssumption DEF Bytes, n
  <1>2. PICK at, got : at = (IF op = "reduceRight" THEN n - 1 ELSE 0) /\ got = (IF op = "count" THEN 0 ELSE <<>>)
    OBVIOUS
  <1>3. loop' = [op |-> op, at |-> at, got |-> got,
                 shortened |-> FALSE, same |-> TRUE, given |-> <<>>, answers |-> <<>>, stray |-> FALSE]
    BY <1>2 DEF Start
  <1>4. data' = data /\ call' = None /\ n' = n
    BY DEF Start, Idle, n
  <1>5. PICK a : a = <<>>
    OBVIOUS
  <1>6. /\ DOMAIN loop' = LoopFields /\ loop'.op = op /\ loop'.at = at /\ loop'.got = got
        /\ loop'.shortened = FALSE /\ loop'.given = a /\ loop'.answers = a /\ loop'.stray = FALSE
    BY <1>3, <1>5 DEF LoopFields
  <1>7. InBounds(loop', n)
    <2>1. at \in -1 .. MaxLength /\ at <= (IF op = "reduceRight" THEN n - 1 ELSE n)
      BY <1>1, <1>2
    <2>2. QED
      BY <1>6, <2>1 DEF InBounds
  <1>8. PICK s : s = Met(op, data) /\ s \in Bytes /\ Len(s) = n
    BY <1>1, MetIs
  <1>9. a \in Seq(Answer(op)) /\ Len(a) = 0 /\ DOMAIN a = {} /\ a = SubSeq(s, 1, 0)
    <2>1. s \in Seq(Byte)
      BY <1>8 DEF Bytes
    <2>2. SubSeq(s, 1, 0) = <<>>
      BY <2>1
    <2>3. QED
      BY <1>5, <2>2
  <1>10. MadeOf(op, got, s, a)
    <2>1. op = "count" => got = Cardinality(Yes(a))
      <3>1. Yes(a) = {}
        BY <1>9 DEF Yes
      <3>2. QED
        BY <1>2, <3>1, FS_EmptySet
    <2>2. op = "filter" => got = KeptOf(s, a)
      <3>1. Judged(s, a) = <<>>
        <4>1. PICK u : u = Judged(s, a)
          OBVIOUS
        <4>2. u = [i \in 1 .. 0 |-> [byte |-> s[i], kept |-> a[i] = TRUE]]
          BY <1>9, <4>1 DEF Judged
        <4>3. u \in [1 .. 0 -> Judgement]
          BY <4>2
        <4>4. u \in Seq(Judgement) /\ Len(u) = 0
          BY <4>3
        <4>5. QED
          BY <4>1, <4>4
      <3>2. KeptOf(s, a) = <<>>
        BY <3>1, KeptFolds DEF KeptOf
      <3>3. QED
        BY <1>2, <3>2
    <2>3. op = "map" => got = FlattenSeq(a)
      BY <1>2, <1>5, FlatFacts
    <2>4. QED
      BY <2>1, <2>2, <2>3 DEF MadeOf
  <1>11. at = IF op = "reduceRight" THEN n - 1 - 0 ELSE 0
    BY <1>1, <1>2
  <1>12. AnswersSoFar(loop', s)
    BY <1>1, <1>6, <1>8, <1>9, <1>10, <1>11 DEF AnswersSoFar
  <1>13. Met(loop'.op, data') = s
    BY <1>4, <1>6, <1>8
  <1>14. QED
    BY <1>4, <1>7, <1>12, <1>13 DEF InLoop

\* A loop that has ended is a call like others, but for its answers.
LEMMA EndedSound ==
  ASSUME data \in Bytes, loop.op \in LoopOp,
         NEW after, NEW result, NEW ok \in BOOLEAN, Ended(after, result, ok), ok => Answers'
  PROVE  CallSound' /\ data' = after /\ loop' = None /\ call'.before = data /\ call'.ok \in BOOLEAN
  <1>1. PICK op, input : op = loop.op /\ input = loop
    OBVIOUS
  <1>2. CallIs(op, input, after, result, ok) /\ loop' = None
    BY <1>1 DEF Ended, CallIs
  <1>3. op \in LoopOp /\ op \notin SpliceOps /\ op \notin PositionOps /\ op # "split" /\ op \notin {"reverse", "sort"}
    BY <1>1 DEF LoopOp, SpliceOps, PositionOps
  <1>4. Splices' /\ Positions' /\ SplitRejoins' /\ Rearranges' /\ FailureKeepsHead'
    BY <1>2, <1>3, NotSpliced, NotPlaced, NotOthers
  <1>5. Answers'
    BY <1>2, NotOthers
  <1>6. data' = after /\ call'.before = data /\ call'.ok \in BOOLEAN
    BY <1>2 DEF CallIs
  <1>7. QED
    BY <1>2, <1>4, <1>5, <1>6 DEF CallSound

\* What the properties call the answers so far.
LEMMA SoFarIs ==
  ASSUME data \in Bytes, AnswersSoFar(loop, Met(loop.op, data))
  PROVE  LET s == IF loop.op = "reduceRight" THEN Reverse(data) ELSE data
         IN  s = Met(loop.op, data) /\ Len(s) = n /\ Len(loop.answers) \in Nat /\ loop.given = SubSeq(s, 1, Len(loop.answers))
  <1>1. Len(Met(loop.op, data)) = n
    BY MetIs DEF n
  <1>2. loop.answers \in Seq(Answer(loop.op)) /\ loop.given = SubSeq(Met(loop.op, data), 1, Len(loop.answers))
    BY DEF AnswersSoFar
  <1>3. QED
    BY <1>1, <1>2 DEF Met

\* every and some may stop before the end, with the answer that decides.
LEMMA StopSound ==
  ASSUME data \in Bytes, InLoop, NEW after, Stop(after)
  PROVE  CallSound' /\ data' = after /\ loop' = None /\ call'.before = data /\ call'.ok \in BOOLEAN
  <1>1. PICK result \in BOOLEAN : result = (loop.op = "some")
    OBVIOUS
  <1>2. More /\ loop.op \in {"every", "some"} /\ Ended(after, result, TRUE)
    BY <1>1 DEF Stop
  <1>3. /\ call'.op = loop.op /\ call'.input = loop /\ call'.before = data /\ call'.result = result
    BY <1>2 DEF Ended
  <1>4. ASSUME loop.same PROVE Answers'
    <2>1. AnswersSoFar(loop, Met(loop.op, data)) /\ loop.op \in LoopOp
      BY <1>4 DEF InLoop, InBounds
    <2>2. PICK s : s = IF loop.op = "reduceRight" THEN Reverse(data) ELSE data
      OBVIOUS
    <2>3. s = Met(loop.op, data) /\ Len(s) = n /\ Len(loop.answers) \in Nat /\ loop.given = SubSeq(s, 1, Len(loop.answers))
      BY <2>1, <2>2, SoFarIs
    <2>4. Len(loop.answers) # Len(s)
      <3>1. Len(loop.answers) < n /\ n \in Nat
        BY <1>2, <2>1, <2>3, NextByte, AtStart
      <3>2. QED
        BY <2>3, <3>1
    <2>5. (loop.op = "every" => ~result) /\ (loop.op = "some" => result)
      BY <1>1
    <2>6. QED
      BY <1>2, <1>3, <2>2, <2>3, <2>4, <2>5 DEF Answers
  <1>5. ASSUME ~loop.same PROVE Answers'
    BY <1>3, <1>5 DEF Answers
  <1>6. loop.op \in LoopOp
    BY DEF InLoop, InBounds
  <1>7. QED
    BY <1>2, <1>4, <1>5, <1>6, EndedSound

\* Of a loop that an exception leaves nothing is said.
LEMMA BreakSound ==
  ASSUME data \in Bytes, InLoop, NEW after, Break(after)
  PROVE  CallSound' /\ data' = after /\ loop' = None /\ call'.before = data /\ call'.ok \in BOOLEAN
  <1>1. Ended(after, None, FALSE) /\ loop.op \in LoopOp
    BY DEF Break, InLoop, InBounds
  <1>2. QED
    BY <1>1, EndedSound

\* At the end all bytes have been answered for.
LEMMA EndSound ==
  ASSUME data \in Bytes, InLoop, End
  PROVE  CallSound' /\ data' = data /\ loop' = None /\ call'.before = data /\ call'.ok \in BOOLEAN
  <1>1. PICK result : result = CASE loop.op \in {"filter", "map", "count"} -> loop.got
                                 [] loop.op = "every" -> TRUE
                                 [] loop.op = "some" -> FALSE
                                 [] OTHER -> None
    OBVIOUS
  <1>2. ~More /\ Ended(data, result, TRUE)
    BY <1>1 DEF End
  <1>3. /\ call'.op = loop.op /\ call'.input = loop /\ call'.before = data /\ call'.result = result
    BY <1>2 DEF Ended
  <1>4. ASSUME loop.same PROVE Answers'
    <2>1. AnswersSoFar(loop, Met(loop.op, data)) /\ loop.op \in LoopOp
      BY <1>4 DEF InLoop, InBounds
    <2>2. PICK s : s = IF loop.op = "reduceRight" THEN Reverse(data) ELSE data
      OBVIOUS
    <2>3. s = Met(loop.op, data) /\ Len(s) = n /\ Len(loop.answers) \in Nat /\ loop.given = SubSeq(s, 1, Len(loop.answers))
      BY <2>1, <2>2, SoFarIs
    <2>4. PICK a : a = loop.answers
      OBVIOUS
    <2>5. PICK k \in Nat : k = Len(a) /\ a = loop.answers
      BY <2>3, <2>4
    <2>6. k = n
      <3>1. n \in Nat
        BY AtStart
      <3>2. k <= n /\ loop.at = IF loop.op = "reduceRight" THEN n - 1 - k ELSE k
        BY <2>1, <2>3, <2>5 DEF AnswersSoFar
      <3>3. IF loop.op = "reduceRight" THEN ~(loop.at >= 0) ELSE ~(loop.at < n)
        BY <1>2 DEF More
      <3>4. QED
        BY <3>1, <3>2, <3>3
    <2>7. Len(loop.answers) = Len(s)
      BY <2>3, <2>5, <2>6
    <2>8. MadeOf(loop.op, loop.got, s, a)
      BY <2>1, <2>3, <2>5 DEF AnswersSoFar
    <2>9. loop.op = "every" => result = TRUE
      BY <1>1
    <2>10. loop.op = "some" => result = FALSE
      BY <1>1
    <2>11. loop.op = "count" => result = Cardinality({i \in DOMAIN a : a[i] = TRUE})
      BY <1>1, <2>8 DEF MadeOf, Yes
    <2>12. loop.op = "map" => result = FlattenSeq(a)
      BY <1>1, <2>8 DEF MadeOf
    <2>13. ASSUME loop.op = "filter"
           PROVE  result = FoldLeft(Kept, <<>>, [i \in DOMAIN s |-> [byte |-> s[i], kept |-> i \in {j \in DOMAIN a : a[j] = TRUE}]])
      <3>1. result = FoldLeft(Kept, <<>>, Judged(s, a))
        BY <1>1, <2>8, <2>13 DEF MadeOf, KeptOf
      <3>2. DOMAIN s = 1 .. k /\ DOMAIN a = 1 .. k
        <4>1. s \in Seq(Byte)
          BY <2>3, MetIs DEF Bytes
        <4>2. a \in Seq(BOOLEAN)
          BY <2>1, <2>5, <2>13 DEF AnswersSoFar, Answer
        <4>3. QED
          BY <2>5, <2>7, <4>1, <4>2
      <3>3. \A i \in 1 .. k : (a[i] = TRUE) = (i \in {j \in DOMAIN a : a[j] = TRUE})
        BY <3>2
      <3>4. Judged(s, a) = [i \in DOMAIN s |-> [byte |-> s[i], kept |-> i \in {j \in DOMAIN a : a[j] = TRUE}]]
        BY <2>5, <3>2, <3>3 DEF Judged
      <3>5. QED
        BY <3>1, <3>4
    <2>14. QED
      BY <1>3, <2>2, <2>3, <2>5, <2>7, <2>9, <2>10, <2>11, <2>12, <2>13 DEF Answers
  <1>5. ASSUME ~loop.same PROVE Answers'
    BY <1>3, <1>5 DEF Answers
  <1>6. loop.op \in LoopOp
    BY DEF InLoop, InBounds
  <1>7. QED
    BY <1>2, <1>4, <1>5, <1>6, EndedSound

-----------------------------------------------------------------------------
(***************************************************************************)
(* ByteArray: its calls, one after the other.                              *)
(***************************************************************************)

\* The inductive invariant: what ArraySound says, that no loop runs while a
\* call is being returned from, and what has become of the loop so far.
ArrayInv ==
  /\ data \in Bytes /\ Len(data) <= MaxLength
  /\ call = None \/ loop = None
  /\ call # None => call.before \in Bytes /\ call.ok \in BOOLEAN
  /\ loop # None => InLoop
  /\ CallSound

\* The arrays that a function may leave.
LEMMA ArraysAre ==
  ASSUME NEW s \in Arrays
  PROVE  s \in Bytes /\ Len(s) <= MaxLength
  <1>1. PICK m \in 0 .. MaxLength : s \in [1 .. m -> Byte]
    BY DEF Arrays, SeqOf
  <1>2. m \in Nat /\ m <= MaxLength
    BY BoundAssumption
  <1>3. s \in Seq(Byte) /\ Len(s) = m
    BY <1>1, <1>2
  <1>4. QED
    BY <1>2, <1>3 DEF Bytes

\* A step of a loop keeps what holds of the array.
LEMMA LoopSound ==
  ASSUME ArrayInv, loop # None, Loop
  PROVE  ArrayInv'
  <1>1. data \in Bytes /\ Len(data) <= MaxLength /\ n <= MaxLength /\ InLoop /\ call = None
    BY DEF ArrayInv, n
  <1>2. ASSUME NEW after \in Arrays, InLoop' /\ data' = after /\ call' = call
        PROVE  ArrayInv'
    BY <1>1, <1>2, ArraysAre, NoCall DEF ArrayInv
  <1>3. ASSUME NEW after \in Bytes, Len(after) <= MaxLength,
               CallSound' /\ data' = after /\ loop' = None /\ call'.before = data /\ call'.ok \in BOOLEAN
        PROVE  ArrayInv'
    BY <1>1, <1>3 DEF ArrayInv
  <1>4. ASSUME NEW after \in Arrays, NEW yes \in BOOLEAN, Turn(after, yes) PROVE ArrayInv'
    BY <1>1, <1>2, <1>4, TurnSound
  <1>5. ASSUME NEW after \in Arrays, NEW args \in SeqOf(Byte, 1), TurnMap(after, args) PROVE ArrayInv'
    BY <1>1, <1>2, <1>5, TurnMapSound
  <1>6. ASSUME NEW after \in Arrays, Stop(after) PROVE ArrayInv'
    BY <1>1, <1>3, <1>6, ArraysAre, StopSound
  <1>7. ASSUME NEW after \in Arrays, Break(after) PROVE ArrayInv'
    BY <1>1, <1>3, <1>7, ArraysAre, BreakSound
  <1>8. ASSUME End PROVE ArrayInv'
    BY <1>1, <1>3, <1>8, EndSound
  <1>9. QED
    BY <1>4, <1>5, <1>6, <1>7, <1>8 DEF Loop

\* ArraySound: after any calls of its methods, with any functions that change
\* it meanwhile, what the last call did is what its arguments mean.
THEOREM ArraySoundHolds == ArraySpec => []ArraySound
  <1>1. ArrayInit => ArrayInv
    BY ArraysAre DEF ArrayInit, ArrayInv, CallSound, Splices, FailureKeepsHead, Positions, SplitRejoins, Rearranges, Answers
  <1>2. ArrayInv /\ [ArrayNext]_arrayVars => ArrayInv'
    <2> SUFFICES ASSUME ArrayInv, [ArrayNext]_arrayVars PROVE ArrayInv'
      OBVIOUS
    <2>1. data \in Bytes /\ Len(data) <= MaxLength /\ n <= MaxLength
      BY DEF ArrayInv, n
    <2>2. CASE Idle /\ Inspect
      <3>1. CallMade
        BY <2>1, <2>2, AskMade
      <3>2. CallSound' /\ data' = data
        BY <2>1, <2>2, AskSound
      <3>3. QED
        BY <2>1, <3>1, <3>2, MadeIs DEF ArrayInv
    <2>3. CASE Idle /\ Change
      <3>1. CallMade
        BY <2>1, <2>3, ChangeMade
      <3>2. CallSound' /\ data' \in Bytes
        BY <2>1, <2>3, ChangeSound
      <3>3. QED
        BY <2>1, <3>1, <3>2, MadeIs DEF ArrayInv
    <2>4. ASSUME NEW op \in LoopOp, Start(op) PROVE ArrayInv'
      BY <2>1, <2>4, StartSound, NoCall DEF ArrayInv
    <2>5. CASE loop # None /\ Loop
      BY <2>5, LoopSound
    <2>6. CASE Return
      <3>1. call' = None /\ data' = data /\ loop' = None
        BY <2>6 DEF Return, ArrayInv
      <3>2. QED
        BY <2>1, <3>1, NoCall DEF ArrayInv
    <2>7. CASE UNCHANGED arrayVars
      <3>1. data' = data /\ call' = call /\ loop' = loop
        BY <2>7 DEF arrayVars
      <3>2. CallSound' <=> CallSound
        BY <3>1 DEF CallSound, Splices, FailureKeepsHead, Positions, SplitRejoins, Rearranges, Answers,
                    Replaced, n
      <3>3. (InLoop' <=> InLoop)
        BY <3>1 DEF InLoop, n
      <3>4. QED
        BY <3>1, <3>2, <3>3 DEF ArrayInv
    <2>8. QED
      BY <2>2, <2>3, <2>4, <2>5, <2>6, <2>7 DEF ArrayNext
  <1>3. ArrayInv => ArraySound
    <2> SUFFICES ASSUME ArrayInv PROVE ArraySound
      OBVIOUS
    <2>1. ArrayTypeOK
      <3>1. loop # None => loop.op \in LoopOp /\ loop.at \in -1 .. MaxLength
        BY DEF ArrayInv, InLoop, InBounds
      <3>2. QED
        BY <3>1 DEF ArrayInv, ArrayTypeOK, Bytes
    <2>2. ReadsInside
      BY DEF ArrayInv, InLoop, InBounds, ReadsInside
    <2>3. QED
      BY <2>1, <2>2 DEF ArrayInv, CallSound, ArraySound
  <1>4. QED
    BY <1>1, <1>2, <1>3, PTL DEF ArraySpec
=============================================================================
