-------------------------- MODULE CallBridgeProofs --------------------------
(***************************************************************************)
(* Theorems about CallBridge, for every set of contexts and values: no     *)
(* exception is left pending, and what moves through the nested calls is   *)
(* one exception that only its borders may change.                         *)
(***************************************************************************)
EXTENDS CallBridge, Integers, StackLemmas, SequenceTheorems, TLAPS

-----------------------------------------------------------------------------
(* What the steps do to the stack of frames. *)

LEMMA TopFacts ==
  ASSUME TypeOK, frames # <<>>
  PROVE  /\ Depth \in Nat /\ Depth > 0 /\ Depth \in DOMAIN frames
         /\ DOMAIN frames = 1 .. Depth
         /\ Top \in Frame /\ Top = frames[Depth] /\ Top.ctx \in Context
  <1>1. frames \in Seq(Frame) /\ Depth = Len(frames) /\ Top = frames[Depth]
    BY DEF TypeOK, Depth, Top
  <1>2. /\ Depth \in Nat /\ Depth > 0 /\ Depth \in DOMAIN frames
        /\ DOMAIN frames = 1 .. Depth
        /\ Top \in Frame
    BY <1>1
  <1>3. QED
    BY <1>1, <1>2 DEF Frame

LEMMA PushFacts ==
  ASSUME TypeOK, NEW k \in Script \cup {"native", "scope"}, NEW c \in Context, Push(k, c)
  PROVE  /\ Depth \in Nat /\ DOMAIN frames = 1 .. Depth
         /\ frames' \in Seq(Frame)
         /\ frames' # <<>>
         /\ Depth' = Depth + 1 /\ DOMAIN frames' = 1 .. Depth + 1
         /\ \A i \in 1 .. Depth : frames'[i] = frames[i]
         /\ frames'[Depth + 1] = [kind |-> k, ctx |-> c]
         /\ Top' = [kind |-> k, ctx |-> c]
  <1> DEFINE f == [kind |-> k, ctx |-> c]
  <1>1. f \in Frame
    BY DEF Frame
  <1>2. frames \in Seq(Frame) /\ frames' = Append(frames, f)
    BY DEF TypeOK, Push
  <1> HIDE DEF f
  <1>3. /\ Len(frames) \in Nat
        /\ frames' \in Seq(Frame)
        /\ Len(frames') = Len(frames) + 1
        /\ \A i \in 1 .. Len(frames) : frames'[i] = frames[i]
        /\ frames'[Len(frames) + 1] = f
    BY <1>1, <1>2, PushOne
  <1>4. QED
    BY <1>2, <1>3 DEF Depth, Top, f

LEMMA PopFacts ==
  ASSUME TypeOK, frames # <<>>, Pop
  PROVE  /\ frames' \in Seq(Frame)
         /\ Depth \in Nat /\ Depth > 0 /\ DOMAIN frames = 1 .. Depth
         /\ Depth' = Depth - 1 /\ DOMAIN frames' = 1 .. Depth - 1
         /\ \A i \in 1 .. Depth - 1 : frames'[i] = frames[i]
         /\ Depth > 1 => frames' # <<>> /\ Top' = frames[Depth - 1]
  <1>1. frames \in Seq(Frame) /\ frames' = SubSeq(frames, 1, Depth - 1)
    BY DEF TypeOK, Pop
  <1>2. /\ Len(frames) \in Nat /\ Len(frames) > 0
        /\ frames' \in Seq(Frame)
        /\ Len(frames') = Depth - 1
        /\ \A i \in 1 .. Depth - 1 : frames'[i] = frames[i]
    BY <1>1, AllButLast DEF Depth
  <1>3. /\ Depth \in Nat /\ Depth > 0 /\ DOMAIN frames = 1 .. Depth
        /\ Depth' = Depth - 1 /\ DOMAIN frames' = 1 .. Depth - 1
    BY <1>1, <1>2 DEF Depth
  <1>4. Depth > 1 => frames' # <<>> /\ Top' = frames[Depth - 1]
    BY <1>2, <1>3 DEF Top
  <1>5. QED
    BY <1>2, <1>3, <1>4

\* The frame under script, and under native code, as SameContext has it.
LEMMA UnderFacts ==
  ASSUME TypeOK, SameContext, frames # <<>>, Top.kind # "scope"
  PROVE  /\ Depth > 1 /\ Depth - 1 \in DOMAIN frames
         /\ Under = frames[Depth - 1] /\ Under \in Frame
         /\ Under.ctx = Top.ctx /\ Under.ctx \in Context
         /\ Top.kind \in Script => Under.kind \notin Script
         /\ Top.kind = "native" => Under.kind \in Script
  <1>1. /\ Depth \in Nat /\ Depth \in DOMAIN frames /\ DOMAIN frames = 1 .. Depth
        /\ Top \in Frame /\ Top = frames[Depth]
    BY TopFacts
  <1>2. Top.kind \in Script \/ Top.kind = "native"
    BY <1>1 DEF Frame
  <1>3. /\ Depth > 1 /\ frames[Depth - 1].ctx = Top.ctx
        /\ Top.kind \in Script => frames[Depth - 1].kind \notin Script
        /\ Top.kind = "native" => frames[Depth - 1].kind \in Script
    BY <1>1, <1>2 DEF SameContext, Script
  <1>4. Depth - 1 \in DOMAIN frames /\ Under = frames[Depth - 1]
    BY <1>1, <1>3 DEF Under
  <1>5. frames[Depth - 1] \in Frame
    BY <1>4 DEF TypeOK
  <1>6. QED
    BY <1>1, <1>3, <1>4, <1>5 DEF Frame

LEMMA SamePush ==
  ASSUME TypeOK, SameContext,
         NEW k \in Script \cup {"native", "scope"}, NEW c \in Context, Push(k, c),
         k = "native" => InScript /\ c = Top.ctx,
         k \in Script => frames # <<>> /\ ~InScript /\ c = Top.ctx,
         k = "scope" => ~InScript
  PROVE  SameContext'
  <1>1. /\ Depth \in Nat /\ DOMAIN frames = 1 .. Depth
        /\ DOMAIN frames' = 1 .. Depth + 1
        /\ \A i \in 1 .. Depth : frames'[i] = frames[i]
        /\ frames'[Depth + 1] = [kind |-> k, ctx |-> c]
    BY PushFacts
  <1>2. ASSUME NEW i \in 1 .. Depth
        PROVE  /\ frames'[i].kind \in Script =>
                    /\ i > 1 /\ frames'[i - 1].kind \notin Script
                    /\ frames'[i - 1].ctx = frames'[i].ctx
               /\ frames'[i].kind = "native" =>
                    /\ i > 1 /\ frames'[i - 1].kind \in Script
                    /\ frames'[i - 1].ctx = frames'[i].ctx
               /\ frames'[i].kind = "scope" /\ i > 1 => frames'[i - 1].kind \notin Script
    <2>1. frames'[i] = frames[i] /\ (i > 1 => frames'[i - 1] = frames[i - 1])
      BY <1>1
    <2>2. QED
      BY <1>1, <2>1 DEF SameContext
  <1>3. frames # <<>> => Depth > 0 /\ frames'[Depth] = Top
    BY <1>1, TopFacts
  <1>4. "native" \notin Script /\ "scope" \notin Script
    BY DEF Script
  <1>5. QED
    BY <1>1, <1>2, <1>3, <1>4 DEF SameContext, InScript

LEMMA SamePop ==
  ASSUME TypeOK, SameContext, frames # <<>>, Pop
  PROVE  SameContext'
  <1>1. /\ Depth \in Nat /\ DOMAIN frames = 1 .. Depth
        /\ DOMAIN frames' = 1 .. Depth - 1
        /\ \A i \in 1 .. Depth - 1 : frames'[i] = frames[i]
    BY PopFacts
  <1>2. \A i \in 1 .. Depth - 1 : i > 1 => frames'[i - 1] = frames[i - 1]
    BY <1>1
  <1>3. QED
    BY <1>1, <1>2 DEF SameContext

-----------------------------------------------------------------------------
LEMMA TypeStep ==
  ASSUME TypeOK, SameContext, OneWay, [Next]_vars
  PROVE  TypeOK'
  <1>1. CASE UNCHANGED vars
    BY <1>1 DEF vars, TypeOK
  <1>2. ASSUME NEW c \in Context, OpenScope(c)
        PROVE  TypeOK'
    BY <1>2, PushFacts DEF OpenScope, TypeOK
  <1>3. ASSUME NEW entry \in Script, Enter(entry)
        PROVE  TypeOK'
    BY <1>3, TopFacts, PushFacts DEF Enter, TypeOK
  <1>4. CASE CallNative
    BY <1>4, TopFacts, PushFacts DEF CallNative, InScript, TypeOK
  <1>5. CASE CloseScope \/ Return \/ UnwindScope
    BY <1>5, PopFacts DEF CloseScope, Return, UnwindScope, TypeOK
  <1>6. ASSUME NEW v \in Value, ScriptThrow(v)
        PROVE  TypeOK'
    BY <1>6 DEF ScriptThrow, TypeOK
  <1>7. CASE ScriptCatch
    BY <1>7 DEF ScriptCatch, Cleared, TypeOK
  <1>8. CASE EntryFails
    <2>1. frames # <<>> /\ Top.kind # "scope"
      BY <1>8 DEF EntryFails, OneWay, InScript, Script
    <2>2. frames' \in Seq(Frame)
      BY <1>8, <2>1, PopFacts DEF EntryFails
    <2>3. Under.ctx \in Context
      BY <2>1, UnderFacts
    <2>4. flight' \in Value \cup {None} /\ failing' = FALSE /\ pending' = Cleared(Under.ctx)
      BY <1>8, <2>3, ValueAssumption DEF EntryFails, Taken, TypeOK
    <2>5. QED
      BY <2>2, <2>3, <2>4 DEF TypeOK, Cleared
  <1>9. ASSUME NEW v \in Value \cup {Std, Quit}, HostThrow(v)
        PROVE  TypeOK'
    BY <1>9 DEF HostThrow, TypeOK
  <1>10. CASE HostError
    <2>1. Top.ctx \in Context
      BY <1>10, TopFacts DEF HostError
    <2>2. QED
      BY <1>10, <2>1, ValueAssumption DEF HostError, Taken, Cleared, TypeOK
  <1>11. CASE HostCatch
    BY <1>11 DEF HostCatch, TypeOK
  <1>12. CASE CallbackEnd
    <2>1. frames # <<>> /\ Top.kind # "scope" /\ flight # None
      BY <1>12 DEF CallbackEnd
    <2>2. frames' \in Seq(Frame)
      BY <1>12, <2>1, PopFacts DEF CallbackEnd
    <2>3. Under.ctx \in Context
      BY <2>1, UnderFacts
    <2>4. pending' \in [Context -> Value \cup {None}]
      BY <1>12, <2>1, <2>3, ValueAssumption DEF CallbackEnd, Thrown, Taken, TypeOK
    <2>5. QED
      BY <1>12, <2>2, <2>4 DEF CallbackEnd, TypeOK
  <1>13. QED
    BY <1>1, <1>2, <1>3, <1>4, <1>5, <1>6, <1>7, <1>8, <1>9, <1>10, <1>11, <1>12 DEF Next

LEMMA SameStep ==
  ASSUME TypeOK, SameContext, OneWay, [Next]_vars
  PROVE  SameContext'
  <1>1. CASE UNCHANGED frames
    BY <1>1 DEF SameContext
  <1>2. ASSUME NEW c \in Context, OpenScope(c)
        PROVE  SameContext'
    BY <1>2, SamePush DEF OpenScope, Script, InHost
  <1>3. ASSUME NEW entry \in Script, Enter(entry)
        PROVE  SameContext'
    BY <1>3, TopFacts, SamePush DEF Enter, Script, InHost
  <1>4. CASE CallNative
    BY <1>4, TopFacts, SamePush DEF CallNative, InScript, Script
  <1>5. CASE CloseScope \/ Return \/ UnwindScope \/ EntryFails \/ CallbackEnd
    BY <1>5, SamePop
       DEF CloseScope, Return, UnwindScope, EntryFails, CallbackEnd, OneWay, InScript
  <1>6. ASSUME \/ UNCHANGED vars \/ ScriptCatch \/ HostError \/ HostCatch
               \/ \E v \in Value : ScriptThrow(v)
               \/ \E v \in Value \cup {Std, Quit} : HostThrow(v)
        PROVE  SameContext'
    BY <1>1, <1>6 DEF vars, ScriptCatch, HostError, HostCatch, ScriptThrow, HostThrow
  <1>7. QED
    BY <1>2, <1>3, <1>4, <1>5, <1>6 DEF Next

\* Nothing is pending in any context while nothing fails.
LEMMA NonePending ==
  ASSUME TypeOK, PendingOwned, ~failing
  PROVE  pending = [c \in Context |-> None]
  BY DEF PendingOwned, TypeOK

\* While script fails, only its own context has an exception.
LEMMA OnePending ==
  ASSUME TypeOK, PendingOwned, failing
  PROVE  \A c \in Context : c # Top.ctx => pending[c] = None
  BY DEF PendingOwned
\* The part of the invariant that is about exceptions is kept by the steps
\* that move one...
LEMMA EntryFailsOwned ==
  ASSUME TypeOK, BridgeInv, EntryFails
  PROVE  PendingOwned' /\ OneWay'
  <1>1. frames # <<>> /\ Top.kind \in Script /\ Top.kind # "scope" /\ failing
    BY DEF EntryFails, BridgeInv, OneWay, InScript, Script
  <1>2. /\ Under.kind \notin Script /\ Under.ctx = Top.ctx /\ Depth > 1
        /\ Under = frames[Depth - 1]
    BY <1>1, UnderFacts DEF BridgeInv
  <1>3. frames' # <<>> /\ Top' = Under
    BY <1>1, <1>2, PopFacts DEF EntryFails
  <1>4. failing' = FALSE /\ pending' = Cleared(Under.ctx)
    BY DEF EntryFails
  <1>5. \A c \in Context : pending'[c] = None
    BY <1>1, <1>2, <1>4, OnePending DEF Cleared, TypeOK, BridgeInv
  <1>6. QED
    BY <1>2, <1>3, <1>4, <1>5 DEF PendingOwned, OneWay, InHost, InScript

LEMMA CallbackEndOwned ==
  ASSUME TypeOK, BridgeInv, CallbackEnd
  PROVE  PendingOwned' /\ OneWay'
  <1>1. frames # <<>> /\ Top.kind = "native" /\ Top.kind # "scope" /\ flight # None
    BY DEF CallbackEnd
  <1>2. /\ Under.kind \in Script /\ Depth > 1 /\ Under = frames[Depth - 1]
        /\ Under.ctx \in Context
    BY <1>1, UnderFacts DEF BridgeInv
  <1>3. frames' # <<>> /\ Top' = Under
    BY <1>1, <1>2, PopFacts DEF CallbackEnd
  <1>4. ~failing /\ failing' = TRUE /\ flight' = None /\ pending' = Thrown(Under.ctx)
    BY <1>1 DEF CallbackEnd, BridgeInv, OneWay
  <1>5. \A c \in Context : pending[c] = None
    BY <1>4, NonePending DEF BridgeInv
  <1>6. \A c \in Context : c # Under.ctx => pending'[c] = None
    BY <1>2, <1>4, <1>5 DEF Thrown, TypeOK
  <1>7. QED
    BY <1>2, <1>3, <1>4, <1>6 DEF PendingOwned, OneWay, InScript

\* ... and by those that start or end one where it is, and the calm ones.
LEMMA OwnedStep ==
  ASSUME TypeOK, BridgeInv, [Next]_vars
  PROVE  PendingOwned' /\ OneWay'
  <1>1. CASE UNCHANGED vars
    BY <1>1 DEF vars, BridgeInv, PendingOwned, OneWay, InHost, InScript, Top, Depth
  <1>2. ASSUME Calm, UNCHANGED <<pending, flight, failing>>
        PROVE  PendingOwned' /\ OneWay'
    BY <1>2 DEF Calm, BridgeInv, PendingOwned, OneWay
  <1>3. ASSUME \/ CloseScope \/ CallNative \/ Return
               \/ \E c \in Context : OpenScope(c)
               \/ \E entry \in Script : Enter(entry)
        PROVE  PendingOwned' /\ OneWay'
    BY <1>2, <1>3 DEF CloseScope, CallNative, Return, OpenScope, Enter
  <1>4. ASSUME NEW v \in Value, ScriptThrow(v)
        PROVE  PendingOwned' /\ OneWay'
    <2>1. /\ flight = None /\ ~failing /\ InScript
          /\ pending' = [pending EXCEPT ![Top.ctx] = v]
          /\ failing' = TRUE /\ UNCHANGED <<frames, flight>>
      BY <1>4 DEF ScriptThrow, Calm
    <2>2. \A c \in Context : pending[c] = None
      BY <2>1, NonePending DEF BridgeInv
    <2>3. \A c \in Context : pending'[c] # None => c = Top.ctx
      BY <2>1, <2>2 DEF TypeOK
    <2>4. Top' = Top /\ InScript'
      BY <2>1 DEF Top, Depth, InScript
    <2>5. QED
      BY <2>1, <2>3, <2>4 DEF PendingOwned, OneWay
  <1>5. CASE ScriptCatch
    <2>1. \A c \in Context : pending'[c] = None
      BY <1>5, OnePending DEF ScriptCatch, Cleared, TypeOK, BridgeInv
    <2>2. failing /\ failing' = FALSE /\ flight' = flight /\ flight = None
      BY <1>5 DEF ScriptCatch, BridgeInv, OneWay
    <2>3. QED
      BY <2>1, <2>2 DEF PendingOwned, OneWay
  <1>6. ASSUME HostError \/ \E v \in Value \cup {Std, Quit} : HostThrow(v)
        PROVE  PendingOwned' /\ OneWay'
    <2>1. /\ Calm /\ InHost /\ UNCHANGED <<frames, failing>>
          /\ pending' \in {pending, Cleared(Top.ctx)}
      BY <1>6 DEF HostError, HostThrow
    <2>2. \A c \in Context : pending[c] = None
      BY <2>1, NonePending DEF Calm, BridgeInv
    <2>3. \A c \in Context : pending'[c] = None
      BY <2>1, <2>2 DEF Cleared, TypeOK
    <2>4. InHost' /\ ~failing'
      BY <2>1 DEF Calm, InHost, InScript, Top, Depth
    <2>5. QED
      BY <2>3, <2>4 DEF PendingOwned, OneWay
  <1>7. CASE HostCatch
    <2>1. flight # None /\ ~failing /\ flight' = None /\ UNCHANGED <<frames, pending, failing>>
      BY <1>7 DEF HostCatch, BridgeInv, OneWay
    <2>2. QED
      BY <2>1 DEF BridgeInv, PendingOwned, OneWay
  <1>8. CASE UnwindScope
    <2>1. /\ frames # <<>> /\ Top.kind = "scope" /\ flight # None /\ ~failing
          /\ UNCHANGED <<pending, flight, failing>>
      BY <1>8 DEF UnwindScope, BridgeInv, OneWay
    <2>2. \A c \in Context : pending'[c] = None
      BY <2>1, NonePending DEF BridgeInv
    <2>3. InHost'
      <3>1. /\ Depth \in Nat /\ DOMAIN frames = 1 .. Depth /\ Depth > 0 /\ Top = frames[Depth]
            /\ frames' \in Seq(Frame) /\ Len(frames') = Depth - 1
            /\ Depth > 1 => Top' = frames[Depth - 1]
        BY <1>8, <2>1, TopFacts, PopFacts DEF UnwindScope, Depth
      <3>2. CASE Depth = 1
        BY <3>1, <3>2 DEF InHost, InScript
      <3>3. CASE Depth > 1 /\ frames[Depth - 1].kind \notin Script
        BY <3>1, <3>3 DEF InHost, InScript
      <3>4. CASE Depth > 1 /\ frames[Depth - 1].kind \in Script
        <4>1. SameContext /\ Depth \in DOMAIN frames /\ frames[Depth].kind = "scope"
          BY <2>1, <3>1 DEF BridgeInv
        <4>2. frames[Depth - 1].kind \notin Script
          BY <4>1, <3>1, <3>4 DEF SameContext
        <4>3. QED
          BY <3>4, <4>2
      <3>5. QED
        BY <3>1, <3>2, <3>3, <3>4
    <2>4. QED
      BY <2>1, <2>2, <2>3 DEF PendingOwned, OneWay
  <1>9. QED
    BY <1>1, <1>3, <1>4, <1>5, <1>6, <1>7, <1>8, EntryFailsOwned, CallbackEndOwned DEF Next
LEMMA BridgeHolds == Spec => [](TypeOK /\ BridgeInv)
  <1>1. Init => TypeOK /\ BridgeInv
    <2> SUFFICES ASSUME Init PROVE TypeOK /\ BridgeInv
      OBVIOUS
    <2>1. frames = <<>> /\ frames \in Seq(Frame) /\ DOMAIN frames = {}
      BY DEF Init
    <2>2. TypeOK
      BY <2>1 DEF Init, TypeOK
    <2>3. PendingOwned /\ SameContext /\ OneWay
      BY <2>1 DEF Init, PendingOwned, SameContext, OneWay, InHost, InScript
    <2>4. QED
      BY <2>2, <2>3 DEF BridgeInv
  <1>2. TypeOK /\ BridgeInv /\ [Next]_vars => TypeOK' /\ BridgeInv'
    <2> SUFFICES ASSUME TypeOK, BridgeInv, [Next]_vars
                 PROVE  TypeOK' /\ BridgeInv'
      OBVIOUS
    <2>1. SameContext /\ OneWay
      BY DEF BridgeInv
    <2>2. QED
      BY <2>1, TypeStep, SameStep, OwnedStep DEF BridgeInv
  <1>3. QED
    BY <1>1, <1>2, PTL DEF Spec

\* The variables of CallBridge keep their types; in particular what is put
\* into a JSContext is always a script value.
THEOREM TypeCorrect == Spec => []TypeOK
  BY BridgeHolds, PTL

\* No exception is left pending in any context except in that of a script
\* that is failing for it.
THEOREM PendingOwnedHolds == Spec => []PendingOwned
  <1>1. TypeOK /\ BridgeInv => PendingOwned
    BY DEF BridgeInv
  <1>2. QED
    BY <1>1, BridgeHolds, PTL

-----------------------------------------------------------------------------
(* The bridge implements ExceptionFlow. *)

LEMMA MotionFacts ==
  ASSUME TypeOK, BridgeInv
  PROVE  /\ Calm => InMotion = None
         /\ flight # None => InMotion = flight
         /\ flight = None /\ failing /\ pending[Top.ctx] # None => InMotion = pending[Top.ctx]
         /\ flight = None /\ failing /\ pending[Top.ctx] = None => InMotion = Quit
         /\ failing => flight = None
  BY DEF InMotion, Calm, BridgeInv, OneWay

\* The same of the next state, in the form the steps give it.
LEMMA MotionNext ==
  ASSUME TypeOK', BridgeInv'
  PROVE  /\ flight' = None /\ ~failing' => InMotion' = None
         /\ flight' # None => InMotion' = flight'
         /\ failing' /\ pending'[Top'.ctx] # None => InMotion' = pending'[Top'.ctx]
         /\ failing' /\ pending'[Top'.ctx] = None => InMotion' = Quit
  BY DEF InMotion, BridgeInv, OneWay

LEMMA FlowStep ==
  ASSUME TypeOK, BridgeInv, [Next]_vars, TypeOK', BridgeInv'
  PROVE  [Flow!FlowNext]_<<Depth, InMotion>>
  <1> USE DEF Flow!FlowNext, Flow!Call, Flow!Return, Flow!Raise, Flow!Catch, Flow!Outwards,
              Flow!Propagate, Flow!Convert, Flow!Absorb
  <1>0. None \notin Value \cup {Std, Quit} /\ Error \in Value
    BY ValueAssumption
  <1>1. CASE UNCHANGED vars
    <2>1. Depth' = Depth /\ InMotion' = InMotion
      BY <1>1 DEF vars, Depth, Top, InMotion
    <2>2. QED
      BY <2>1
  <1>2. ASSUME Calm, UNCHANGED <<pending, flight, failing>>
        PROVE  InMotion = None /\ InMotion' = None
    BY <1>2, MotionFacts, MotionNext DEF Calm
  <1>3. ASSUME \/ CallNative \/ \E c \in Context : OpenScope(c)
               \/ \E entry \in Script : Enter(entry)
        PROVE  [Flow!FlowNext]_<<Depth, InMotion>>
    <2>1. Depth' = Depth + 1
      BY <1>3, TopFacts, PushFacts DEF CallNative, OpenScope, Enter, InScript
    <2>2. Calm /\ UNCHANGED <<pending, flight, failing>>
      BY <1>3 DEF CallNative, OpenScope, Enter
    <2>3. QED
      BY <1>2, <2>1, <2>2
  <1>4. CASE CloseScope \/ Return
    <2>1. Depth > 0 /\ Depth' = Depth - 1
      BY <1>4, PopFacts DEF CloseScope, Return
    <2>2. Calm /\ UNCHANGED <<pending, flight, failing>>
      BY <1>4 DEF CloseScope, Return
    <2>3. QED
      BY <1>2, <2>1, <2>2
  <1>5. ASSUME NEW v \in Value, ScriptThrow(v)
        PROVE  [Flow!FlowNext]_<<Depth, InMotion>>
    <2>1. /\ Calm /\ failing' = TRUE /\ UNCHANGED frames /\ frames # <<>>
          /\ pending' = [pending EXCEPT ![Top.ctx] = v]
      BY <1>5 DEF ScriptThrow, InScript
    <2>2. Top.ctx \in Context /\ Top' = Top /\ Depth' = Depth
      BY <2>1, TopFacts DEF Top, Depth
    <2>3. pending'[Top'.ctx] = v
      BY <2>1, <2>2 DEF TypeOK
    <2>4. InMotion = None /\ InMotion' = v
      BY <1>0, <2>1, <2>3, MotionFacts, MotionNext
    <2>5. QED
      BY <2>2, <2>4
  <1>6. CASE ScriptCatch
    <2>1. failing /\ pending[Top.ctx] # None /\ failing' = FALSE /\ UNCHANGED <<frames, flight>>
      BY <1>6 DEF ScriptCatch
    <2>2. InMotion # None /\ InMotion' = None /\ Depth' = Depth
      BY <2>1, MotionFacts, MotionNext DEF Depth
    <2>3. QED
      BY <2>2
  <1>7. CASE HostError \/ \E v \in Value \cup {Std, Quit} : HostThrow(v)
    <2>1. /\ Calm /\ UNCHANGED <<frames, failing>> /\ frames # <<>>
          /\ flight' \in Value \cup {Std, Quit} \cup {Taken(Top.ctx)}
      BY <1>7 DEF HostError, HostThrow
    <2>2. Taken(Top.ctx) \in Value
      BY <1>0, <2>1, TopFacts DEF Taken, TypeOK
    <2>3. flight' \in Value \cup {Std, Quit} /\ flight' # None /\ Depth' = Depth
      BY <1>0, <2>1, <2>2 DEF Depth
    <2>4. InMotion = None /\ InMotion' = flight'
      BY <2>1, <2>3, MotionFacts, MotionNext
    <2>5. QED
      BY <2>3, <2>4
  <1>8. CASE HostCatch
    <2>1. flight # None /\ flight' = None /\ ~failing' /\ UNCHANGED frames
      BY <1>8 DEF HostCatch, BridgeInv, OneWay
    <2>2. InMotion # None /\ InMotion' = None /\ Depth' = Depth
      BY <2>1, MotionFacts, MotionNext DEF Depth
    <2>3. QED
      BY <2>2
  <1>9. CASE UnwindScope
    <2>1. Depth > 0 /\ Depth' = Depth - 1 /\ flight # None /\ flight' = flight
      BY <1>9, PopFacts DEF UnwindScope
    <2>2. InMotion = flight /\ InMotion' = flight
      BY <2>1, MotionFacts, MotionNext
    <2>3. QED
      BY <2>1, <2>2
  <1>10. CASE EntryFails
    <2>1. frames # <<>> /\ Top.kind \in Script /\ Top.kind # "scope" /\ failing /\ flight = None
      BY <1>10 DEF EntryFails, BridgeInv, OneWay, InScript, Script
    <2>2. Under.ctx = Top.ctx
      BY <2>1, UnderFacts DEF BridgeInv
    <2>3. Depth > 0 /\ Depth' = Depth - 1
      BY <1>10, <2>1, PopFacts DEF EntryFails
    <2>4. /\ ~failing'
          /\ flight' = IF pending[Top.ctx] # None \/ Top.kind = "apply" THEN Taken(Top.ctx) ELSE None
      BY <1>10, <2>2 DEF EntryFails
    <2>5. CASE pending[Top.ctx] # None
      <3>1. InMotion = pending[Top.ctx] /\ flight' = pending[Top.ctx]
        BY <2>1, <2>4, <2>5, MotionFacts DEF Taken
      <3>2. QED
        BY <2>3, <2>5, <3>1, MotionNext
    <2>6. CASE pending[Top.ctx] = None
      <3>1. InMotion = Quit /\ flight' \in {Error, None}
        BY <2>1, <2>4, <2>6, MotionFacts DEF Taken
      <3>2. InMotion' = flight'
        BY <1>0, <2>4, <3>1, MotionNext
      <3>3. QED
        BY <1>0, <2>3, <3>1, <3>2
    <2>7. QED
      BY <2>5, <2>6
  <1>11. CASE CallbackEnd
    <2>1. frames # <<>> /\ Top.kind = "native" /\ Top.kind # "scope" /\ flight # None
      BY <1>11 DEF CallbackEnd
    <2>2. /\ Depth > 1 /\ Under = frames[Depth - 1] /\ Under.ctx \in Context
      BY <2>1, UnderFacts DEF BridgeInv
    <2>3. Depth > 0 /\ Depth' = Depth - 1 /\ Top' = Under
      BY <1>11, <2>1, <2>2, PopFacts DEF CallbackEnd
    <2>4. failing' = TRUE /\ ~failing /\ pending' = Thrown(Under.ctx)
      BY <1>11, <2>1 DEF CallbackEnd, BridgeInv, OneWay
    <2>5. InMotion = flight
      BY <2>1, MotionFacts
    <2>6. pending[Under.ctx] = None
      BY <2>2, <2>4, NonePending DEF BridgeInv
    <2>7. CASE flight = Quit
      <3>1. pending'[Top'.ctx] = None
        BY <2>3, <2>4, <2>6, <2>7, ValueAssumption DEF Thrown
      <3>2. QED
        BY <1>0, <2>3, <2>4, <2>5, <2>7, <3>1, MotionNext
    <2>8. CASE flight = Std
      <3>1. pending'[Top'.ctx] = Error
        BY <2>2, <2>3, <2>4, <2>6, <2>8, ValueAssumption DEF Thrown, Taken, TypeOK
      <3>2. InMotion' = Error
        BY <1>0, <2>4, <3>1, MotionNext
      <3>3. QED
        BY <1>0, <2>3, <2>5, <2>8, <3>2
    <2>9. CASE flight \notin {Std, Quit}
      <3>1. pending'[Top'.ctx] = flight
        BY <2>2, <2>3, <2>4, <2>9 DEF Thrown, TypeOK
      <3>2. InMotion' = flight
        BY <2>1, <2>4, <3>1, MotionNext
      <3>3. QED
        BY <2>1, <2>3, <2>5, <3>2
    <2>10. QED
      BY <2>7, <2>8, <2>9
  <1>12. QED
    BY <1>1, <1>3, <1>4, <1>5, <1>6, <1>7, <1>8, <1>9, <1>10, <1>11 DEF Next

\* Through C++ exceptions, pending exceptions and JS_FALSE, the program sees
\* one exception that moves outwards unchanged until it is caught; only
\* js_quit and std::exception change their form, at the border of a call.
THEOREM Implements == Spec => ImplementsFlow
  <1>1. Init => Flow!FlowInit
    BY DEF Init, Flow!FlowInit, Depth, InMotion
  <1>2. /\ TypeOK /\ BridgeInv /\ [Next]_vars /\ TypeOK' /\ BridgeInv'
        => [Flow!FlowNext]_<<Depth, InMotion>>
    BY FlowStep
  <1>3. QED
    BY <1>1, <1>2, BridgeHolds, PTL DEF Spec, ImplementsFlow, Flow!FlowSpec
=============================================================================
