---------------------------- MODULE ProgramProofs ---------------------------
(***************************************************************************)
(* Theorems about three parts of the program that share no state: the      *)
(* module loader (Require), for every set of modules, every alias table    *)
(* and every process_name; the encodings (Transcoder), for all chunks,     *)
(* texts and first estimates of the room; and the interactive program      *)
(* (Repl), for every command line and every input.                         *)
(***************************************************************************)
EXTENDS Require, MCModuleName, Transcoder, Repl, Integers, StackLemmas, SequenceTheorems, TLAPS

-----------------------------------------------------------------------------
(***************************************************************************)
(* Require: types, the module cache, and no module inside itself.          *)
(***************************************************************************)

-----------------------------------------------------------------------------
(* What the steps do to the cache and to the stack of calls. *)

LEMMA CacheFacts ==
  ASSUME NEW k, NEW obj
  PROVE  /\ DOMAIN With(k, obj) = DOMAIN cache \cup {k}
         /\ With(k, obj)[k] = obj
         /\ \A j \in DOMAIN cache : j # k => With(k, obj)[j] = cache[j]
         /\ DOMAIN Without(k) = DOMAIN cache \ {k}
         /\ \A j \in DOMAIN cache \ {k} : Without(k)[j] = cache[j]
  BY DEF With, Without, Restrict

LEMMA ResolvedKey ==
  ASSUME NEW k \in Key
  PROVE  Resolved(k) \in Key
  BY KeyAssumption DEF Resolved

\* Every open call.
LEMMA CallFacts ==
  ASSUME TypeOK
  PROVE  \A i \in DOMAIN calls :
           /\ calls[i] \in CallRec
           /\ calls[i].exports \in Object
           /\ calls[i].exports <= created
           /\ calls[i].exports \in 1 .. created
  <1>1. calls \in Seq(CallRec)
    BY DEF TypeOK
  <1>2. \A i \in DOMAIN calls : calls[i] \in CallRec
    BY <1>1
  <1>3. \A i \in DOMAIN calls : calls[i].exports \in Object /\ calls[i].exports <= created
    BY <1>2 DEF TypeOK, CallRec
  <1>4. created \in Int /\ MaxObjects \in Int
    BY MaxObjectsAssumption DEF TypeOK
  <1>5. QED
    BY <1>2, <1>3, <1>4 DEF Object

\* The innermost call.
LEMMA TopFacts ==
  ASSUME TypeOK, calls # <<>>
  PROVE  /\ Depth \in Nat /\ Depth > 0 /\ Depth \in DOMAIN calls
         /\ DOMAIN calls = 1 .. Depth
         /\ Top \in CallRec /\ Top = calls[Depth]
         /\ Top.exports \in 1 .. created
  <1>1. calls \in Seq(CallRec) /\ Depth = Len(calls) /\ Top = calls[Depth]
    BY DEF TypeOK, Depth, Top
  <1>2. /\ Depth \in Nat /\ Depth > 0 /\ Depth \in DOMAIN calls
        /\ DOMAIN calls = 1 .. Depth
    BY <1>1
  <1>3. QED
    BY <1>1, <1>2, CallFacts

LEMMA PopFacts ==
  ASSUME TypeOK, calls # <<>>, calls' = SubSeq(calls, 1, Depth - 1)
  PROVE  /\ calls' \in Seq(CallRec)
         /\ Len(calls') = Depth - 1
         /\ DOMAIN calls' = 1 .. Depth - 1
         /\ \A i \in 1 .. Depth - 1 : calls'[i] = calls[i]
  <1>1. calls \in Seq(CallRec)
    BY DEF TypeOK
  <1>2. /\ calls' \in Seq(CallRec)
        /\ Len(calls') = Depth - 1
        /\ \A i \in 1 .. Depth - 1 : calls'[i] = calls[i]
    BY <1>1, AllButLast DEF Depth
  <1>3. QED
    BY <1>2

LEMMA BeginFacts ==
  ASSUME TypeOK, NEW asked \in Key, NEW key \in Key, NEW stage \in Stage,
         Begin(asked, key, stage)
  PROVE  /\ created' = created + 1 /\ created' \in 1 .. MaxObjects
         /\ Depth \in Nat /\ DOMAIN calls = 1 .. Depth
         /\ calls' \in Seq(CallRec)
         /\ DOMAIN calls' = 1 .. Depth + 1
         /\ \A i \in 1 .. Depth : calls'[i] = calls[i]
         /\ calls'[Depth + 1] =
              [key |-> key, module |-> id, exports |-> created', stage |-> stage]
  <1> DEFINE c == [key |-> key, module |-> id, exports |-> created', stage |-> stage]
  <1>1. created' = created + 1 /\ created' \in 1 .. MaxObjects
    BY MaxObjectsAssumption DEF Begin, TypeOK
  <1>2. c \in CallRec
    BY <1>1 DEF TypeOK, CallRec, Object
  <1>3. calls \in Seq(CallRec) /\ calls' = Append(calls, c)
    BY DEF TypeOK, Begin
  <1> HIDE DEF c
  <1>4. /\ Len(calls) \in Nat
        /\ calls' \in Seq(CallRec)
        /\ Len(calls') = Len(calls) + 1
        /\ \A i \in 1 .. Len(calls) : calls'[i] = calls[i]
        /\ calls'[Len(calls) + 1] = c
    BY <1>2, <1>3, PushOne
  <1>5. QED
    BY <1>1, <1>3, <1>4 DEF Depth, c

\* The three ways to start running a module's code.
Starts ==
  \E asked \in Key, stage \in Stage :
    Resolved(asked) \notin DOMAIN cache /\ Begin(asked, Resolved(asked), stage)

LEMMA StartsFacts ==
  ASSUME TypeOK, NEW n \in Name, StartPreload(n) \/ StartSo(n) \/ StartJs(n)
  PROVE  Starts
  <1>1. KeyOf(n, id) \in Key
    BY KeyAssumption DEF TypeOK
  <1>2. {"preload", "so", "js"} \subseteq Stage
    BY DEF Stage
  <1>3. QED
    BY <1>1, <1>2 DEF StartPreload, StartSo, StartJs, Searched, Starts

-----------------------------------------------------------------------------
LEMMA TypeStep ==
  ASSUME TypeOK, [Next]_vars
  PROVE  TypeOK'
  <1>1. CASE UNCHANGED vars
    BY <1>1 DEF vars, TypeOK
  <1>2. ASSUME NEW n \in Name, Hit(n) \/ NotLoaded(n)
        PROVE  TypeOK'
    BY <1>2, KeyAssumption DEF Hit, NotLoaded, TypeOK
  <1>3. CASE Starts
    <2>1. PICK asked \in Key, stage \in Stage :
            Resolved(asked) \notin DOMAIN cache /\ Begin(asked, Resolved(asked), stage)
      BY <1>3 DEF Starts
    <2>2. Resolved(asked) \in Key
      BY ResolvedKey
    <2>3. /\ created' = created + 1 /\ created' \in 1 .. MaxObjects
          /\ Depth \in Nat /\ DOMAIN calls = 1 .. Depth
          /\ calls' \in Seq(CallRec)
          /\ DOMAIN calls' = 1 .. Depth + 1
          /\ \A i \in 1 .. Depth : calls'[i] = calls[i]
          /\ calls'[Depth + 1] = [key |-> Resolved(asked), module |-> id,
                                  exports |-> created', stage |-> stage]
      BY ONLY TypeOK, <2>1, <2>2, BeginFacts
    <2>4. /\ cache' = With(Resolved(asked), created') /\ id' = asked
          /\ UNCHANGED <<done, thrown>>
      BY <2>1 DEF Begin
    <2>5. \A i \in DOMAIN calls' : calls'[i].exports <= created'
      <3>1. \A i \in 1 .. Depth : calls[i].exports <= created /\ calls[i].exports \in Object
        BY <2>3, CallFacts
      <3>2. QED
        BY <2>3, <3>1 DEF Object, TypeOK
    <2>6. DOMAIN cache' \subseteq Key /\ \A k \in DOMAIN cache' : cache'[k] \in 1 .. created'
      <3>1. /\ DOMAIN cache' = DOMAIN cache \cup {Resolved(asked)}
            /\ cache'[Resolved(asked)] = created'
            /\ \A k \in DOMAIN cache : k # Resolved(asked) => cache'[k] = cache[k]
        BY <2>4 DEF With
      <3>2. QED
        BY <2>2, <2>3, <3>1 DEF TypeOK
    <2>7. QED
      BY <2>3, <2>4, <2>5, <2>6 DEF TypeOK
  <1>4. ASSUME NEW n \in Name, NullPreload(n)
        PROVE  TypeOK'
    <2> DEFINE key == Resolved(KeyOf(n, id))
    <2>1. KeyOf(n, id) \in Key /\ key \in Key
      BY KeyAssumption, ResolvedKey DEF TypeOK
    <2>2. /\ created' = created + 1 /\ created' \in 1 .. MaxObjects
          /\ cache' = With(key, created')
          /\ done' = done \cup {created'}
          /\ id' = KeyOf(n, id)
          /\ UNCHANGED <<calls, thrown>>
      BY <1>4, MaxObjectsAssumption DEF NullPreload, TypeOK
    <2> HIDE DEF key
    <2>3. DOMAIN cache' \subseteq Key /\ \A k \in DOMAIN cache' : cache'[k] \in 1 .. created'
      <3>1. /\ DOMAIN cache' = DOMAIN cache \cup {key}
            /\ cache'[key] = created'
            /\ \A k \in DOMAIN cache : k # key => cache'[k] = cache[k]
        BY <2>2 DEF With
      <3>2. QED
        BY <2>1, <2>2, <3>1 DEF TypeOK
    <2>4. \A i \in DOMAIN calls' : calls'[i].exports <= created'
      <3>1. \A i \in DOMAIN calls : calls[i].exports <= created /\ calls[i].exports \in Object
        BY CallFacts
      <3>2. QED
        BY <2>2, <3>1 DEF Object, TypeOK
    <2>5. created' \in 0 .. MaxObjects /\ done' \subseteq 1 .. created'
      <3>1. created \in Nat /\ created' = created + 1 /\ done \subseteq 1 .. created
        BY <2>2 DEF TypeOK
      <3>2. created' \in 0 .. MaxObjects
        BY <2>2
      <3>3. QED
        BY <2>2, <3>1, <3>2
    <2>6. QED
      BY <2>1, <2>2, <2>3, <2>4, <2>5 DEF TypeOK
  <1>5. CASE EndPreload \/ EndJs
    <2>1. /\ calls # <<>> /\ Finish(Top.exports)
          /\ UNCHANGED <<cache, created, thrown>>
      BY <1>5 DEF EndPreload, EndJs, TypeOK
    <2>2. calls' = SubSeq(calls, 1, Depth - 1)
      BY <2>1 DEF Finish
    <2>3. id' \in Key /\ done' \subseteq 1 .. created'
      BY <2>1, TopFacts DEF Finish, CallRec, TypeOK
    <2>4. QED
      BY <2>1, <2>2, <2>3, PopFacts, TopFacts DEF TypeOK
  <1>6. CASE EndSo
    <2>1. PICK exports \in {Top.exports, created + 1} :
            /\ exports <= MaxObjects
            /\ created' = IF exports = Top.exports THEN created ELSE exports
            /\ cache' = With(Top.key, exports)
            /\ IF FileOf(Top.key) \in Js
                 THEN /\ calls' = [calls EXCEPT ![Depth].exports = exports, ![Depth].stage = "js"]
                      /\ UNCHANGED <<id, done>>
                 ELSE Finish(exports)
      BY <1>6 DEF EndSo
    <2>2. calls # <<>> /\ UNCHANGED thrown
      BY <1>6 DEF EndSo
    <2>3. /\ Top \in CallRec /\ Top.exports \in 1 .. created
          /\ Depth \in Nat /\ Depth > 0 /\ DOMAIN calls = 1 .. Depth
          /\ created \in 0 .. MaxObjects
      BY <2>2, TopFacts DEF TypeOK
    <2>4. /\ created' \in 0 .. MaxObjects /\ created <= created'
          /\ exports \in 1 .. created' /\ exports \in Object
      BY <2>1, <2>3, MaxObjectsAssumption DEF Object
    <2>5. DOMAIN cache' \subseteq Key /\ \A k \in DOMAIN cache' : cache'[k] \in 1 .. created'
      <3>1. /\ DOMAIN cache' = DOMAIN cache \cup {Top.key}
            /\ cache'[Top.key] = exports
            /\ \A k \in DOMAIN cache : k # Top.key => cache'[k] = cache[k]
        BY <2>1 DEF With
      <3>2. Top.key \in Key
        BY <2>3 DEF CallRec
      <3>3. QED
        BY <2>3, <2>4, <3>1, <3>2 DEF TypeOK
    <2>6. CASE FileOf(Top.key) \in Js
      <3>1. calls' = [calls EXCEPT ![Depth].exports = exports, ![Depth].stage = "js"]
        BY <2>1, <2>6
      <3>2. calls' = [calls EXCEPT ![Depth] = [Top EXCEPT !.exports = exports, !.stage = "js"]]
        BY <3>1, <2>3 DEF Top, TypeOK, CallRec
      <3>3. [Top EXCEPT !.exports = exports, !.stage = "js"] \in CallRec
        BY <2>3, <2>4 DEF CallRec, Stage
      <3>4. calls' \in Seq(CallRec)
        BY <3>2, <3>3, <2>3, ExceptSeq DEF TypeOK
      <3>5. \A i \in DOMAIN calls' : calls'[i].exports <= created'
        <4>1. \A i \in DOMAIN calls : calls[i].exports <= created /\ calls[i].exports \in Object
          BY CallFacts
        <4>2. calls'[Depth].exports = exports
          BY <2>3, <3>2 DEF CallRec
        <4>3. \A i \in DOMAIN calls' : i # Depth => calls'[i] = calls[i] /\ i \in DOMAIN calls
          BY <3>2
        <4>4. QED
          BY <2>3, <2>4, <4>1, <4>2, <4>3 DEF Object
      <3>6. QED
        BY <2>1, <2>2, <2>4, <2>5, <2>6, <3>4, <3>5 DEF TypeOK
    <2>7. CASE FileOf(Top.key) \notin Js
      <3>1. Finish(exports)
        BY <2>1, <2>7
      <3>2. id' \in Key /\ done' \subseteq 1 .. created'
        <4>1. id \in Key /\ Top.module \in Key
          BY <2>3 DEF CallRec, TypeOK
        <4>2. id' \in Key
          BY <3>1, <4>1 DEF Finish
        <4>3. done' = done \cup {exports} /\ done \subseteq 1 .. created
          BY <3>1 DEF Finish, TypeOK
        <4>4. 1 .. created \subseteq 1 .. created'
          BY <2>3, <2>4
        <4>5. QED
          BY <2>4, <4>2, <4>3, <4>4
      <3>3. calls' \in Seq(CallRec) /\ \A i \in DOMAIN calls' : calls'[i].exports <= created'
        BY <3>1, <2>2, <2>3, <2>4, PopFacts DEF Finish, TypeOK, CallRec, Object
      <3>4. QED
        BY <2>2, <2>4, <2>5, <3>2, <3>3 DEF TypeOK
    <2>8. QED
      BY <2>6, <2>7
  <1>7. CASE Fail
    <2>1. /\ calls # <<>> /\ calls' = SubSeq(calls, 1, Depth - 1)
          /\ cache' = Without(Top.key) /\ id' = Top.module /\ thrown' = TRUE
          /\ UNCHANGED <<created, done>>
      BY <1>7 DEF Fail
    <2>2. DOMAIN cache' \subseteq Key /\ \A k \in DOMAIN cache' : cache'[k] \in 1 .. created'
      <3>1. /\ DOMAIN cache' = DOMAIN cache \ {Top.key}
            /\ \A k \in DOMAIN cache' : cache'[k] = cache[k]
        BY <2>1 DEF Without, Restrict
      <3>2. created' = created
        BY <2>1
      <3>3. QED
        BY <3>1, <3>2 DEF TypeOK
    <2>3. id' \in Key
      BY <2>1, TopFacts DEF CallRec
    <2>4. QED
      BY <2>1, <2>2, <2>3, PopFacts, TopFacts DEF TypeOK
  <1>8. CASE Catch
    BY <1>8 DEF Catch, TypeOK
  <1>9. QED
    BY <1>1, <1>2, <1>3, <1>4, <1>5, <1>6, <1>7, <1>8, StartsFacts DEF Next

\* The variables of Require keep their types; in particular every object in
\* the cache has been created.
THEOREM TypeCorrect == Spec => []TypeOK
  <1>1. Init => TypeOK
    <2> SUFFICES ASSUME Init PROVE TypeOK
      OBVIOUS
    <2>1. calls = <<>> /\ calls \in Seq(CallRec) /\ DOMAIN calls = {}
      BY DEF Init
    <2>2. DOMAIN cache = {}
      BY DEF Init
    <2>3. id \in Key /\ created \in 0 .. MaxObjects /\ done \subseteq 1 .. created
      BY KeyAssumption, MaxObjectsAssumption DEF Init
    <2>4. thrown \in BOOLEAN
      BY DEF Init
    <2>5. QED
      BY ONLY <2>1, <2>2, <2>3, <2>4 DEF TypeOK
  <1>2. TypeOK /\ [Next]_vars => TypeOK'
    BY TypeStep
  <1>3. QED
    BY <1>1, <1>2, PTL DEF Spec

-----------------------------------------------------------------------------
(* The module cache. *)

\* A call ends normally: its key stays, now loaded.
LEMMA CacheFinish ==
  ASSUME TypeOK, CacheInv, calls # <<>>, Finish(Top.exports), UNCHANGED cache
  PROVE  CacheInv'
  <1>1. /\ Depth \in Nat /\ Depth > 0 /\ DOMAIN calls = 1 .. Depth /\ Top = calls[Depth]
        /\ DOMAIN calls' = 1 .. Depth - 1
        /\ \A i \in 1 .. Depth - 1 : calls'[i] = calls[i]
        /\ done' = done \cup {Top.exports}
    BY TopFacts, PopFacts DEF Finish
  <1>2. NoReentry'
    BY <1>1 DEF CacheInv, NoReentry
  <1>3. CacheInjective'
    BY DEF CacheInv, CacheInjective
  <1>4. ASSUME NEW k \in DOMAIN cache'
        PROVE  \/ cache'[k] \in done'
               \/ \E i \in DOMAIN calls' : calls'[i].key = k
    <2>1. CASE cache[k] \in done
      BY <1>1, <2>1
    <2>2. CASE cache[k] \notin done
      <3>1. PICK i \in DOMAIN calls : calls[i].key = k
        BY <2>2, <1>4 DEF CacheInv, CacheSound
      <3>2. cache[k] = calls[i].exports
        BY <3>1 DEF CacheInv, CacheSound
      <3>3. CASE i = Depth
        BY <1>1, <3>2, <3>3
      <3>4. CASE i # Depth
        BY <1>1, <3>1, <3>4
      <3>5. QED
        BY <3>3, <3>4
    <2>3. QED
      BY <2>1, <2>2
  <1>5. ASSUME NEW i \in DOMAIN calls'
        PROVE  /\ calls'[i].key \in DOMAIN cache'
               /\ cache'[calls'[i].key] = calls'[i].exports
               /\ calls'[i].exports \notin done'
    <2>1. i \in DOMAIN calls /\ i # Depth /\ calls'[i] = calls[i] /\ Depth \in DOMAIN calls
      BY <1>1
    <2>2. calls[i].key # Top.key
      BY <1>1, <2>1 DEF CacheInv, NoReentry
    <2>3. cache[calls[i].key] # cache[Top.key]
      BY <1>1, <2>1, <2>2 DEF CacheInv, CacheSound, CacheInjective
    <2>4. calls[i].exports # Top.exports
      BY <1>1, <2>1, <2>3 DEF CacheInv, CacheSound
    <2>5. QED
      BY <1>1, <2>1, <2>4 DEF CacheInv, CacheSound
  <1>6. QED
    BY <1>2, <1>3, <1>4, <1>5 DEF CacheInv, CacheSound

\* A new key enters the cache with a new object and its code runs.
LEMMA CacheStart ==
  ASSUME TypeOK, CacheInv, Starts
  PROVE  CacheInv'
  <1>1. PICK asked \in Key, stage \in Stage :
          Resolved(asked) \notin DOMAIN cache /\ Begin(asked, Resolved(asked), stage)
    BY DEF Starts
  <1> DEFINE key == Resolved(asked)
  <1>2. key \in Key
    BY ResolvedKey
  <1> HIDE DEF key
  <1>3. key \notin DOMAIN cache /\ Begin(asked, key, stage)
    BY <1>1 DEF key
  <1>4. /\ created' = created + 1 /\ created' \in 1 .. MaxObjects
        /\ Depth \in Nat /\ DOMAIN calls = 1 .. Depth
        /\ DOMAIN calls' = 1 .. Depth + 1
        /\ \A i \in 1 .. Depth : calls'[i] = calls[i]
        /\ calls'[Depth + 1] =
             [key |-> key, module |-> id, exports |-> created', stage |-> stage]
    BY ONLY TypeOK, stage \in Stage, asked \in Key, <1>2, <1>3, BeginFacts
  <1>5. /\ DOMAIN cache' = DOMAIN cache \cup {key}
        /\ cache'[key] = created'
        /\ \A k \in DOMAIN cache : k # key => cache'[k] = cache[k]
        /\ done' = done
    BY <1>3 DEF Begin, With
  <1>6. /\ \A k \in DOMAIN cache : cache[k] # created'
        /\ created' \notin done
    BY <1>4 DEF TypeOK
  <1>7. NoReentry'
    BY <1>3, <1>4 DEF CacheInv, NoReentry, CacheSound
  <1>8. CacheInjective'
    BY <1>3, <1>5, <1>6 DEF CacheInv, CacheInjective
  <1>9. \A k \in DOMAIN cache' :
          \/ cache'[k] \in done'
          \/ \E i \in DOMAIN calls' : calls'[i].key = k
    <2> SUFFICES ASSUME NEW k \in DOMAIN cache', cache'[k] \notin done'
                 PROVE  \E i \in DOMAIN calls' : calls'[i].key = k
      OBVIOUS
    <2>1. CASE k = key
      BY <1>4, <2>1
    <2>2. CASE k # key
      <3>1. PICK i \in DOMAIN calls : calls[i].key = k
        BY <1>5, <2>2 DEF CacheInv, CacheSound
      <3>2. i \in DOMAIN calls' /\ calls'[i] = calls[i]
        BY <1>4
      <3>3. QED
        BY <3>1, <3>2
    <2>3. QED
      BY <2>1, <2>2
  <1>10. ASSUME NEW i \in DOMAIN calls'
         PROVE  /\ calls'[i].key \in DOMAIN cache'
                /\ cache'[calls'[i].key] = calls'[i].exports
                /\ calls'[i].exports \notin done'
    <2>1. CASE i = Depth + 1
      BY <1>4, <1>5, <1>6, <2>1
    <2>2. CASE i # Depth + 1
      <3>1. i \in DOMAIN calls /\ calls'[i] = calls[i]
        BY <1>4, <2>2
      <3>2. /\ calls[i].key \in DOMAIN cache
            /\ cache[calls[i].key] = calls[i].exports
            /\ calls[i].exports \notin done
        BY <3>1 DEF CacheInv, CacheSound
      <3>3. QED
        BY <1>3, <1>5, <3>1, <3>2
    <2>3. QED
      BY <2>1, <2>2
  <1>11. QED
    BY <1>7, <1>8, <1>9, <1>10 DEF CacheInv, CacheSound

\* catch (...) removes the failed key and nothing else.
LEMMA CacheFail ==
  ASSUME TypeOK, CacheInv, Fail
  PROVE  CacheInv'
  <1>1. /\ calls # <<>> /\ calls' = SubSeq(calls, 1, Depth - 1)
        /\ cache' = Without(Top.key) /\ done' = done
    BY DEF Fail
  <1>2. /\ Depth \in Nat /\ Depth > 0 /\ DOMAIN calls = 1 .. Depth /\ Top = calls[Depth]
        /\ DOMAIN calls' = 1 .. Depth - 1
        /\ \A i \in 1 .. Depth - 1 : calls'[i] = calls[i]
    BY <1>1, TopFacts, PopFacts
  <1>3. /\ DOMAIN cache' = DOMAIN cache \ {Top.key}
        /\ \A k \in DOMAIN cache' : cache'[k] = cache[k]
    BY <1>1 DEF Without, Restrict
  <1>4. NoReentry'
    BY <1>2 DEF CacheInv, NoReentry
  <1>5. CacheInjective'
    BY <1>3 DEF CacheInv, CacheInjective
  <1>6. \A k \in DOMAIN cache' :
          \/ cache'[k] \in done'
          \/ \E i \in DOMAIN calls' : calls'[i].key = k
    <2> SUFFICES ASSUME NEW k \in DOMAIN cache', cache'[k] \notin done'
                 PROVE  \E i \in DOMAIN calls' : calls'[i].key = k
      OBVIOUS
    <2>1. k \in DOMAIN cache /\ k # Top.key /\ cache[k] \notin done
      BY <1>1, <1>3
    <2>2. PICK i \in DOMAIN calls : calls[i].key = k
      BY <2>1 DEF CacheInv, CacheSound
    <2>3. i # Depth
      BY <1>2, <2>1, <2>2
    <2>4. i \in DOMAIN calls' /\ calls'[i] = calls[i]
      BY <1>2, <2>2, <2>3
    <2>5. QED
      BY <2>2, <2>4
  <1>7. ASSUME NEW i \in DOMAIN calls'
        PROVE  /\ calls'[i].key \in DOMAIN cache'
               /\ cache'[calls'[i].key] = calls'[i].exports
               /\ calls'[i].exports \notin done'
    <2>1. i \in DOMAIN calls /\ i # Depth /\ calls'[i] = calls[i] /\ Depth \in DOMAIN calls
      BY <1>2
    <2>2. calls[i].key # Top.key
      BY <1>2, <2>1 DEF CacheInv, NoReentry
    <2>3. QED
      BY <1>1, <1>3, <2>1, <2>2 DEF CacheInv, CacheSound
  <1>8. QED
    BY <1>4, <1>5, <1>6, <1>7 DEF CacheInv, CacheSound

\* A null preload entry enters the cache as a module that is loaded.
LEMMA CacheNull ==
  ASSUME TypeOK, CacheInv, NEW n \in Name, NullPreload(n)
  PROVE  CacheInv'
  <1> DEFINE key == Resolved(KeyOf(n, id))
  <1>1. /\ key \notin DOMAIN cache
        /\ created' = created + 1
        /\ cache' = With(key, created')
        /\ done' = done \cup {created'}
        /\ calls' = calls
    BY DEF NullPreload
  <1> HIDE DEF key
  <1>2. /\ DOMAIN cache' = DOMAIN cache \cup {key}
        /\ cache'[key] = created'
        /\ \A k \in DOMAIN cache : k # key => cache'[k] = cache[k]
    BY <1>1 DEF With
  <1>3. /\ \A k \in DOMAIN cache : cache[k] # created'
        /\ \A i \in DOMAIN calls : calls[i].exports # created'
    BY <1>1, CallFacts DEF TypeOK
  <1>4. NoReentry'
    BY <1>1 DEF CacheInv, NoReentry
  <1>5. CacheInjective'
    BY <1>1, <1>2, <1>3 DEF CacheInv, CacheInjective
  <1>6. CacheSound'
    BY <1>1, <1>2, <1>3 DEF CacheInv, CacheSound
  <1>7. QED
    BY <1>4, <1>5, <1>6 DEF CacheInv

\* flusspferd_load has returned and a script of the same name is run next.
LEMMA CacheSoScript ==
  ASSUME TypeOK, CacheInv, EndSo, FileOf(Top.key) \in Js
  PROVE  CacheInv'
  <1>1. PICK exports \in {Top.exports, created + 1} :
          /\ cache' = With(Top.key, exports)
          /\ calls' = [calls EXCEPT ![Depth].exports = exports, ![Depth].stage = "js"]
          /\ done' = done
    BY DEF EndSo
  <1>2. /\ Depth \in DOMAIN calls /\ Top = calls[Depth] /\ Top \in CallRec
        /\ Top.exports \in 1 .. created
    BY TopFacts DEF EndSo
  <1>3. /\ DOMAIN cache' = DOMAIN cache \cup {Top.key}
        /\ cache'[Top.key] = exports
        /\ \A k \in DOMAIN cache : k # Top.key => cache'[k] = cache[k]
    BY <1>1 DEF With
  <1>4. /\ DOMAIN calls' = DOMAIN calls
        /\ calls'[Depth].exports = exports
        /\ \A i \in DOMAIN calls : i # Depth => calls'[i] = calls[i]
        /\ \A i \in DOMAIN calls : calls'[i].key = calls[i].key
    BY <1>1, <1>2 DEF CallRec
  <1>5. Top.key \in DOMAIN cache /\ cache[Top.key] = Top.exports /\ Top.exports \notin done
    BY <1>2 DEF CacheInv, CacheSound
  <1>6. exports \notin done /\ \A k \in DOMAIN cache : k # Top.key => cache[k] # exports
    <2>1. CASE exports = Top.exports
      BY <1>5, <2>1 DEF CacheInv, CacheInjective
    <2>2. CASE exports = created + 1
      BY <2>2 DEF TypeOK
    <2>3. QED
      BY <2>1, <2>2
  <1>7. NoReentry'
    BY <1>4 DEF CacheInv, NoReentry
  <1>8. CacheInjective'
    BY <1>3, <1>6 DEF CacheInv, CacheInjective
  <1>9. \A k \in DOMAIN cache' :
          \/ cache'[k] \in done'
          \/ \E i \in DOMAIN calls' : calls'[i].key = k
    BY <1>1, <1>2, <1>3, <1>4 DEF CacheInv, CacheSound
  <1>10. ASSUME NEW i \in DOMAIN calls'
         PROVE  /\ calls'[i].key \in DOMAIN cache'
                /\ cache'[calls'[i].key] = calls'[i].exports
                /\ calls'[i].exports \notin done'
    <2>1. CASE i = Depth
      <3>1. calls'[i].key = Top.key /\ calls'[i].exports = exports
        BY <1>2, <1>4, <2>1
      <3>2. done' = done
        BY <1>1
      <3>3. QED
        BY <1>3, <1>6, <3>1, <3>2
    <2>2. CASE i # Depth
      <3>1. i \in DOMAIN calls /\ calls'[i] = calls[i] /\ calls[i].key # Top.key
        BY <1>2, <1>4, <2>2 DEF CacheInv, NoReentry
      <3>2. /\ calls[i].key \in DOMAIN cache
            /\ cache[calls[i].key] = calls[i].exports
            /\ calls[i].exports \notin done
        BY <3>1 DEF CacheInv, CacheSound
      <3>3. cache'[calls[i].key] = cache[calls[i].key] /\ done' = done
        BY <1>1, <1>3, <3>1, <3>2
      <3>4. QED
        BY <1>3, <3>1, <3>2, <3>3
    <2>3. QED
      BY <2>1, <2>2
  <1>11. QED
    BY <1>7, <1>8, <1>9, <1>10 DEF CacheInv, CacheSound

\* flusspferd_load has returned and there is no such script.
LEMMA CacheSoEnd ==
  ASSUME TypeOK, CacheInv, EndSo, FileOf(Top.key) \notin Js
  PROVE  CacheInv'
  <1>1. PICK exports \in {Top.exports, created + 1} :
          cache' = With(Top.key, exports) /\ Finish(exports)
    BY DEF EndSo
  <1>2. calls # <<>>
    BY DEF EndSo
  <1>3. /\ Depth \in Nat /\ Depth > 0 /\ DOMAIN calls = 1 .. Depth /\ Top = calls[Depth]
        /\ DOMAIN calls' = 1 .. Depth - 1
        /\ \A i \in 1 .. Depth - 1 : calls'[i] = calls[i]
        /\ done' = done \cup {exports}
        /\ Depth \in DOMAIN calls
    BY <1>1, <1>2, TopFacts, PopFacts DEF Finish
  <1>4. /\ DOMAIN cache' = DOMAIN cache \cup {Top.key}
        /\ cache'[Top.key] = exports
        /\ \A k \in DOMAIN cache : k # Top.key => cache'[k] = cache[k]
    BY <1>1 DEF With
  <1>5. Top.key \in DOMAIN cache /\ cache[Top.key] = Top.exports
    BY <1>3 DEF CacheInv, CacheSound
  <1>6. \A k \in DOMAIN cache : k # Top.key => cache[k] # exports
    <2>1. CASE exports = Top.exports
      BY <1>5, <2>1 DEF CacheInv, CacheInjective
    <2>2. CASE exports = created + 1
      BY <2>2 DEF TypeOK
    <2>3. QED
      BY <2>1, <2>2
  <1>7. NoReentry'
    BY <1>3 DEF CacheInv, NoReentry
  <1>8. CacheInjective'
    BY <1>4, <1>6 DEF CacheInv, CacheInjective
  <1>9. \A k \in DOMAIN cache' :
          \/ cache'[k] \in done'
          \/ \E i \in DOMAIN calls' : calls'[i].key = k
    <2> SUFFICES ASSUME NEW k \in DOMAIN cache', cache'[k] \notin done'
                 PROVE  \E i \in DOMAIN calls' : calls'[i].key = k
      OBVIOUS
    <2>1. k \in DOMAIN cache /\ k # Top.key /\ cache[k] \notin done
      BY <1>3, <1>4
    <2>2. PICK i \in DOMAIN calls : calls[i].key = k
      BY <2>1 DEF CacheInv, CacheSound
    <2>3. i # Depth
      BY <1>3, <2>1, <2>2
    <2>4. i \in DOMAIN calls' /\ calls'[i] = calls[i]
      BY <1>3, <2>2, <2>3
    <2>5. QED
      BY <2>2, <2>4
  <1>10. ASSUME NEW i \in DOMAIN calls'
         PROVE  /\ calls'[i].key \in DOMAIN cache'
                /\ cache'[calls'[i].key] = calls'[i].exports
                /\ calls'[i].exports \notin done'
    <2>1. i \in DOMAIN calls /\ i # Depth /\ calls'[i] = calls[i]
      BY <1>3
    <2>2. calls[i].key # Top.key
      BY <1>3, <2>1 DEF CacheInv, NoReentry
    <2>3. /\ calls[i].key \in DOMAIN cache
          /\ cache[calls[i].key] = calls[i].exports
          /\ calls[i].exports \notin done
      BY <2>1 DEF CacheInv, CacheSound
    <2>4. calls[i].exports # exports
      BY <1>6, <2>2, <2>3
    <2>5. QED
      BY <1>3, <1>4, <2>1, <2>2, <2>3, <2>4
  <1>11. QED
    BY <1>7, <1>8, <1>9, <1>10 DEF CacheInv, CacheSound

LEMMA CacheStep ==
  ASSUME TypeOK, CacheInv, [Next]_vars
  PROVE  CacheInv'
  <1>1. CASE UNCHANGED <<cache, calls, done>>
    BY <1>1 DEF CacheInv, CacheSound, NoReentry, CacheInjective
  <1>2. ASSUME UNCHANGED vars \/ Catch \/ \E n \in Name : Hit(n) \/ NotLoaded(n)
        PROVE  CacheInv'
    BY <1>1, <1>2 DEF vars, Hit, NotLoaded, Catch
  <1>3. CASE EndPreload \/ EndJs
    BY <1>3, CacheFinish DEF EndPreload, EndJs
  <1>4. CASE EndSo
    BY <1>4, CacheSoScript, CacheSoEnd
  <1>5. QED
    BY <1>2, <1>3, <1>4, CacheStart, StartsFacts, CacheNull, CacheFail DEF Next

LEMMA CacheHolds == Spec => []CacheInv
  <1>1. Init => CacheInv
    BY DEF Init, CacheInv, CacheSound, NoReentry, CacheInjective
  <1>2. TypeOK /\ CacheInv /\ [Next]_vars => CacheInv'
    BY CacheStep
  <1>3. QED
    BY <1>1, <1>2, TypeCorrect, PTL DEF Spec

\* The cache holds what has been loaded and what is being loaded, under the
\* exports each unfinished require call will return; no failed load is in it.
THEOREM CacheSoundHolds == Spec => []CacheSound
  BY CacheHolds, PTL DEF CacheInv

\* No module's code is run again while it is running, however modules
\* require each other.
THEOREM NoReentryHolds == Spec => []NoReentry
  BY CacheHolds, PTL DEF CacheInv

-----------------------------------------------------------------------------
(* require.id. *)

\* A module's code is started: the id it saves was resolved, hence its key
\* is in the cache and is not the new one.
LEMMA IdStart ==
  ASSUME TypeOK, IdInv, Starts
  PROVE  IdInv'
  <1>1. PICK asked \in Key, stage \in Stage :
          Resolved(asked) \notin DOMAIN cache /\ Begin(asked, Resolved(asked), stage)
    BY DEF Starts
  <1> DEFINE key == Resolved(asked)
  <1>2. key \in Key
    BY ResolvedKey
  <1>3. id' = asked /\ Resolved(id') = key /\ key \notin DOMAIN cache
    BY <1>1 DEF Begin, Resolved
  <1>4. Begin(asked, key, stage)
    BY <1>1
  <1> HIDE DEF key
  <1>5. /\ Depth \in Nat /\ DOMAIN calls = 1 .. Depth
        /\ DOMAIN calls' = 1 .. Depth + 1
        /\ \A i \in 1 .. Depth : calls'[i] = calls[i]
        /\ calls'[Depth + 1] =
             [key |-> key, module |-> id, exports |-> created', stage |-> stage]
    BY ONLY TypeOK, stage \in Stage, asked \in Key, <1>2, <1>4, BeginFacts
  <1>6. DOMAIN cache' = DOMAIN cache \cup {key}
    BY <1>4 DEF Begin, With
  <1>7. /\ Known(id)
        /\ \A i \in DOMAIN calls : Known(calls[i].module)
    BY DEF IdInv, IdKnown
  <1>8. \A i \in DOMAIN calls' :
          calls'[i].module = NoId \/ Resolved(calls'[i].module) \in DOMAIN cache
    <2> TAKE i \in DOMAIN calls'
    <2>1. CASE i = Depth + 1
      BY <1>5, <1>7, <2>1 DEF Known
    <2>2. CASE i # Depth + 1
      <3>1. i \in DOMAIN calls /\ calls'[i] = calls[i]
        BY <1>5, <2>2
      <3>2. QED
        BY <1>7, <3>1 DEF Known
    <2>3. QED
      BY <2>1, <2>2
  <1>9. IdKnown'
    BY <1>3, <1>6, <1>8 DEF IdKnown, Known, Resolved
  <1>10. ASSUME NEW i \in DOMAIN calls', NEW j \in DOMAIN calls',
                i <= j, calls'[i].module # NoId
         PROVE  Resolved(calls'[i].module) # calls'[j].key
    <2>1. CASE j = Depth + 1
      <3>1. calls'[j].key = key
        BY <1>5, <2>1
      <3>2. QED
        BY <1>3, <1>8, <1>10, <3>1
    <2>2. CASE j # Depth + 1
      <3>1. /\ j \in DOMAIN calls /\ calls'[j] = calls[j]
            /\ i \in DOMAIN calls /\ calls'[i] = calls[i]
        BY <1>5, <1>10, <2>2
      <3>2. QED
        BY <1>10, <3>1 DEF IdInv, SavedBefore
    <2>3. QED
      BY <2>1, <2>2
  <1>11. SavedBefore'
    BY <1>10 DEF SavedBefore, Resolved
  <1>12. QED
    BY <1>9, <1>11 DEF IdInv

\* A call ends: the id it puts back, and those of the calls around it, are
\* still in the cache, though its own key may have been removed.
LEMMA IdEnd ==
  ASSUME TypeOK, IdInv, calls # <<>>,
         calls' = SubSeq(calls, 1, Depth - 1),
         id' \in {id, Top.module},
         \/ DOMAIN cache \subseteq DOMAIN cache'
         \/ id' = Top.module /\ DOMAIN cache' = DOMAIN cache \ {Top.key}
  PROVE  IdInv'
  <1>1. /\ Depth \in Nat /\ Depth \in DOMAIN calls /\ DOMAIN calls = 1 .. Depth
        /\ Top = calls[Depth]
        /\ DOMAIN calls' = 1 .. Depth - 1
        /\ \A i \in 1 .. Depth - 1 : calls'[i] = calls[i]
    BY TopFacts, PopFacts
  <1>2. Known(id) /\ \A i \in DOMAIN calls : Known(calls[i].module)
    BY DEF IdInv, IdKnown
  <1>3. \A i \in DOMAIN calls :
          calls[i].module = NoId \/ Resolved(calls[i].module) \in DOMAIN cache'
    <2> TAKE i \in DOMAIN calls
    <2>1. CASE DOMAIN cache \subseteq DOMAIN cache'
      BY <1>2, <2>1 DEF Known
    <2>2. CASE DOMAIN cache' = DOMAIN cache \ {Top.key}
      <3>1. i <= Depth
        BY <1>1
      <3>2. calls[i].module # NoId => Resolved(calls[i].module) # Top.key
        BY <1>1, <3>1 DEF IdInv, SavedBefore
      <3>3. QED
        BY <1>2, <2>2, <3>2 DEF Known
    <2>3. QED
      BY <2>1, <2>2
  <1>4. id' = NoId \/ Resolved(id') \in DOMAIN cache'
    <2>1. CASE id' = Top.module
      BY <1>1, <1>3, <2>1
    <2>2. CASE id' = id /\ DOMAIN cache \subseteq DOMAIN cache'
      BY <1>2, <2>2 DEF Known
    <2>3. QED
      BY <2>1, <2>2
  <1>5. \A i \in DOMAIN calls' : i \in DOMAIN calls /\ calls'[i] = calls[i]
    BY <1>1
  <1>6. IdKnown'
    BY <1>3, <1>4, <1>5 DEF IdKnown, Known, Resolved
  <1>7. SavedBefore'
    <2>1. ASSUME NEW i \in DOMAIN calls', NEW j \in DOMAIN calls',
                 i <= j, calls'[i].module # NoId
          PROVE  Resolved(calls'[i].module) # calls'[j].key
      BY <1>5, <2>1 DEF IdInv, SavedBefore
    <2>2. QED
      BY <2>1 DEF SavedBefore, Resolved
  <1>8. QED
    BY <1>6, <1>7 DEF IdInv

\* Only the cache and the exports of a call change, and no key goes.
LEMMA IdGrow ==
  ASSUME IdInv,
         DOMAIN cache \subseteq DOMAIN cache',
         DOMAIN calls' = DOMAIN calls,
         \A i \in DOMAIN calls :
           calls'[i].key = calls[i].key /\ calls'[i].module = calls[i].module,
         id' = id \/ Resolved(id') \in DOMAIN cache'
  PROVE  IdInv'
  <1>1. Known(id) /\ \A i \in DOMAIN calls : Known(calls[i].module)
    BY DEF IdInv, IdKnown
  <1>2. IdKnown'
    BY <1>1 DEF IdKnown, Known, Resolved
  <1>3. SavedBefore'
    BY DEF IdInv, SavedBefore, Resolved
  <1>4. QED
    BY <1>2, <1>3 DEF IdInv

LEMMA IdStep ==
  ASSUME TypeOK, IdInv, [Next]_vars
  PROVE  IdInv'
  <1>1. CASE UNCHANGED <<id, cache, calls>>
    BY <1>1, IdGrow
  <1>2. ASSUME UNCHANGED vars \/ Catch \/ \E n \in Name : NotLoaded(n)
        PROVE  IdInv'
    BY <1>1, <1>2 DEF vars, NotLoaded, Catch
  <1>3. ASSUME NEW n \in Name, Hit(n)
        PROVE  IdInv'
    <2>1. id' = KeyOf(n, id) /\ Resolved(KeyOf(n, id)) \in DOMAIN cache
          /\ cache' = cache /\ calls' = calls
      BY <1>3 DEF Hit
    <2>2. Resolved(id') \in DOMAIN cache'
      BY <2>1 DEF Resolved
    <2>3. QED
      BY ONLY IdInv, <2>1, <2>2, IdGrow
  <1>4. ASSUME NEW n \in Name, NullPreload(n)
        PROVE  IdInv'
    <2>1. /\ id' = KeyOf(n, id) /\ calls' = calls
          /\ cache' = With(Resolved(KeyOf(n, id)), created')
      BY <1>4 DEF NullPreload
    <2>2. DOMAIN cache' = DOMAIN cache \cup {Resolved(KeyOf(n, id))}
      BY <2>1 DEF With
    <2>3. Resolved(id') \in DOMAIN cache'
      BY <2>1, <2>2 DEF Resolved
    <2>4. QED
      BY ONLY IdInv, <2>1, <2>2, <2>3, IdGrow
  <1>5. CASE EndPreload \/ EndJs
    <2>1. calls # <<>> /\ Finish(Top.exports) /\ cache' = cache
      BY <1>5 DEF EndPreload, EndJs
    <2>2. calls' = SubSeq(calls, 1, Depth - 1) /\ id' \in {id, Top.module}
      BY <2>1 DEF Finish
    <2>3. QED
      BY <2>1, <2>2, IdEnd
  <1>6. CASE EndSo
    <2>1. PICK exports :
            /\ cache' = With(Top.key, exports)
            /\ IF FileOf(Top.key) \in Js
                 THEN /\ calls' = [calls EXCEPT ![Depth].exports = exports, ![Depth].stage = "js"]
                      /\ id' = id
                 ELSE Finish(exports)
      BY <1>6 DEF EndSo
    <2>2. calls # <<>>
      BY <1>6 DEF EndSo
    <2>3. DOMAIN cache \subseteq DOMAIN cache'
      BY <2>1 DEF With
    <2>4. CASE FileOf(Top.key) \in Js
      <3>1. Depth \in DOMAIN calls /\ calls[Depth] \in CallRec
        BY <2>2, TopFacts
      <3>2. /\ calls' = [calls EXCEPT ![Depth].exports = exports, ![Depth].stage = "js"]
            /\ id' = id
        BY <2>1, <2>4
      <3>3. /\ DOMAIN calls' = DOMAIN calls
            /\ \A i \in DOMAIN calls :
                 calls'[i].key = calls[i].key /\ calls'[i].module = calls[i].module
        BY <3>1, <3>2 DEF CallRec
      <3>4. QED
        BY ONLY IdInv, <2>3, <3>2, <3>3, IdGrow
    <2>5. CASE FileOf(Top.key) \notin Js
      <3>1. calls' = SubSeq(calls, 1, Depth - 1) /\ id' \in {id, Top.module}
        BY <2>1, <2>5 DEF Finish
      <3>2. QED
        BY <2>2, <2>3, <3>1, IdEnd
    <2>6. QED
      BY <2>4, <2>5
  <1>7. CASE Fail
    <2>1. /\ calls # <<>> /\ calls' = SubSeq(calls, 1, Depth - 1)
          /\ cache' = Without(Top.key) /\ id' = Top.module
      BY <1>7 DEF Fail
    <2>2. DOMAIN cache' = DOMAIN cache \ {Top.key}
      BY <2>1, CacheFacts
    <2>3. QED
      BY <2>1, <2>2, IdEnd
  <1>8. QED
    BY <1>2, <1>3, <1>4, <1>5, <1>6, <1>7, IdStart, StartsFacts DEF Next

\* require.id, against which relative names are resolved, and every id a
\* call will put back, is empty or names a module that is in the cache:
\* never one whose load has failed.
THEOREM IdKnownHolds == Spec => []IdKnown
  <1>1. Init => IdInv
    BY DEF Init, IdInv, IdKnown, Known, SavedBefore
  <1>2. TypeOK /\ IdInv /\ [Next]_vars => IdInv'
    BY IdStep
  <1>3. IdInv => IdKnown
    BY DEF IdInv
  <1>4. QED
    BY <1>1, <1>2, <1>3, TypeCorrect, PTL DEF Spec

-----------------------------------------------------------------------------
(* The loader implements the registry of ModuleRegistry. *)

ExportsOf(k) == IF k \in DOMAIN cache THEN cache[k] ELSE 0

\* A step that changes what the registry shows of one key only.
LEMMA MoveOne ==
  ASSUME NEW key \in Key, NEW from, NEW to, NEW obj,
         PhaseOf(key) = from, PhaseOf(key)' = to, ExportsOf(key)' = obj,
         \A k \in Key : k # key => PhaseOf(k)' = PhaseOf(k) /\ ExportsOf(k)' = ExportsOf(k)
  PROVE  Registry!Move(key, from, to) /\ Registry!Bind(key, obj)
  BY DEF Registry!Move, Registry!Bind, ExportsOf

\* The other keys when one key's entry, and no finished load of theirs,
\* changes.
LEMMA OthersStay ==
  ASSUME NEW key,
         \A k \in Key : k # key => (k \in DOMAIN cache' <=> k \in DOMAIN cache),
         \A k \in DOMAIN cache : k # key =>
            /\ cache'[k] = cache[k]
            /\ cache[k] \in done' <=> cache[k] \in done
  PROVE  \A k \in Key : k # key => PhaseOf(k)' = PhaseOf(k) /\ ExportsOf(k)' = ExportsOf(k)
  BY DEF PhaseOf, ExportsOf

\* An object no cache entry holds is new to the registry.
LEMMA NewToRegistry ==
  ASSUME NEW obj, obj # 0, \A k \in DOMAIN cache : cache[k] # obj
  PROVE  Registry!New(obj)
  BY DEF Registry!New

LEMMA NextObject ==
  ASSUME TypeOK
  PROVE  created + 1 # 0 /\ \A k \in DOMAIN cache : cache[k] # created + 1
  BY MaxObjectsAssumption DEF TypeOK

\* The key of the innermost call is being loaded.
LEMMA TopLoading ==
  ASSUME TypeOK, CacheInv, calls # <<>>
  PROVE  /\ Top.key \in Key /\ Top.key \in DOMAIN cache
         /\ cache[Top.key] = Top.exports
         /\ Top.exports \notin done /\ Top.exports \in Object
         /\ PhaseOf(Top.key) = "loading"
         /\ \A k \in DOMAIN cache : k # Top.key => cache[k] # Top.exports
  <1>1. Top \in CallRec /\ Top = calls[Depth] /\ Depth \in DOMAIN calls
    BY TopFacts
  <1>2. /\ Top.key \in DOMAIN cache /\ cache[Top.key] = Top.exports
        /\ Top.exports \notin done
    BY <1>1 DEF CacheInv, CacheSound
  <1>3. Top.key \in Key /\ Top.exports \in Object
    BY <1>1 DEF CallRec
  <1>4. \A k \in DOMAIN cache : k # Top.key => cache[k] # Top.exports
    BY <1>2 DEF CacheInv, CacheInjective
  <1>5. QED
    BY <1>2, <1>3, <1>4 DEF PhaseOf

LEMMA RegistryStart ==
  ASSUME TypeOK, Starts
  PROVE  \E k \in Key : Registry!Start(k)
  <1>1. PICK asked \in Key, stage \in Stage :
          Resolved(asked) \notin DOMAIN cache /\ Begin(asked, Resolved(asked), stage)
    BY DEF Starts
  <1> DEFINE key == Resolved(asked)
  <1>2. key \in Key
    BY ResolvedKey
  <1>3. /\ key \notin DOMAIN cache
        /\ created' = created + 1 /\ created < MaxObjects
        /\ cache' = With(key, created') /\ done' = done
    BY <1>1 DEF Begin
  <1> HIDE DEF key
  <1>4. /\ DOMAIN cache' = DOMAIN cache \cup {key}
        /\ cache'[key] = created'
        /\ \A j \in DOMAIN cache : j # key => cache'[j] = cache[j]
    BY <1>3 DEF With
  <1>5. created' \in Object /\ created' \notin done
    BY <1>3, MaxObjectsAssumption DEF Object, TypeOK
  <1>6. \A k \in Key : k # key => PhaseOf(k)' = PhaseOf(k) /\ ExportsOf(k)' = ExportsOf(k)
    BY <1>3, <1>4, OthersStay
  <1>7. PICK obj : obj = created + 1
    OBVIOUS
  <1>8. PhaseOf(key) = "absent" /\ PhaseOf(key)' = "loading" /\ ExportsOf(key)' = obj
    BY <1>3, <1>4, <1>5, <1>7 DEF PhaseOf, ExportsOf
  <1>9. Registry!Move(key, "absent", "loading") /\ Registry!Bind(key, obj)
    BY <1>2, <1>6, <1>8, MoveOne
  <1>10. Registry!New(obj)
    BY <1>7, NextObject, NewToRegistry
  <1>11. QED
    BY <1>2, <1>3, <1>5, <1>7, <1>9, <1>10 DEF Registry!Start, Registry!BindNew

LEMMA RegistryTrivial ==
  ASSUME TypeOK, NEW n \in Name, NullPreload(n)
  PROVE  \E k \in Key : Registry!Trivial(k)
  <1>0. PICK key : key = Resolved(KeyOf(n, id))
    OBVIOUS
  <1>1. key \in Key
    BY <1>0, KeyAssumption, ResolvedKey DEF TypeOK
  <1>2. /\ key \notin DOMAIN cache
        /\ created' = created + 1 /\ created < MaxObjects
        /\ cache' = With(key, created') /\ done' = done \cup {created'}
    BY <1>0 DEF NullPreload
  <1>3. /\ DOMAIN cache' = DOMAIN cache \cup {key}
        /\ cache'[key] = created'
        /\ \A j \in DOMAIN cache : j # key => cache'[j] = cache[j]
    BY <1>2 DEF With
  <1>4. created' \in Object
    BY <1>2, MaxObjectsAssumption DEF Object, TypeOK
  <1>5. \A k \in DOMAIN cache : cache[k] # created'
    BY <1>2, NextObject
  <1>6. \A k \in Key : k # key => PhaseOf(k)' = PhaseOf(k) /\ ExportsOf(k)' = ExportsOf(k)
    BY <1>2, <1>3, <1>5, OthersStay
  <1>7. PICK obj : obj = created + 1
    OBVIOUS
  <1>8. PhaseOf(key) = "absent" /\ PhaseOf(key)' = "loaded" /\ ExportsOf(key)' = obj
    <2>1. key \in DOMAIN cache' /\ cache'[key] = obj /\ obj \in done'
      BY <1>2, <1>3, <1>7
    <2>2. PhaseOf(key) = "absent"
      BY <1>2 DEF PhaseOf
    <2>3. PhaseOf(key)' = "loaded" /\ ExportsOf(key)' = obj
      BY <2>1 DEF PhaseOf, ExportsOf
    <2>4. QED
      BY <2>2, <2>3
  <1>9. Registry!Move(key, "absent", "loaded") /\ Registry!Bind(key, obj)
    BY <1>1, <1>6, <1>8, MoveOne
  <1>10. Registry!New(obj)
    BY <1>7, NextObject, NewToRegistry
  <1>11. QED
    BY <1>1, <1>2, <1>4, <1>7, <1>9, <1>10 DEF Registry!Trivial, Registry!BindNew

\* A load ends normally with the exports it has in the cache.
LEMMA RegistryFinish ==
  ASSUME TypeOK, CacheInv, calls # <<>>,
         UNCHANGED cache, done' = done \cup {Top.exports}
  PROVE  \E k \in Key : Registry!Finish(k)
  <1>0. PICK key, obj : key = Top.key /\ obj = Top.exports
    OBVIOUS
  <1>1. /\ key \in Key /\ key \in DOMAIN cache
        /\ cache[key] = obj /\ obj \in Object
        /\ PhaseOf(key) = "loading"
        /\ \A k \in DOMAIN cache : k # key => cache[k] # obj
    BY <1>0, TopLoading
  <1>2. \A k \in Key : k # key => PhaseOf(k)' = PhaseOf(k) /\ ExportsOf(k)' = ExportsOf(k)
    BY <1>0, <1>1 DEF PhaseOf, ExportsOf
  <1>3. PhaseOf(key)' = "loaded" /\ ExportsOf(key)' = obj
    BY <1>0, <1>1 DEF PhaseOf, ExportsOf
  <1>4. Registry!Move(key, "loading", "loaded") /\ Registry!Bind(key, obj)
    BY <1>1, <1>2, <1>3, MoveOne
  <1>5. [k \in Key |-> IF k \in DOMAIN cache THEN cache[k] ELSE 0][key] = obj
    BY <1>1
  <1>6. QED
    BY <1>1, <1>4, <1>5 DEF Registry!Finish

LEMMA RegistryDrop ==
  ASSUME TypeOK, CacheInv, Fail
  PROVE  \E k \in Key : Registry!Drop(k)
  <1>1. calls # <<>> /\ cache' = Without(Top.key) /\ done' = done
    BY DEF Fail
  <1>2. PICK key : key = Top.key
    OBVIOUS
  <1>3. key \in Key /\ key \in DOMAIN cache /\ PhaseOf(key) = "loading"
    BY <1>1, <1>2, TopLoading
  <1>4. /\ DOMAIN cache' = DOMAIN cache \ {key}
        /\ \A k \in DOMAIN cache \ {key} : cache'[k] = cache[k]
    BY <1>1, <1>2, CacheFacts
  <1>5. \A k \in Key : k # key => PhaseOf(k)' = PhaseOf(k) /\ ExportsOf(k)' = ExportsOf(k)
    BY <1>1, <1>4, OthersStay
  <1>6. PhaseOf(key)' = "absent" /\ ExportsOf(key)' = 0
    BY <1>4 DEF PhaseOf, ExportsOf
  <1>7. Registry!Move(key, "loading", "absent") /\ Registry!Bind(key, 0)
    BY <1>3, <1>5, <1>6, MoveOne
  <1>8. QED
    BY <1>3, <1>7 DEF Registry!Drop

\* flusspferd_load has returned: the exports are new or those it was given,
\* and the load goes on with a script or has ended.
LEMMA RegistrySo ==
  ASSUME TypeOK, CacheInv, EndSo
  PROVE  \/ \E k \in Key : Registry!Change(k) \/ Registry!Finish(k)
         \/ \A k \in Key : PhaseOf(k)' = PhaseOf(k) /\ ExportsOf(k)' = ExportsOf(k)
  <1>1. PICK exports \in {Top.exports, created + 1} :
          /\ exports <= MaxObjects
          /\ cache' = With(Top.key, exports)
          /\ \/ done' = done
             \/ done' = done \cup {exports}
    BY DEF EndSo, Finish
  <1>2. calls # <<>>
    BY DEF EndSo
  <1>3. PICK key : key = Top.key
    OBVIOUS
  <1>4. /\ key \in Key /\ key \in DOMAIN cache
        /\ cache[key] = Top.exports
        /\ Top.exports \in Object /\ Top.exports \notin done
        /\ PhaseOf(key) = "loading"
        /\ \A k \in DOMAIN cache : k # key => cache[k] # Top.exports
    BY <1>2, <1>3, TopLoading
  <1>5. /\ DOMAIN cache' = DOMAIN cache
        /\ cache'[key] = exports
        /\ \A j \in DOMAIN cache : j # key => cache'[j] = cache[j]
    BY <1>1, <1>3, <1>4 DEF With
  <1>6. exports \in Object /\ exports \notin done
    BY <1>1, <1>4, MaxObjectsAssumption DEF Object, TypeOK
  <1>7. \A k \in DOMAIN cache : k # key => cache[k] # exports
    BY <1>1, <1>4, NextObject
  <1>8. \A k \in Key : k # key => PhaseOf(k)' = PhaseOf(k) /\ ExportsOf(k)' = ExportsOf(k)
    BY <1>1, <1>5, <1>7, OthersStay
  <1>9. ExportsOf(key)' = exports
    BY <1>4, <1>5 DEF ExportsOf
  <1>10. Registry!New(exports) \/ exports = cache[key]
    BY <1>1, <1>4, NextObject, NewToRegistry
  <1>11. CASE done' = done /\ exports = cache[key]
    <2>1. \A k \in DOMAIN cache : cache'[k] = cache[k]
      BY <1>5, <1>11
    <2>2. QED
      BY <1>5, <1>11, <2>1 DEF PhaseOf, ExportsOf
  <1>12. CASE done' = done /\ exports # cache[key]
    <2>1. PhaseOf(key)' = "loading"
      BY <1>4, <1>5, <1>6, <1>12 DEF PhaseOf
    <2>2. Registry!Move(key, "loading", "loading") /\ Registry!Bind(key, exports)
      BY <1>4, <1>8, <1>9, <2>1, MoveOne
    <2>3. QED
      BY <1>4, <1>6, <1>10, <1>12, <2>2 DEF Registry!Change, Registry!BindNew
  <1>13. CASE done' = done \cup {exports}
    <2>1. PhaseOf(key)' = "loaded"
      BY <1>4, <1>5, <1>13 DEF PhaseOf
    <2>2. [k \in Key |-> IF k \in DOMAIN cache THEN cache[k] ELSE 0][key] = cache[key]
      BY <1>4
    <2>3. Registry!New(exports) \/ exports = [k \in Key |-> IF k \in DOMAIN cache THEN cache[k] ELSE 0][key]
      BY <1>10, <2>2
    <2>4. Registry!Move(key, "loading", "loaded") /\ Registry!Bind(key, exports)
      BY <1>4, <1>8, <1>9, <2>1, MoveOne
    <2>5. QED
      BY <1>4, <1>6, <2>3, <2>4 DEF Registry!Finish
  <1>14. QED
    BY <1>1, <1>11, <1>12, <1>13

\* What the registry shows.
Shown == <<[k \in Key |-> PhaseOf(k)],
           [k \in Key |-> IF k \in DOMAIN cache THEN cache[k] ELSE 0]>>

LEMMA RegistryStep ==
  ASSUME TypeOK, CacheInv, [Next]_vars
  PROVE  [Registry!RegistryNext]_Shown
  <1>1. ASSUME UNCHANGED <<cache, done>>
        PROVE  UNCHANGED Shown
    BY <1>1 DEF Shown, PhaseOf
  <1>2. ASSUME UNCHANGED vars \/ Catch \/ \E n \in Name : Hit(n) \/ NotLoaded(n)
        PROVE  UNCHANGED Shown
    BY <1>1, <1>2 DEF vars, Hit, NotLoaded, Catch
  <1>3. CASE Starts
    BY <1>3, RegistryStart DEF Registry!RegistryNext
  <1>4. ASSUME NEW n \in Name, NullPreload(n)
        PROVE  Registry!RegistryNext
    BY <1>4, RegistryTrivial DEF Registry!RegistryNext
  <1>5. CASE EndPreload \/ EndJs
    <2>1. calls # <<>> /\ UNCHANGED cache /\ done' = done \cup {Top.exports}
      BY <1>5 DEF EndPreload, EndJs, Finish
    <2>2. QED
      BY <2>1, RegistryFinish DEF Registry!RegistryNext
  <1>6. CASE EndSo
    <2>1. ASSUME \A k \in Key : PhaseOf(k)' = PhaseOf(k) /\ ExportsOf(k)' = ExportsOf(k)
          PROVE  UNCHANGED Shown
      BY <2>1 DEF Shown, ExportsOf
    <2>2. QED
      BY <1>6, <2>1, RegistrySo DEF Registry!RegistryNext
  <1>7. CASE Fail
    BY <1>7, RegistryDrop DEF Registry!RegistryNext
  <1>8. QED
    BY <1>2, <1>3, <1>4, <1>5, <1>6, <1>7, StartsFacts DEF Next

\* Whatever order loads nest, fail and end in, require keeps the promise of
\* ModuleRegistry: a key is loaded at most once at a time, a failed load
\* leaves no trace, and a loaded module stays with its exports object.
THEOREM ImplementsRegistryHolds == Spec => ImplementsRegistry
  <1>1. Init => Registry!RegistryInit
    BY DEF Init, Registry!RegistryInit, PhaseOf
  <1>2. TypeOK /\ CacheInv /\ [Next]_vars => [Registry!RegistryNext]_Shown
    BY RegistryStep
  <1>3. QED
    BY <1>1, <1>2, TypeCorrect, CacheHolds, PTL
       DEF Spec, ImplementsRegistry, Registry!RegistrySpec, Shown

-----------------------------------------------------------------------------
(***************************************************************************)
(* ModuleName: the file that a name is found as.  The loop of process_name *)
(* is related to the plain reading of a path, segment by segment.          *)
(***************************************************************************)

VisibleFold == INSTANCE FoldLemmas WITH op <- KeepNamed
MovingFold == INSTANCE FoldLemmas WITH op <- KeepMoving
CancelFold == INSTANCE FoldLemmas WITH op <- Cancel
StepFold == INSTANCE FoldLemmas WITH op <- Step

Strings == Seq(Segment)
Cancelled(b, s) == FoldLeft(Cancel, b, s)

\* The folds, an element at a time.
LEMMA VisibleFolds ==
  /\ Visible(<<>>) = <<>>
  /\ \A s \in Strings, e \in Segment : Visible(Append(s, e)) = KeepNamed(Visible(s), e)
  <1>1. \A s : Visible(s) = VisibleFold!Fold(<<>>, s)
    BY DEF Visible, FoldLeft, MapThenFoldSet, Max, VisibleFold!Fold, VisibleFold!Folding, VisibleFold!Largest
  <1>2. QED
    BY <1>1, VisibleFold!FoldNothing, VisibleFold!FoldMore DEF Strings

\* The same for what is left without dots.
LEMMA MovingFolds ==
  /\ Moving(<<>>) = <<>>
  /\ \A s \in Strings, e \in Segment : Moving(Append(s, e)) = KeepMoving(Moving(s), e)
  <1>1. \A s : Moving(s) = MovingFold!Fold(<<>>, s)
    BY DEF Moving, FoldLeft, MapThenFoldSet, Max, MovingFold!Fold, MovingFold!Folding, MovingFold!Largest
  <1>2. QED
    BY <1>1, MovingFold!FoldNothing, MovingFold!FoldMore DEF Strings

\* The same for the loop of process_name.
LEMMA CancelFolds ==
  /\ \A b : Cancelled(b, <<>>) = b
  /\ \A b : \A s \in Strings, e \in Segment : Cancelled(b, Append(s, e)) = Cancel(Cancelled(b, s), e)
  <1>1. \A b, s : Cancelled(b, s) = CancelFold!Fold(b, s)
    BY DEF Cancelled, FoldLeft, MapThenFoldSet, Max, CancelFold!Fold, CancelFold!Folding, CancelFold!Largest
  <1>2. QED
    BY <1>1, CancelFold!FoldNothing, CancelFold!FoldMore DEF Strings

\* The same for paths, also for one string after another.
LEMMA PathFolds ==
  /\ \A b : Path(b, <<>>) = b
  /\ \A b : \A s \in Strings, e \in Segment : Path(b, Append(s, e)) = Step(Path(b, s), e)
  /\ \A b : \A s, t \in Strings : Path(b, s \o t) = Path(Path(b, s), t)
  <1>1. \A b, s : Path(b, s) = StepFold!Fold(b, s)
    BY DEF Path, FoldLeft, MapThenFoldSet, Max, StepFold!Fold, StepFold!Folding, StepFold!Largest
  <1>2. QED
    BY <1>1, StepFold!FoldNothing, StepFold!FoldMore, StepFold!FoldConcat DEF Strings

\* The same from the root.
LEMMA RootFolds ==
  /\ Path(<<>>, <<>>) = <<>>
  /\ \A s \in Strings, e \in Segment : Path(<<>>, Append(s, e)) = Step(Path(<<>>, s), e)
  <1>1. PICK b : b = <<>>
    OBVIOUS
  <1>2. /\ Path(b, b) = b
        /\ \A s \in Strings, e \in Segment : Path(b, Append(s, e)) = Step(Path(b, s), e)
    BY <1>1, PathFolds
  <1>3. QED
    BY ONLY <1>1, <1>2

\* What has one element more at the end.
LEMMA FrontLast ==
  ASSUME NEW S, NEW s \in Seq(S), NEW e \in S
  PROVE  Front(Append(s, e)) = s /\ Last(Append(s, e)) = e
  <1>1. PICK n \in Nat : n = Len(s) /\ Len(Append(s, e)) = n + 1
    OBVIOUS
  <1>2. SubSeq(Append(s, e), 1, n) = s
    <2>1. PICK t : t = Append(s, e)
      OBVIOUS
    <2>2. t \in Seq(S) /\ Len(t) = n + 1 /\ \A i \in 1 .. n : t[i] = s[i]
      BY <1>1, <2>1
    <2>3. SubSeq(t, 1, n) \in Seq(S) /\ Len(SubSeq(t, 1, n)) = n /\ \A i \in 1 .. n : SubSeq(t, 1, n)[i] = t[i]
      BY <2>2
    <2>4. SubSeq(t, 1, n) = s
      BY <1>1, <2>2, <2>3, SeqEqual
    <2>5. QED
      BY <2>1, <2>4
  <1>3. Append(s, e)[n + 1] = e
    BY <1>1
  <1>4. n + 1 - 1 = n
    OBVIOUS
  <1>5. QED
    BY <1>1, <1>2, <1>3, <1>4 DEF Front, Last

\* The empty sequence, one element more, fewer values to choose from.
LEMMA SeqFacts ==
  ASSUME NEW S
  PROVE  /\ <<>> \in Seq(S)
         /\ \A e \in S : <<e>> \in Seq(S) /\ <<e>> = Append(<<>>, e)
         /\ \A s \in Seq(S), e \in S : Append(s, e) \in Seq(S)
         /\ \A s \in Seq(S), t \in Seq(S) : s \o t \in Seq(S)
         /\ \A s \in Seq(S) : s \o <<>> = s
         /\ \A R \in SUBSET S : Seq(R) \subseteq Seq(S)
  <1>1. <<>> \in Seq(S)
    OBVIOUS
  <1>2. ASSUME NEW e \in S PROVE <<e>> \in Seq(S) /\ <<e>> = Append(<<>>, e)
    OBVIOUS
  <1>3. ASSUME NEW s \in Seq(S), NEW e \in S PROVE Append(s, e) \in Seq(S)
    OBVIOUS
  <1>4. ASSUME NEW s \in Seq(S), NEW t \in Seq(S) PROVE s \o t \in Seq(S)
    OBVIOUS
  <1>5. ASSUME NEW s \in Seq(S) PROVE s \o <<>> = s
    OBVIOUS
  <1>6. ASSUME NEW R \in SUBSET S PROVE Seq(R) \subseteq Seq(S)
    BY SeqMonotonic
  <1>7. QED
    BY <1>1, <1>2, <1>3, <1>4, <1>5, <1>6

\* One element before a sequence.
LEMMA OneFirst ==
  ASSUME NEW S, NEW h \in S, NEW s \in Seq(S)
  PROVE  /\ <<h>> \o s \in Seq(S)
         /\ Head(<<h>> \o s) = h /\ Tail(<<h>> \o s) = s /\ <<h>> \o s # <<>>
         /\ \A e \in S : <<h>> \o Append(s, e) = Append(<<h>> \o s, e)
         /\ \A e \in S : Append(s, e) = s \o <<e>>
  <1>1. <<h>> \o s \in Seq(S) /\ <<h>> \o s # <<>> /\ <<h>> \in Seq(S)
    OBVIOUS
  <1>2. Head(<<h>> \o s) = h
    OBVIOUS
  <1>3. Tail(<<h>> \o s) = s
    OBVIOUS
  <1>4. ASSUME NEW e \in S PROVE Append(s, e) = s \o <<e>>
    OBVIOUS
  <1>5. ASSUME NEW e \in S PROVE <<h>> \o Append(s, e) = Append(<<h>> \o s, e)
    OBVIOUS
  <1>6. QED
    BY <1>1, <1>2, <1>3, <1>4, <1>5

\* A sequence with something in it.
LEMMA SomeFacts ==
  ASSUME NEW S
  PROVE  /\ \A s \in Seq(S), e \in S : Append(s, e) # <<>> /\ <<e>> # <<>>
         /\ \A s \in Seq(S) : s # <<>> =>
              Head(s) \in S /\ Tail(s) \in Seq(S) /\ s = <<Head(s)>> \o Tail(s)
         /\ \A s \in Seq(S) : Len(s) > 1 => s # <<>>
  <1>1. ASSUME NEW s \in Seq(S), NEW e \in S PROVE Append(s, e) # <<>> /\ <<e>> # <<>>
    <2>1. Append(s, e) \in Seq(S) /\ Len(Append(s, e)) = Len(s) + 1 /\ Len(s) \in Nat
      BY AppendProperties
    <2>2. Len(<<e>>) = 1 /\ Len(<<>>) = 0
      OBVIOUS
    <2>3. Len(Append(s, e)) # 0
      BY <2>1
    <2>4. QED
      BY ONLY <2>2, <2>3
  <1>2. ASSUME NEW s \in Seq(S), s # <<>>
        PROVE  Head(s) \in S /\ Tail(s) \in Seq(S) /\ s = <<Head(s)>> \o Tail(s)
    BY <1>2, HeadTailProperties
  <1>3. ASSUME NEW s \in Seq(S), Len(s) > 1 PROVE s # <<>>
    BY <1>3
  <1>4. QED
    BY <1>1, <1>2, <1>3

\* Strings.
LEMMA StringFacts ==
  /\ <<>> \in Strings
  /\ \A e \in Segment : <<e>> \in Strings
  /\ \A s \in Strings, e \in Segment : Append(s, e) \in Strings /\ <<e>> \o s \in Strings
  /\ \A s \in Strings, t \in Strings : s \o t \in Strings
  BY SeqFacts DEF Strings

\* Induction.
LEMMA StringInduction ==
  ASSUME NEW T \in SUBSET Strings, <<>> \in T, \A s \in T, e \in Segment : Append(s, e) \in T
  PROVE  T = Strings
  BY SequenceInduction DEF Strings

\* The three elements that process_name knows.
LEMMA ElementsAre == {"", ".", ".."} \subseteq Segment
  BY SegmentAssumption

\* Without its empty elements a sequence has none, and without its dots.
LEMMA VisibleType ==
  /\ \A s \in Strings : Visible(s) \in Seq(Segment \ {""})
  /\ \A s \in Strings : Visible(s) \in Strings
  <1> DEFINE T == {s \in Strings : Visible(s) \in Seq(Segment \ {""})}
  <1>1. <<>> \in T
    BY VisibleFolds, StringFacts, SeqFacts
  <1>2. ASSUME NEW s \in T, NEW e \in Segment PROVE Append(s, e) \in T
    <2>1. s \in Strings /\ Append(s, e) \in Strings
      BY StringFacts
    <2>2. Visible(Append(s, e)) = KeepNamed(Visible(s), e)
      BY <2>1, VisibleFolds
    <2>3. CASE e = ""
      BY <2>1, <2>2, <2>3 DEF KeepNamed
    <2>4. CASE e # ""
      <3>1. Visible(Append(s, e)) = Append(Visible(s), e) /\ e \in Segment \ {""}
        BY <2>2, <2>4 DEF KeepNamed
      <3>2. Append(Visible(s), e) \in Seq(Segment \ {""})
        BY <3>1, SeqFacts
      <3>3. QED
        BY <2>1, <3>1, <3>2
    <2>5. QED
      BY <2>3, <2>4
  <1>3. T = Strings
    <2> HIDE DEF T
    <2>1. T \in SUBSET Strings
      BY DEF T
    <2>2. QED
      BY <1>1, <1>2, <2>1, StringInduction
  <1>4. Seq(Segment \ {""}) \subseteq Strings
    BY SeqFacts DEF Strings
  <1>5. QED
    BY <1>3, <1>4

\* The same of dots.
LEMMA MovingType ==
  \A s \in Strings : Moving(s) \in Seq(Segment \ {"."}) /\ Moving(s) \in Strings
  <1> DEFINE T == {s \in Strings : Moving(s) \in Seq(Segment \ {"."})}
  <1>1. <<>> \in T
    BY MovingFolds, StringFacts, SeqFacts
  <1>2. ASSUME NEW s \in T, NEW e \in Segment PROVE Append(s, e) \in T
    <2>1. s \in Strings /\ Append(s, e) \in Strings
      BY StringFacts
    <2>2. Moving(Append(s, e)) = KeepMoving(Moving(s), e)
      BY <2>1, MovingFolds
    <2>3. CASE e = "."
      BY <2>1, <2>2, <2>3 DEF KeepMoving
    <2>4. CASE e # "."
      <3>1. Moving(Append(s, e)) = Append(Moving(s), e) /\ e \in Segment \ {"."}
        BY <2>2, <2>4 DEF KeepMoving
      <3>2. Append(Moving(s), e) \in Seq(Segment \ {"."})
        BY <3>1, SeqFacts
      <3>3. QED
        BY <2>1, <3>1, <3>2
    <2>5. QED
      BY <2>3, <2>4
  <1>3. T = Strings
    <2> HIDE DEF T
    <2>1. T \in SUBSET Strings
      BY DEF T
    <2>2. QED
      BY <1>1, <1>2, <2>1, StringInduction
  <1>4. Seq(Segment \ {"."}) \subseteq Strings
    BY SeqFacts DEF Strings
  <1>5. QED
    BY <1>3, <1>4

\* An element before the others stays there, unless it is a dot.
LEMMA MovingFirst ==
  ASSUME NEW h \in Segment, h # "."
  PROVE  \A s \in Strings : Moving(<<h>> \o s) = <<h>> \o Moving(s)
  <1> DEFINE T == {s \in Strings : Moving(<<h>> \o s) = <<h>> \o Moving(s)}
  <1>1. <<>> \in T
    <2>1. <<>> \in Strings /\ <<h>> \o <<>> = Append(<<>>, h)
      BY StringFacts, SeqFacts DEF Strings
    <2>2. Moving(Append(<<>>, h)) = Append(<<>>, h)
      BY <2>1, MovingFolds DEF KeepMoving
    <2>3. QED
      BY <2>1, <2>2, MovingFolds
  <1>2. ASSUME NEW s \in T, NEW e \in Segment PROVE Append(s, e) \in T
    <2>1. s \in Strings /\ Append(s, e) \in Strings /\ <<h>> \o s \in Strings
      BY StringFacts
    <2>2. <<h>> \o Append(s, e) = Append(<<h>> \o s, e)
      BY <2>1, OneFirst DEF Strings
    <2>3. Moving(Append(<<h>> \o s, e)) = KeepMoving(<<h>> \o Moving(s), e)
      BY <2>1, MovingFolds
    <2>4. Moving(Append(s, e)) = KeepMoving(Moving(s), e) /\ Moving(s) \in Strings
      BY <2>1, MovingFolds, MovingType
    <2>5. <<h>> \o Append(Moving(s), e) = Append(<<h>> \o Moving(s), e)
      BY <2>4, OneFirst DEF Strings
    <2>6. KeepMoving(<<h>> \o Moving(s), e) = <<h>> \o KeepMoving(Moving(s), e)
      BY <2>5 DEF KeepMoving
    <2>7. QED
      BY <2>1, <2>2, <2>3, <2>4, <2>6
  <1>3. T = Strings
    <2> HIDE DEF T
    <2>1. T \in SUBSET Strings
      BY DEF T
    <2>2. QED
      BY <1>1, <1>2, <2>1, StringInduction
  <1>4. QED
    BY <1>3

\* What has become of the elements but the last.
Inner(h, w) == Cancelled(<<h>>, Moving(Visible(w)))

\* The same, an element at a time.
LEMMA InnerFolds ==
  ASSUME NEW h \in Segment
  PROVE  /\ Inner(h, <<>>) = <<h>>
         /\ \A w \in Strings, e \in Segment :
              Inner(h, Append(w, e)) =
                IF e \in {"", "."} THEN Inner(h, w) ELSE Cancel(Inner(h, w), e)
  <1>1. Inner(h, <<>>) = <<h>>
    BY VisibleFolds, MovingFolds, CancelFolds DEF Inner
  <1>2. ASSUME NEW w \in Strings, NEW e \in Segment
        PROVE  Inner(h, Append(w, e)) =
                 IF e \in {"", "."} THEN Inner(h, w) ELSE Cancel(Inner(h, w), e)
    <2>1. Visible(Append(w, e)) = KeepNamed(Visible(w), e) /\ Visible(w) \in Strings
      BY VisibleFolds, VisibleType
    <2>2. CASE e = ""
      BY <2>1, <2>2 DEF Inner, KeepNamed
    <2>3. CASE e # ""
      <3>1. Moving(Append(Visible(w), e)) = KeepMoving(Moving(Visible(w)), e)
            /\ Moving(Visible(w)) \in Strings
        BY <2>1, MovingFolds, MovingType
      <3>2. Inner(h, Append(w, e)) = Cancelled(<<h>>, KeepMoving(Moving(Visible(w)), e))
        BY <2>1, <2>3, <3>1 DEF Inner, KeepNamed
      <3>3. CASE e = "."
        BY <3>2, <3>3 DEF Inner, KeepMoving
      <3>4. CASE e # "."
        <4>1. KeepMoving(Moving(Visible(w)), e) = Append(Moving(Visible(w)), e)
          BY <3>4 DEF KeepMoving
        <4>2. Cancelled(<<h>>, Append(Moving(Visible(w)), e))
                = Cancel(Cancelled(<<h>>, Moving(Visible(w))), e)
          BY <3>1, CancelFolds
        <4>3. QED
          BY <2>3, <3>2, <3>4, <4>1, <4>2 DEF Inner
      <3>5. QED
        BY <3>3, <3>4
    <2>4. QED
      BY <2>2, <2>3
  <1>3. QED
    BY <1>1, <1>2

\* What the walk comes to, of one element and of more.
LEMMA WalkedIs ==
  ASSUME NEW h \in Segment, h # "."
  PROVE  /\ Walked(<<h>>) = <<h>>
         /\ \A w \in Strings, l \in Segment :
              Walked(Append(<<h>> \o w, l)) =
                IF l = "." THEN Inner(h, w) ELSE Cancel(Inner(h, w), l)
  <1>1. Walked(<<h>>) = <<h>>
    <2>1. Compress(<<h>>) = <<h>> \o <<>> /\ <<>> \in Strings
      BY OneFirst DEF Compress, Strings
    <2>2. Moving(<<h>> \o <<>>) = <<h>> \o <<>>
      BY <2>1, MovingFirst, MovingFolds
    <2>3. Head(<<h>> \o <<>>) = h /\ Tail(<<h>> \o <<>>) = <<>>
      OBVIOUS
    <2>4. Cancelled(<<h>>, <<>>) = <<h>>
      BY CancelFolds
    <2>5. QED
      BY <2>1, <2>2, <2>3, <2>4 DEF Walked, Cancelled
  <1>2. ASSUME NEW w \in Strings, NEW l \in Segment
        PROVE  Walked(Append(<<h>> \o w, l)) =
                 IF l = "." THEN Inner(h, w) ELSE Cancel(Inner(h, w), l)
    <2>1. PICK full : full = Append(<<h>> \o w, l)
      OBVIOUS
    <2>2. w \in Seq(Segment) /\ Append(w, l) \in Seq(Segment) /\ full = <<h>> \o Append(w, l)
      BY <2>1, OneFirst DEF Strings
    <2>3. full \in Seq(Segment) /\ Len(full) # 1 /\ Head(full) = h /\ Tail(full) = Append(w, l)
      BY <2>2, OneFirst
    <2>4. Last(full) = l
      <3>1. <<h>> \o w \in Seq(Segment)
        BY <2>2, OneFirst
      <3>2. QED
        BY <2>1, <3>1, FrontLast
    <2>5. Front(Tail(full)) = w
      BY <2>2, <2>3, FrontLast
    <2>6. PICK v : v = Visible(w) /\ v \in Strings
      BY VisibleType
    <2>7. Compress(full) = <<h>> \o v \o <<l>>
      BY <2>3, <2>4, <2>5, <2>6 DEF Compress
    <2>8. Compress(full) = <<h>> \o Append(v, l) /\ Append(v, l) \in Strings
      <3>1. v \in Seq(Segment)
        BY <2>6 DEF Strings
      <3>2. <<h>> \o v \o <<l>> = <<h>> \o Append(v, l) /\ Append(v, l) \in Seq(Segment)
        BY <3>1
      <3>3. QED
        BY <2>7, <3>2 DEF Strings
    <2>9. PICK m : m = KeepMoving(Moving(v), l)
      OBVIOUS
    <2>10. Moving(v) \in Strings /\ m \in Strings
      <3>1. Moving(v) \in Strings
        BY <2>6, MovingType
      <3>2. QED
        BY <2>9, <3>1 DEF KeepMoving, Strings
    <2>11. Moving(Compress(full)) = <<h>> \o m
      BY <2>6, <2>8, <2>9, MovingFirst, MovingFolds
    <2>12. Walked(full) = Cancelled(<<h>>, m)
      <3>1. Head(<<h>> \o m) = h /\ Tail(<<h>> \o m) = m
        BY <2>10, OneFirst DEF Strings
      <3>2. QED
        BY <2>11, <3>1 DEF Walked, Cancelled
    <2>13. CASE l = "."
      BY <2>1, <2>6, <2>9, <2>12, <2>13 DEF KeepMoving, Inner
    <2>14. CASE l # "."
      <3>1. m = Append(Moving(v), l)
        BY <2>9, <2>14 DEF KeepMoving
      <3>2. Cancelled(<<h>>, m) = Cancel(Cancelled(<<h>>, Moving(v)), l)
        BY <2>10, <3>1, CancelFolds
      <3>3. QED
        BY <2>1, <2>6, <2>12, <2>14, <3>2 DEF Inner
    <2>15. QED
      BY <2>13, <2>14
  <1>3. QED
    BY <1>1, <1>2

\* A path that the elements stand for: without dots, empty at most the
\* first of them.
Plain == Segment \ {".", ".."}
Clean(r) == \A i \in 2 .. Len(r) : r[i] # ""

\* No ".." of s leads above the root.
Grounded(s) == \A i \in 1 .. Len(s) : s[i] = ".." => Path(<<>>, SubSeq(s, 1, i - 1)) # <<>>

\* An element more: clean unless it is empty and not the first.
LEMMA CleanMore ==
  ASSUME NEW S, NEW r \in Seq(S), NEW e \in S
  PROVE  Clean(Append(r, e)) <=> Clean(r) /\ (r # <<>> => e # "")
  <1>1. PICK n \in Nat : n = Len(r)
    OBVIOUS
  <1>2. PICK t : t = Append(r, e)
    OBVIOUS
  <1>3. Len(t) = n + 1 /\ t[n + 1] = e /\ \A i \in 1 .. n : t[i] = r[i]
    BY <1>1, <1>2
  <1>4. r # <<>> <=> n + 1 \in 2 .. n + 1
    BY <1>1
  <1>5. \A i : i \in 2 .. n + 1 <=> i \in 2 .. n \/ (i = n + 1 /\ n + 1 \in 2 .. n + 1)
    OBVIOUS
  <1>6. \A i \in 2 .. n : t[i] = r[i]
    BY <1>3
  <1>7. Clean(t) <=> \A i \in 2 .. n + 1 : t[i] # ""
    BY <1>3 DEF Clean
  <1>8. Clean(r) <=> \A i \in 2 .. n : r[i] # ""
    BY <1>1 DEF Clean
  <1>9. QED
    BY ONLY <1>2, <1>3, <1>4, <1>5, <1>6, <1>7, <1>8

\* An element more: grounded unless it is ".." and the path is at the root.
LEMMA GroundedMore ==
  ASSUME NEW s \in Strings, NEW e \in Segment
  PROVE  Grounded(Append(s, e)) <=> Grounded(s) /\ (e = ".." => Path(<<>>, s) # <<>>)
  <1>1. PICK n \in Nat : n = Len(s)
    BY DEF Strings
  <1>2. PICK t : t = Append(s, e)
    OBVIOUS
  <1>3. s \in Seq(Segment) /\ t \in Seq(Segment) /\ Len(t) = n + 1
        /\ (\A i \in 1 .. n : t[i] = s[i]) /\ t[n + 1] = e
    <2>1. s \in Seq(Segment)
      BY DEF Strings
    <2>2. QED
      BY <1>1, <1>2, <2>1
  <1>4. ASSUME NEW i \in 1 .. n + 1 PROVE SubSeq(t, 1, i - 1) = SubSeq(s, 1, i - 1)
    <2>1. PICK k \in Nat : k = i - 1 /\ k <= n
      BY <1>1
    <2>2. SubSeq(t, 1, k) \in Seq(Segment) /\ Len(SubSeq(t, 1, k)) = k
          /\ \A j \in 1 .. k : SubSeq(t, 1, k)[j] = t[j]
      BY <1>3, <2>1
    <2>3. SubSeq(s, 1, k) \in Seq(Segment) /\ Len(SubSeq(s, 1, k)) = k
          /\ \A j \in 1 .. k : SubSeq(s, 1, k)[j] = s[j]
      BY <1>1, <1>3, <2>1
    <2>4. \A j \in 1 .. k : t[j] = s[j]
      BY <1>3, <2>1
    <2>5. SubSeq(t, 1, k) = SubSeq(s, 1, k)
      BY <2>2, <2>3, <2>4, SeqEqual
    <2>6. QED
      BY <2>1, <2>5
  <1>5. SubSeq(s, 1, n + 1 - 1) = s
    <2>1. SubSeq(s, 1, n) = s
      BY <1>1, <1>3, SubSeqFull
    <2>2. n + 1 - 1 = n
      OBVIOUS
    <2>3. QED
      BY <2>1, <2>2
  <1> DEFINE Stands(i) == t[i] = ".." => Path(<<>>, SubSeq(s, 1, i - 1)) # <<>>
  <1>6. Grounded(t) <=> \A i \in 1 .. n + 1 : Stands(i)
    BY <1>3, <1>4 DEF Grounded
  <1>7. Grounded(s) <=> \A i \in 1 .. n : Stands(i)
    BY <1>1, <1>3 DEF Grounded
  <1>8. Stands(n + 1) <=> (e = ".." => Path(<<>>, s) # <<>>)
    <2>1. t[n + 1] = e
      BY <1>3
    <2>2. Stands(n + 1) <=> (t[n + 1] = ".." => Path(<<>>, SubSeq(s, 1, n + 1 - 1)) # <<>>)
      OBVIOUS
    <2> HIDE DEF Stands
    <2>3. QED
      BY ONLY <1>5, <2>1, <2>2, Zenon
  <1> HIDE DEF Stands
  <1>9. (\A i \in 1 .. n + 1 : Stands(i)) <=> (\A i \in 1 .. n : Stands(i)) /\ Stands(n + 1)
    <2>1. \A i : i \in 1 .. n + 1 <=> i \in 1 .. n \/ i = n + 1
      OBVIOUS
    <2>2. QED
      BY ONLY <2>1
  <1>10. QED
    BY ONLY <1>2, <1>6, <1>7, <1>8, <1>9

\* Going on with an element that is neither empty nor a dot.
LEMMA CancelStep ==
  ASSUME NEW r \in Seq(Plain), NEW e \in Segment, e # ".", e = ".." => Visible(r) # <<>>
  PROVE  /\ Clean(r) \/ e # ".." => /\ Cancel(r, e) \in Seq(Plain)
                                    /\ Visible(Cancel(r, e)) = Step(Visible(r), e)
         /\ Clean(r) /\ e # "" => Clean(Cancel(r, e))
  <1>1. r \in Strings /\ Visible(r) \in Strings
    <2>1. Plain \in SUBSET Segment
      BY DEF Plain
    <2>2. r \in Strings
      BY <2>1, SeqFacts DEF Strings
    <2>3. QED
      BY <2>2, VisibleType
  <1>2. CASE e # ".."
    <2>1. Cancel(r, e) = Append(r, e)
      BY <1>2 DEF Cancel
    <2>2. Append(r, e) \in Seq(Plain)
      <3>1. e \in Plain
        BY <1>2 DEF Plain
      <3>2. QED
        BY <3>1, SeqFacts
    <2>3. Visible(Append(r, e)) = KeepNamed(Visible(r), e)
      BY <1>1, VisibleFolds
    <2>4. Step(Visible(r), e) = KeepNamed(Visible(r), e)
      BY <1>2 DEF Step, KeepNamed
    <2>5. ASSUME Clean(r), e # "" PROVE Clean(Append(r, e))
      <3>1. r \in Seq(Segment)
        BY <1>1 DEF Strings
      <3>2. QED
        BY <2>5, <3>1, CleanMore
    <2>6. QED
      BY <1>2, <2>1, <2>2, <2>3, <2>4, <2>5
  <1>3. CASE e = ".."
    <2>1. r # <<>>
      BY <1>3, VisibleFolds
    <2>2. PICK f \in Seq(Plain), l \in Plain : r = Append(f, l)
      BY <2>1, SequenceEmptyOrAppend
    <2>3. Cancel(r, e) = f
      BY <1>3, <2>1, <2>2, FrontLast DEF Cancel
    <2>4. f \in Strings /\ l \in Segment /\ Visible(f) \in Strings
      <3>1. Plain \in SUBSET Segment
        BY DEF Plain
      <3>2. f \in Strings
        BY <3>1, SeqFacts DEF Strings
      <3>3. QED
        BY <3>1, <3>2, VisibleType
    <2>5. Visible(r) = KeepNamed(Visible(f), l)
      BY <2>2, <2>4, VisibleFolds
    <2>6. SUFFICES ASSUME Clean(r)
                   PROVE  Visible(f) = Step(Visible(r), e) /\ Clean(f)
      BY <1>3, <2>2, <2>3
    <2>7. Clean(f) /\ (f # <<>> => l # "")
      BY <2>2, <2>6, CleanMore
    <2>8. l # ""
      <3>1. CASE f = <<>>
        BY <1>3, <2>5, <3>1, VisibleFolds DEF KeepNamed
      <3>2. QED
        BY <2>7, <3>1
    <2>9. Visible(r) = Append(Visible(f), l)
      BY <2>5, <2>8 DEF KeepNamed
    <2>10. Step(Visible(r), e) = Front(Visible(r))
      BY <1>3 DEF Step
    <2>11. Front(Append(Visible(f), l)) = Visible(f)
      BY <2>4, FrontLast DEF Strings
    <2>12. QED
      BY <2>7, <2>9, <2>10, <2>11
  <1>4. QED
    BY <1>2, <1>3

\* An empty element or a dot changes nothing.
LEMMA StepOver ==
  ASSUME NEW p, NEW e \in {"", "."}
  PROVE  Step(p, e) = p
  BY DEF Step

\* The elements but the last, and the path they stand for.
LEMMA InnerAgrees ==
  ASSUME NEW h \in Segment, h # "."
  PROVE  \A w \in Strings : Grounded(<<h>> \o w) =>
           /\ Inner(h, w) \in Seq(Plain) /\ Clean(Inner(h, w))
           /\ Visible(Inner(h, w)) = Path(<<>>, <<h>> \o w)
  <1> DEFINE Agrees(w) == /\ Inner(h, w) \in Seq(Plain) /\ Clean(Inner(h, w))
                          /\ Visible(Inner(h, w)) = Path(<<>>, <<h>> \o w)
             T == {w \in Strings : Grounded(<<h>> \o w) => Agrees(w)}
  <1>1. <<>> \in T
    <2>1. <<>> \in Strings /\ <<h>> \o <<>> = Append(<<>>, h)
      BY StringFacts, SeqFacts
    <2>2. SUFFICES ASSUME Grounded(Append(<<>>, h)) PROVE Agrees(<<>>)
      BY <2>1
    <2>3. h # ".."
      BY <2>1, <2>2, GroundedMore, RootFolds
    <2>4. Inner(h, <<>>) = <<h>> /\ <<h>> = Append(<<>>, h)
      BY InnerFolds, SeqFacts
    <2>5. <<h>> \in Seq(Plain)
      <3>1. h \in Plain
        BY <2>3 DEF Plain
      <3>2. QED
        BY <3>1, SeqFacts
    <2>6. Clean(<<h>>)
      <3>1. Len(<<h>>) = 1 /\ 2 .. 1 = {}
        OBVIOUS
      <3>2. QED
        BY <3>1 DEF Clean
    <2>7. Visible(Append(<<>>, h)) = KeepNamed(<<>>, h) /\ Path(<<>>, Append(<<>>, h)) = Step(<<>>, h)
      <3>1. Visible(Append(<<>>, h)) = KeepNamed(Visible(<<>>), h)
        BY <2>1, VisibleFolds
      <3>2. Path(<<>>, Append(<<>>, h)) = Step(Path(<<>>, <<>>), h)
        BY <2>1, RootFolds
      <3>3. QED
        BY ONLY <3>1, <3>2, VisibleFolds, RootFolds
    <2>8. KeepNamed(<<>>, h) = Step(<<>>, h)
      BY <2>3 DEF KeepNamed, Step
    <2>9. QED
      BY <2>1, <2>4, <2>5, <2>6, <2>7, <2>8
  <1>2. ASSUME NEW w \in T, NEW e \in Segment PROVE Append(w, e) \in T
    <2>1. w \in Strings /\ Append(w, e) \in Strings /\ <<h>> \o w \in Strings
      BY StringFacts
    <2>2. <<h>> \o Append(w, e) = Append(<<h>> \o w, e)
      BY <2>1, OneFirst DEF Strings
    <2>3. SUFFICES ASSUME Grounded(Append(<<h>> \o w, e)) PROVE Agrees(Append(w, e))
      BY <2>1, <2>2
    <2>4. Grounded(<<h>> \o w) /\ (e = ".." => Path(<<>>, <<h>> \o w) # <<>>)
      BY <2>1, <2>3, GroundedMore
    <2>5. Agrees(w)
      BY <2>4
    <2>6. Path(<<>>, <<h>> \o Append(w, e)) = Step(Path(<<>>, <<h>> \o w), e)
      BY <2>1, <2>2, RootFolds
    <2>7. CASE e \in {"", "."}
      <3>1. Inner(h, Append(w, e)) = Inner(h, w)
        BY <2>1, <2>7, InnerFolds
      <3>2. QED
        BY <2>5, <2>6, <2>7, <3>1, StepOver
    <2>8. CASE e \notin {"", "."}
      <3>1. Inner(h, Append(w, e)) = Cancel(Inner(h, w), e)
        BY <2>1, <2>8, InnerFolds
      <3>2. PICK r : r = Inner(h, w)
        OBVIOUS
      <3>3. /\ r \in Seq(Plain) /\ Clean(r) /\ e # "." /\ e # ""
            /\ e = ".." => Visible(r) # <<>>
        BY <2>4, <2>5, <2>8, <3>2
      <3>4. /\ Cancel(r, e) \in Seq(Plain) /\ Clean(Cancel(r, e))
            /\ Visible(Cancel(r, e)) = Step(Visible(r), e)
        BY <3>3, CancelStep
      <3>5. QED
        BY <2>5, <2>6, <3>1, <3>2, <3>4
    <2>9. QED
      BY <2>7, <2>8
  <1>3. T = Strings
    <2> HIDE DEF T
    <2>1. T \in SUBSET Strings
      BY DEF T
    <2>2. QED
      BY <1>1, <1>2, <2>1, StringInduction
  <1>4. QED
    BY <1>3

\* A string is one element, or a first, a last and those between.
LEMMA StringShape ==
  ASSUME NEW s \in Strings, s # <<>>
  PROVE  \/ s = <<Head(s)>> /\ Head(s) \in Segment
         \/ \E w \in Strings, l \in Segment : s = Append(<<Head(s)>> \o w, l) /\ Head(s) \in Segment
  <1>1. PICK t \in Seq(Segment), l \in Segment : s = Append(t, l)
    BY SequenceEmptyOrAppend DEF Strings
  <1>2. CASE t = <<>>
    BY <1>1, <1>2
  <1>3. CASE t # <<>>
    <2>1. PICK h, w : h = Head(t) /\ w = Tail(t)
      OBVIOUS
    <2>2. h \in Segment /\ w \in Seq(Segment) /\ t = <<h>> \o w
      BY <1>3, <2>1, HeadTailProperties
    <2>3. Head(s) = h
      <3>1. s = <<h>> \o Append(w, l) /\ Append(w, l) \in Seq(Segment)
        BY <1>1, <2>2, OneFirst
      <3>2. QED
        BY <2>2, <3>1, OneFirst
    <2>4. QED
      BY <1>1, <2>2, <2>3 DEF Strings
  <1>4. QED
    BY <1>2, <1>3

\* A name that does not climb above the root becomes the path it stands for.
LEMMA WalkedAgrees ==
  ASSUME NEW s \in Strings, s # <<>>, Head(s) # ".", Grounded(s)
  PROVE  Walked(s) \in Seq(Plain) /\ Visible(Walked(s)) = Path(<<>>, s)
  <1>1. PICK h : h = Head(s)
    OBVIOUS
  <1>2. CASE s = <<h>> /\ h \in Segment
    <2>1. Walked(s) = Inner(h, <<>>) /\ s = <<h>> \o <<>>
      BY <1>1, <1>2, WalkedIs, InnerFolds, SeqFacts
    <2>2. <<>> \in Strings
      BY StringFacts
    <2>3. QED
      BY <1>1, <1>2, <2>1, <2>2, InnerAgrees
  <1>3. ASSUME NEW w \in Strings, NEW l \in Segment, s = Append(<<h>> \o w, l), h \in Segment
        PROVE  Walked(s) \in Seq(Plain) /\ Visible(Walked(s)) = Path(<<>>, s)
    <2>1. <<h>> \o w \in Strings
      BY <1>3, StringFacts
    <2>2. Grounded(<<h>> \o w) /\ (l = ".." => Path(<<>>, <<h>> \o w) # <<>>)
      BY <1>3, <2>1, GroundedMore
    <2>3. PICK r : r = Inner(h, w)
      OBVIOUS
    <2>4. r \in Seq(Plain) /\ Clean(r) /\ Visible(r) = Path(<<>>, <<h>> \o w)
      BY <1>1, <1>3, <2>2, <2>3, InnerAgrees
    <2>5. Path(<<>>, s) = Step(Visible(r), l)
      BY <1>3, <2>1, <2>4, RootFolds
    <2>6. CASE l = "."
      <3>1. Walked(s) = r
        BY <1>1, <1>3, <2>3, <2>6, WalkedIs
      <3>2. QED
        BY <2>4, <2>5, <2>6, <3>1, StepOver
    <2>7. CASE l # "."
      <3>1. Walked(s) = Cancel(r, l)
        BY <1>1, <1>3, <2>3, <2>7, WalkedIs
      <3>2. Cancel(r, l) \in Seq(Plain) /\ Visible(Cancel(r, l)) = Step(Visible(r), l)
        BY <2>2, <2>4, <2>7, CancelStep
      <3>3. QED
        BY <2>5, <3>1, <3>2
    <2>8. QED
      BY <2>6, <2>7
  <1>4. QED
    BY <1>1, <1>2, <1>3, StringShape

\* Without dots nothing leads above the root, and the path is what there is
\* but for the empty elements.
LEMMA PlainPath ==
  \A s \in Seq(Plain) : Grounded(s) /\ Path(<<>>, s) = Visible(s)
  <1> DEFINE T == {s \in Seq(Plain) : Path(<<>>, s) = Visible(s)}
  <1>1. <<>> \in T
    BY VisibleFolds, RootFolds, SeqFacts
  <1>2. ASSUME NEW s \in T, NEW e \in Plain PROVE Append(s, e) \in T
    <2>1. s \in Strings /\ e \in Segment /\ Append(s, e) \in Seq(Plain)
      <3>1. Plain \in SUBSET Segment /\ s \in Seq(Plain)
        BY DEF Plain
      <3>2. QED
        BY <3>1, SeqFacts DEF Strings
    <2>2. Path(<<>>, Append(s, e)) = Step(Path(<<>>, s), e) /\ Visible(Append(s, e)) = KeepNamed(Visible(s), e)
      BY <2>1, RootFolds, VisibleFolds
    <2>3. e # "." /\ e # ".."
      BY DEF Plain
    <2>4. Step(Visible(s), e) = KeepNamed(Visible(s), e)
      BY <2>3 DEF Step, KeepNamed
    <2>5. QED
      BY <2>1, <2>2, <2>4
  <1>3. T = Seq(Plain)
    <2> HIDE DEF T
    <2>1. T \in SUBSET Seq(Plain)
      BY DEF T
    <2>2. QED
      BY <1>1, <1>2, <2>1, SequenceInduction
  <1>4. ASSUME NEW s \in Seq(Plain) PROVE Grounded(s)
    <2>1. \A i \in 1 .. Len(s) : s[i] \in Plain
      OBVIOUS
    <2>2. QED
      BY <2>1 DEF Grounded, Plain
  <1>5. QED
    BY <1>3, <1>4

\* A leading slash makes no difference.
LEMMA VisibleTail ==
  \A s \in Strings : Visible(<<"">> \o s) = Visible(s)
  <1> DEFINE T == {s \in Strings : Visible(<<"">> \o s) = Visible(s)}
  <1>1. <<>> \in T
    <2>1. <<"">> \o <<>> = Append(<<>>, "") /\ <<>> \in Strings
      BY ElementsAre, SeqFacts, StringFacts
    <2>2. Visible(Append(<<>>, "")) = KeepNamed(Visible(<<>>), "")
      BY <2>1, ElementsAre, VisibleFolds
    <2>3. QED
      BY <2>1, <2>2 DEF KeepNamed
  <1>2. ASSUME NEW s \in T, NEW e \in Segment PROVE Append(s, e) \in T
    <2>1. s \in Strings /\ Append(s, e) \in Strings /\ <<"">> \o s \in Strings
      BY ElementsAre, StringFacts
    <2>2. <<"">> \o Append(s, e) = Append(<<"">> \o s, e)
      <3>1. PICK z \in Segment : z = ""
        BY ElementsAre
      <3>2. s \in Seq(Segment)
        BY <2>1 DEF Strings
      <3>3. <<z>> \o Append(s, e) = Append(<<z>> \o s, e)
        <4> HIDE DEF T
        <4>1. QED
          BY <3>2, OneFirst
      <3>4. QED
        BY ONLY <3>1, <3>3
    <2>3. /\ Visible(Append(s, e)) = KeepNamed(Visible(s), e)
          /\ Visible(Append(<<"">> \o s, e)) = KeepNamed(Visible(<<"">> \o s), e)
      BY <2>1, VisibleFolds
    <2>4. QED
      BY <2>1, <2>2, <2>3
  <1>3. T = Strings
    <2> HIDE DEF T
    <2>1. T \in SUBSET Strings
      BY DEF T
    <2>2. QED
      BY <1>1, <1>2, <2>1, StringInduction
  <1>4. QED
    BY <1>3

\* No dot is left of a name.
Dotless == Segment \ {"."}

\* What comes of the walk.
LEMMA WalkedType ==
  ASSUME NEW s \in Strings, s # <<>>, Head(s) # "."
  PROVE  Walked(s) \in Seq(Dotless)
  <1>1. PICK h : h = Head(s)
    OBVIOUS
  <1>2. h \in Dotless
    BY <1>1, StringShape DEF Dotless
  <1>3. ASSUME NEW r \in Seq(Dotless), NEW e \in Dotless PROVE Cancel(r, e) \in Seq(Dotless)
    <2>1. Append(r, e) \in Seq(Dotless)
      OBVIOUS
    <2>2. ASSUME r # <<>> PROVE Front(r) \in Seq(Dotless)
      <3>1. PICK f \in Seq(Dotless), l \in Dotless : r = Append(f, l)
        BY <2>2, SequenceEmptyOrAppend
      <3>2. QED
        BY <3>1, FrontLast
    <2>3. QED
      BY <2>1, <2>2 DEF Cancel
  <1> DEFINE T == {w \in Strings : Inner(h, w) \in Seq(Dotless)}
  <1>4. <<>> \in T
    <2>1. h \in Segment
      BY <1>2 DEF Dotless
    <2>2. Inner(h, <<>>) = <<h>> /\ <<h>> \in Seq(Dotless)
      BY <1>2, <2>1, InnerFolds, SeqFacts
    <2>3. QED
      BY <2>2, StringFacts
  <1>5. ASSUME NEW w \in T, NEW e \in Segment PROVE Append(w, e) \in T
    <2>1. h \in Segment /\ w \in Strings /\ Append(w, e) \in Strings
      BY <1>2, StringFacts DEF Dotless
    <2>2. Inner(h, Append(w, e)) = IF e \in {"", "."} THEN Inner(h, w) ELSE Cancel(Inner(h, w), e)
      BY <2>1, InnerFolds
    <2>3. CASE e \in {"", "."}
      BY <2>1, <2>2, <2>3
    <2>4. CASE e \notin {"", "."}
      <3>1. e \in Dotless
        BY <2>4 DEF Dotless
      <3>2. Cancel(Inner(h, w), e) \in Seq(Dotless)
        BY <1>3, <3>1
      <3>3. QED
        BY <2>1, <2>2, <2>4, <3>2
    <2>5. QED
      BY <2>3, <2>4
  <1>6. T = Strings
    <2> HIDE DEF T
    <2>1. T \in SUBSET Strings
      BY DEF T
    <2>2. QED
      BY <1>4, <1>5, <2>1, StringInduction
  <1>7. CASE s = <<h>>
    <2>1. Walked(s) = <<h>> /\ <<h>> \in Seq(Dotless)
      <3>1. h \in Segment /\ h # "."
        BY <1>2 DEF Dotless
      <3>2. QED
        BY <1>2, <1>7, <3>1, WalkedIs, SeqFacts
    <2>2. QED
      BY <2>1
  <1>8. ASSUME NEW w \in Strings, NEW l \in Segment, s = Append(<<h>> \o w, l)
        PROVE  Walked(s) \in Seq(Dotless)
    <2>1. h \in Segment /\ h # "."
      BY <1>2 DEF Dotless
    <2>2. Walked(s) = IF l = "." THEN Inner(h, w) ELSE Cancel(Inner(h, w), l)
      BY <1>8, <2>1, WalkedIs
    <2>3. Inner(h, w) \in Seq(Dotless)
      BY <1>6
    <2>4. l # "." => Cancel(Inner(h, w), l) \in Seq(Dotless)
      BY <1>3, <2>3 DEF Dotless
    <2>5. QED
      BY <2>2, <2>3, <2>4
  <1>9. QED
    BY <1>1, <1>7, <1>8, StringShape

-----------------------------------------------------------------------------
\* The module that asks has a name without dots; the name that is asked for
\* is one that process_name is defined for.
NameInv ==
  /\ asker \in Seq(Dotless) /\ asker # <<>>
  /\ name = NoName \/ (name \in Names /\ Defined(name))

\* The directory that a name is taken in.
Before == IF IsRelative(name) THEN Directory(asker) ELSE <<>>

\* Names are strings.
LEMMA NamesAre ==
  ASSUME NEW n \in Names
  PROVE  n \in Strings /\ n # <<>>
  <1>1. PICK k \in 1 .. MaxSegments : n \in [1 .. k -> Segment]
    BY DEF Names
  <1>2. k \in Nat /\ k > 0
    BY <1>1, SizeAssumption
  <1>3. n \in Seq(Segment) /\ Len(n) = k
    BY <1>1, <1>2
  <1>4. QED
    BY <1>2, <1>3 DEF Strings

\* The directory of a module stands for the path without the module's file.
LEMMA DirectoryIs ==
  ASSUME NEW m \in Seq(Dotless), m # <<>>
  PROVE  /\ Directory(m) \in Strings /\ Directory(m) # <<>> /\ Head(Directory(m)) # "."
         /\ Path(<<>>, Directory(m)) = Path(<<>>, Front(m))
         /\ ~Contains(m, "..") => Directory(m) \in Seq(Plain)
  <1>1. PICK t \in Seq(Dotless), l \in Dotless : m = Append(t, l)
    BY SequenceEmptyOrAppend
  <1>2. Front(m) = t
    BY <1>1, FrontLast
  <1>3. Directory(m) = Append(t, "")
    <2>1. CASE t = <<>>
      <3>1. Len(m) = 1 /\ Append(t, "") = <<"">>
        BY <1>1, <2>1
      <3>2. QED
        BY <3>1 DEF Directory, EmptyName
    <2>2. CASE t # <<>>
      <3>1. Len(m) # 1
        BY <1>1, <2>2
      <3>2. QED
        BY <1>2, <3>1 DEF Directory
    <2>3. QED
      BY <2>1, <2>2
  <1>4. Dotless \in SUBSET Segment /\ "" \in Dotless
    BY ElementsAre DEF Dotless
  <1>5. t \in Strings /\ Append(t, "") \in Strings
    BY <1>4, SeqFacts DEF Strings
  <1>6. Path(<<>>, Append(t, "")) = Path(<<>>, t)
    BY <1>4, <1>5, RootFolds, StepOver
  <1>7. Append(t, "") # <<>> /\ Head(Append(t, "")) # "."
    <2>1. Append(t, "") \in Seq(Dotless)
      BY <1>4, SeqFacts
    <2>2. Append(t, "") # <<>>
      BY <1>4, SomeFacts
    <2>3. Head(Append(t, "")) \in Dotless
      BY <2>1, <2>2, SomeFacts
    <2>4. QED
      BY <2>2, <2>3 DEF Dotless
  <1>8. ASSUME ~Contains(m, "..") PROVE Append(t, "") \in Seq(Plain)
    <2>1. PICK n \in Nat : n = Len(t)
      OBVIOUS
    <2>2. Len(m) = n + 1 /\ \A i \in 1 .. n : m[i] = t[i]
      BY <1>1, <2>1
    <2>3. \A i \in 1 .. n : t[i] # ".." /\ t[i] \in Dotless
      BY <1>8, <2>1, <2>2 DEF Contains
    <2>4. \A i \in 1 .. n : t[i] \in Plain
      BY <2>3 DEF Plain, Dotless
    <2>5. t \in Seq(Plain)
      BY <2>1, <2>4
    <2>6. "" \in Plain
      BY ElementsAre DEF Plain
    <2>7. QED
      BY <2>5, <2>6, SeqFacts
  <1>9. QED
    BY <1>2, <1>3, <1>5, <1>6, <1>7, <1>8

\* What the walk goes along.
LEMMA LocatedIs ==
  ASSUME NameInv, name # NoName
  PROVE  /\ Before \in Strings /\ name \in Strings
         /\ Located(name, asker) = Before \o name
         /\ Before \o name \in Strings /\ Before \o name # <<>> /\ Head(Before \o name) # "."
         /\ Path(<<>>, Before) = Base
         /\ ~Contains(asker, "..") => Before \in Seq(Plain)
  <1>1. name \in Strings /\ name # <<>> /\ name # <<".">>
    BY NamesAre DEF NameInv, Defined
  <1>2. asker \in Seq(Dotless) /\ asker # <<>>
    BY DEF NameInv
  <1>3. CASE IsRelative(name)
    <2>1. PICK d : d = Directory(asker)
      OBVIOUS
    <2>2. /\ d \in Strings /\ d # <<>> /\ Head(d) # "." /\ Path(<<>>, d) = Path(<<>>, Front(asker))
          /\ ~Contains(asker, "..") => d \in Seq(Plain)
      BY <1>2, <2>1, DirectoryIs
    <2>3. Before = d /\ Base = Path(<<>>, Front(asker)) /\ Located(name, asker) = d \o name
      BY <1>3, <2>1 DEF Before, Base, Located
    <2>4. d \o name \in Strings
      BY <1>1, <2>2, StringFacts
    <2>5. d \o name # <<>> /\ Head(d \o name) = Head(d)
      BY <1>1, <2>2 DEF Strings
    <2>6. QED
      BY <1>1, <2>2, <2>3, <2>4, <2>5
  <1>4. CASE ~IsRelative(name)
    <2>1. Before = <<>> /\ Base = <<>> /\ Located(name, asker) = name
      BY <1>4 DEF Before, Base, Located
    <2>2. <<>> \o name = name
      BY <1>1 DEF Strings
    <2>3. Head(name) # "."
      <3>1. CASE name = <<Head(name)>>
        BY <1>1, <3>1
      <3>2. CASE name # <<Head(name)>>
        <4>1. PICK w \in Strings, l \in Segment : name = Append(<<Head(name)>> \o w, l) /\ Head(name) \in Segment
          BY <1>1, <3>2, StringShape
        <4>2. Len(name) > 1
          <5>1. PICK u : u = <<Head(name)>> \o w
            OBVIOUS
          <5>2. u \in Seq(Segment) /\ u # <<>>
            BY <4>1, <5>1, OneFirst DEF Strings
          <5>3. Len(Append(u, l)) = Len(u) + 1 /\ Len(u) > 0 /\ Len(u) \in Nat
            BY <5>2
          <5>4. QED
            BY <4>1, <5>1, <5>3
        <4>3. QED
          BY <1>4, <4>2 DEF IsRelative
      <3>3. QED
        BY <3>1, <3>2
    <2>4. <<>> \in Strings /\ <<>> \in Seq(Plain)
      BY StringFacts, SeqFacts
    <2>5. QED
      BY <1>1, <2>1, <2>2, <2>3, <2>4, RootFolds
  <1>5. QED
    BY <1>3, <1>4

\* The first call is made outside every module.
LEMMA NameBegins == NameInit => NameInv
  <1> SUFFICES ASSUME NameInit PROVE NameInv
    OBVIOUS
  <1>1. "" \in Dotless
    BY ElementsAre DEF Dotless
  <1>2. <<"">> \in Seq(Dotless) /\ <<"">> # <<>>
    BY <1>1, SeqFacts, SomeFacts
  <1>3. QED
    BY <1>2 DEF NameInit, NameInv, EmptyName

\* Every call keeps the invariant.
LEMMA NameStep == NameInv /\ [NameNext]_nameVars => NameInv'
  <1> SUFFICES ASSUME NameInv, [NameNext]_nameVars PROVE NameInv'
    OBVIOUS
  <1>1. CASE Load
    <2>1. name # NoName /\ asker' = Walked(Located(name, asker)) /\ name' = NoName
      BY <1>1 DEF Load, ProcessName
    <2>2. asker' \in Seq(Dotless)
      BY <2>1, LocatedIs, WalkedType
    <2>3. asker' # <<>>
      BY <1>1, <2>1 DEF NameInv, Defined, Load
    <2>4. QED
      BY <2>1, <2>2, <2>3 DEF NameInv
  <1>2. ASSUME NEW n \in Names, AskFor(n) PROVE NameInv'
    BY <1>2 DEF AskFor, NameInv, Defined
  <1>3. CASE UNCHANGED nameVars
    BY <1>3 DEF nameVars, NameInv, Defined
  <1>4. QED
    BY <1>1, <1>2, <1>3 DEF NameNext

\* A name that does not climb leads nowhere above the root, in the directory
\* either.
LEMMA NoneClimbs ==
  ASSUME NameInv, name # NoName, ~Contains(asker, ".."), ~Climbs
  PROVE  Grounded(Before \o name)
  <1>1. /\ Before \in Strings /\ name \in Strings /\ Path(<<>>, Before) = Base
        /\ Grounded(Before)
    BY LocatedIs, PlainPath
  <1>2. PICK n \in Nat : n = Len(name) /\ DOMAIN name = 1 .. n
    BY <1>1 DEF Strings
  <1> DEFINE T == {j \in Nat : j <= n => Grounded(Before \o SubSeq(name, 1, j))}
  <1>3. 0 \in T
    <2>1. SubSeq(name, 1, 0) = <<>> /\ Before \o <<>> = Before
      BY <1>1 DEF Strings
    <2>2. QED
      BY <1>1, <2>1
  <1>4. ASSUME NEW j \in T PROVE j + 1 \in T
    <2>1. SUFFICES ASSUME j + 1 <= n PROVE Grounded(Before \o SubSeq(name, 1, j + 1))
      OBVIOUS
    <2>2. j \in Nat /\ j + 1 \in 1 .. n
      BY <1>2, <1>4, <2>1
    <2>3. PICK u, e : u = SubSeq(name, 1, j) /\ e = name[j + 1]
      OBVIOUS
    <2>4. u \in Strings /\ e \in Segment /\ SubSeq(name, 1, j + 1) = Append(u, e)
      <3>1. name \in Seq(Segment)
        BY <1>1 DEF Strings
      <3>2. u \in Seq(Segment) /\ e \in Segment
        BY <1>2, <2>2, <2>3, <3>1
      <3>3. SubSeq(name, 1, j + 1) = Append(SubSeq(name, 1, j), name[j + 1])
        <4>1. PICK x, y : x = SubSeq(name, 1, j + 1) /\ y = Append(u, e)
          OBVIOUS
        <4>2. x \in Seq(Segment) /\ Len(x) = j + 1 /\ \A i \in 1 .. j + 1 : x[i] = name[i]
          BY <1>2, <2>2, <3>1, <4>1
        <4>3. Len(u) = j /\ \A i \in 1 .. j : u[i] = name[i]
          BY <1>2, <2>2, <2>3, <3>1
        <4>4. y \in Seq(Segment) /\ Len(y) = j + 1 /\ y[j + 1] = e /\ \A i \in 1 .. j : y[i] = u[i]
          BY <3>2, <4>1, <4>3
        <4>5. \A i \in 1 .. j + 1 : y[i] = name[i]
          BY <2>2, <2>3, <4>3, <4>4
        <4>6. x = y
          BY <4>2, <4>4, <4>5, SeqEqual
        <4>7. QED
          BY <2>3, <4>1, <4>6
      <3>4. QED
        BY <2>3, <3>2, <3>3 DEF Strings
    <2>5. Before \o u \in Strings /\ Before \o Append(u, e) = Append(Before \o u, e)
      BY <1>1, <2>4 DEF Strings
    <2>6. ASSUME e = ".." PROVE Path(<<>>, Before \o u) # <<>>
      <3>1. Path(<<>>, Before \o u) = Path(Base, u)
        BY <1>1, <2>4, PathFolds
      <3>2. Path(Base, Append(u, e)) = Step(Path(Base, u), e)
        BY <2>4, PathFolds
      <3>3. Contains(<<Above>>, Above)
        BY DEF Contains
      <3>4. ~Contains(Path(Base, SubSeq(name, 1, j + 1)), Above)
        BY <1>2, <2>2 DEF Climbs
      <3>5. Step(<<>>, "..") = <<Above>>
        BY DEF Step
      <3>6. QED
        BY <2>4, <2>6, <3>1, <3>2, <3>3, <3>4, <3>5
    <2>7. Grounded(Before \o u)
      BY <2>1, <2>2, <2>3
    <2>8. QED
      BY <2>4, <2>5, <2>6, <2>7, GroundedMore
  <1>5. T = Nat
    <2> HIDE DEF T
    <2>1. T \in SUBSET Nat
      BY DEF T
    <2>2. QED
      BY <1>3, <1>4, <2>1, SetInduction
  <1>6. SubSeq(name, 1, n) = name
    BY <1>1, <1>2, SubSeqFull DEF Strings
  <1>7. n \in T
    BY <1>5
  <1>8. n \in Nat /\ n <= n
    OBVIOUS
  <1>9. QED
    BY ONLY <1>6, <1>7, <1>8

\* The name is walked through twice, first with its directory, then as a key.
LEMMA NameFinds == NameInv => FindsFile
  <1> SUFFICES ASSUME NameInv, name # NoName, ~Contains(asker, ".."), ~Climbs
               PROVE  Visible(SelectedFile(ProcessName(name, asker))) = Denoted
    BY DEF FindsFile
  <1>1. PICK full : full = Before \o name
    OBVIOUS
  <1>2. PICK key : key = ProcessName(name, asker)
    OBVIOUS
  <1>3. /\ full \in Strings /\ full # <<>> /\ Head(full) # "." /\ Grounded(full)
        /\ key = Walked(full)
    BY <1>1, <1>2, LocatedIs, NoneClimbs DEF ProcessName
  <1>4. key \in Seq(Plain) /\ Visible(key) = Path(<<>>, full) /\ key # <<>>
    BY <1>2, <1>3, WalkedAgrees DEF NameInv, Defined
  <1>5. Path(<<>>, full) = Denoted
    <2>1. Path(<<>>, full) = Path(Path(<<>>, Before), name) /\ Path(<<>>, Before) = Base
      BY <1>1, LocatedIs, PathFolds
    <2>2. QED
      BY <2>1 DEF Denoted
  <1>6. Plain \in SUBSET Segment /\ "." \notin Plain /\ ".." \notin Plain
    BY DEF Plain
  <1>7. key \in Strings /\ Head(key) \in Plain
    BY <1>4, <1>6, SeqFacts DEF Strings
  <1>8. ProcessName(key, EmptyName) = Walked(key)
    BY <1>6, <1>7 DEF ProcessName, Located, IsRelative
  <1>9. PICK file : file = Walked(key)
    OBVIOUS
  <1>10. file \in Seq(Plain) /\ Visible(file) = Visible(key)
    <2>1. Head(key) # "." /\ Grounded(key) /\ Path(<<>>, key) = Visible(key)
      BY <1>4, <1>6, <1>7, PlainPath
    <2>2. QED
      BY <1>4, <1>7, <1>9, <2>1, WalkedAgrees
  <1>11. SelectedFile(key) = IF Len(file) > 1 /\ Head(file) = "" THEN Tail(file) ELSE file
    BY <1>8, <1>9 DEF SelectedFile
  <1>12. ASSUME Len(file) > 1, Head(file) = "" PROVE Visible(Tail(file)) = Visible(file)
    <2>1. file # <<>>
      BY <1>10, <1>12, SomeFacts
    <2>2. file = <<Head(file)>> \o Tail(file) /\ Tail(file) \in Seq(Plain)
      BY <1>10, <2>1, SomeFacts
    <2>3. Tail(file) \in Strings
      BY <1>6, <2>2, SeqFacts DEF Strings
    <2>4. QED
      BY <1>12, <2>2, <2>3, VisibleTail
  <1>13. QED
    BY <1>2, <1>4, <1>5, <1>10, <1>11, <1>12

\* FindsFile: for names and keys of any length, of any segments, require looks
\* for the file that a name denotes as a path, relative to the directory of
\* the module that asks, unless the name climbs above the root; the key loses
\* and confuses nothing on its way through process_name (modules.cpp).
THEOREM FindsFileHolds == NameSpec => []FindsFile
  BY NameBegins, NameStep, NameFinds, PTL DEF NameSpec

-----------------------------------------------------------------------------
(***************************************************************************)
(* Transcoder: what script gets is the conversion of what was pushed.      *)
(***************************************************************************)
-----------------------------------------------------------------------------
(* The folds *)

FeedFold == INSTANCE FoldLemmas WITH op <- Feed
RetryFold == INSTANCE FoldLemmas WITH op <- Retried
InFold == INSTANCE FoldLemmas WITH op <- ReadIn
OutFold == INSTANCE FoldLemmas WITH op <- ReadOut

\* What the bytes do to a state of the converter, and the output to that of
\* its reader.
Fed(r, in) == FoldLeft(Feed, r, in)
ReadFrom(s, out) == FoldLeft(ReadOut, s, out)
CharsFrom(s, bytes) == FoldLeft(ReadIn, s, bytes)
Retrying(r, ins) == FoldLeft(Retried, r, ins)

\* The folds, an element at a time.
LEMMA FedFolds ==
  /\ \A r : Fed(r, <<>>) = r
  /\ \A r : \A in \in Seq(InByte), b \in InByte : Fed(r, Append(in, b)) = Feed(Fed(r, in), b)
  <1>1. \A r, in : Fed(r, in) = FeedFold!Fold(r, in)
    BY DEF Fed, FoldLeft, MapThenFoldSet, Max, FeedFold!Fold, FeedFold!Folding, FeedFold!Largest
  <1>2. QED
    BY <1>1, FeedFold!FoldNothing, FeedFold!FoldMore

LEMMA ReadFolds ==
  /\ \A s : ReadFrom(s, <<>>) = s
  /\ \A s : \A out \in Seq(Out), e \in Out : ReadFrom(s, Append(out, e)) = ReadOut(ReadFrom(s, out), e)
  /\ \A s : \A out, more \in Seq(Out) : ReadFrom(s, out \o more) = ReadFrom(ReadFrom(s, out), more)
  <1>1. \A s, out : ReadFrom(s, out) = OutFold!Fold(s, out)
    BY DEF ReadFrom, FoldLeft, MapThenFoldSet, Max, OutFold!Fold, OutFold!Folding, OutFold!Largest
  <1>2. QED
    BY <1>1, OutFold!FoldNothing, OutFold!FoldMore, OutFold!FoldConcat

LEMMA CharsFolds ==
  /\ \A s : CharsFrom(s, <<>>) = s
  /\ \A s : \A in \in Seq(InByte), b \in InByte : CharsFrom(s, Append(in, b)) = ReadIn(CharsFrom(s, in), b)
  /\ \A s : \A in, more \in Seq(InByte) : CharsFrom(s, in \o more) = CharsFrom(CharsFrom(s, in), more)
  <1>1. \A s, in : CharsFrom(s, in) = InFold!Fold(s, in)
    BY DEF CharsFrom, FoldLeft, MapThenFoldSet, Max, InFold!Fold, InFold!Folding, InFold!Largest
  <1>2. QED
    BY <1>1, InFold!FoldNothing, InFold!FoldMore, InFold!FoldConcat

LEMMA RetryFolds ==
  /\ \A r : Retrying(r, <<>>) = r
  /\ \A r, in : \A ins \in Seq({in}) : Retrying(r, Append(ins, in)) = Retried(Retrying(r, ins), in)
  <1>1. \A r, ins : Retrying(r, ins) = RetryFold!Fold(r, ins)
    BY DEF Retrying, FoldLeft, MapThenFoldSet, Max, RetryFold!Fold, RetryFold!Folding, RetryFold!Largest
  <1>2. QED
    BY <1>1, RetryFold!FoldNothing, RetryFold!FoldMore

-----------------------------------------------------------------------------
(* The converter *)

Codes == {"ok", "EINVAL", "EILSEQ", "E2BIG"}
Coder == [out : Seq(Out), shifted : BOOLEAN, lead : BOOLEAN, room : Nat, code : Codes, again : BOOLEAN]
Char == {"a", "D", "0"}
Read == Char \cup {"wrong"}
Reader == [chars : Seq(Read), shifted : BOOLEAN]

\* The converter at the start of an input.
Begun(from, room) ==
  [out |-> <<>>, shifted |-> from, lead |-> FALSE, room |-> room, code |-> "ok", again |-> FALSE]

\* A character that finds no room, and one that does: what the converter
\* writes has a shift before it, or the character is of the set that the
\* converter is in.
Needs(r, set) == IF r.shifted = set THEN 1 ELSE 2
NoRoom(r, set) == Len(r.out) + Needs(r, set) > r.room
Puts(r, char, new) ==
  LET set == char = "D" IN
  /\ new \in Seq(Out) /\ Len(new) = Needs(r, set)
  /\ Len(r.out) + Len(new) <= r.room
  /\ PutChar(r, char) = [r EXCEPT !.out = r.out \o new, !.shifted = set, !.lead = FALSE]
  /\ \A s \in Reader :
       ReadFrom(s, new) =
         IF r.shifted # set \/ s.shifted = set
         THEN [chars |-> Append(s.chars, char), shifted |-> set]
         ELSE [chars |-> Append(s.chars, "wrong"), shifted |-> s.shifted]

\* A character that is put has found room, and reads as itself to a reader in
\* step, or it has found none.
LEMMA PutFacts ==
  ASSUME NEW r \in Coder, NEW char \in Char
  PROVE  \/ NoRoom(r, char = "D") /\ PutChar(r, char) = [r EXCEPT !.code = "E2BIG"]
         \/ \E new : Puts(r, char, new)
  <1>1. PICK set \in BOOLEAN : set = (char = "D")
    OBVIOUS
  <1>2. PICK new : new = IF r.shifted = set THEN <<char>> ELSE IF r.shifted THEN <<")", char>> ELSE <<"(", char>>
    OBVIOUS
  <1>3. r.shifted \in BOOLEAN /\ r.out \in Seq(Out) /\ Len(r.out) \in Nat /\ r.room \in Nat
    BY DEF Coder
  <1>4. new \in Seq(Out) /\ Len(new) = Needs(r, set)
    <2>1. char \in Out /\ ")" \in Out /\ "(" \in Out
      BY DEF Char, Out
    <2>2. <<char>> \in Seq(Out) /\ <<")", char>> \in Seq(Out) /\ <<"(", char>> \in Seq(Out)
      BY <2>1
    <2>3. QED
      BY <1>2, <2>2 DEF Needs
  <1>5. PutChar(r, char) = IF Len(r.out) + Len(new) > r.room THEN [r EXCEPT !.code = "E2BIG"]
                           ELSE [r EXCEPT !.out = r.out \o new, !.shifted = set, !.lead = FALSE]
    BY <1>1, <1>2 DEF PutChar
  <1>6. ASSUME NEW s \in Reader
        PROVE  ReadFrom(s, new) = IF r.shifted # set \/ s.shifted = set
                                  THEN [chars |-> Append(s.chars, char), shifted |-> set]
                                  ELSE [chars |-> Append(s.chars, "wrong"), shifted |-> s.shifted]
    <2>1. char \in Out /\ ")" \in Out /\ "(" \in Out /\ <<>> \in Seq(Out)
      BY DEF Char, Out
    <2>2. s.shifted \in BOOLEAN /\ s = [chars |-> s.chars, shifted |-> s.shifted]
      BY DEF Reader
    <2>3. \A u \in Reader : ReadOut(u, char) = [u EXCEPT !.chars = Append(u.chars, IF u.shifted = set THEN char ELSE "wrong")]
      BY <1>1 DEF ReadOut, Char
    <2>4. ASSUME NEW u, NEW e \in Out PROVE ReadFrom(u, <<e>>) = ReadOut(u, e)
      <3>1. ReadFrom(u, Append(<<>>, e)) = ReadOut(ReadFrom(u, <<>>), e)
        BY <2>1, ReadFolds
      <3>2. ReadFrom(u, <<>>) = u
        BY ReadFolds
      <3>3. Append(<<>>, e) = <<e>>
        OBVIOUS
      <3>4. QED
        BY <3>1, <3>2, <3>3
    <2>5. CASE r.shifted = set
      <3>1. new = <<char>>
        BY <1>2, <2>5
      <3>2. ReadFrom(s, new) = [s EXCEPT !.chars = Append(s.chars, IF s.shifted = set THEN char ELSE "wrong")]
        BY <2>1, <2>3, <2>4, <3>1
      <3>3. QED
        BY <2>2, <2>5, <3>2
    <2>6. CASE r.shifted # set
      <3>1. PICK e \in {")", "("} : new = <<e, char>> /\ e = IF r.shifted THEN ")" ELSE "("
        BY <1>2, <2>6
      <3>2. new = Append(<<e>>, char) /\ <<e>> = Append(<<>>, e) /\ e \in Out /\ <<e>> \in Seq(Out)
        BY <2>1, <3>1
      <3>3. ReadFrom(s, new) = ReadOut(ReadOut(s, e), char)
        <4>1. ReadFrom(s, Append(<<e>>, char)) = ReadOut(ReadFrom(s, <<e>>), char)
          BY <2>1, <3>2, ReadFolds
        <4>2. ReadFrom(s, <<e>>) = ReadOut(s, e)
          BY <2>4, <3>2
        <4>3. QED
          BY <3>2, <4>1, <4>2
      <3>4. ReadOut(s, e) = [chars |-> s.chars, shifted |-> set]
        <4>1. set = (e = "(")
          BY <1>1, <1>3, <2>6, <3>1
        <4>2. ReadOut(s, e) = [s EXCEPT !.shifted = (e = "(")]
          BY <3>1 DEF ReadOut
        <4>3. QED
          BY <2>2, <4>1, <4>2
      <3>5. ReadOut(s, e) \in Reader
        BY <3>4 DEF Reader
      <3>6. QED
        BY <2>3, <2>6, <3>3, <3>4, <3>5
    <2>7. QED
      BY <2>5, <2>6
  <1>7. CASE Len(r.out) + Len(new) > r.room
    BY <1>1, <1>4, <1>5, <1>7 DEF NoRoom
  <1>8. CASE ~(Len(r.out) + Len(new) > r.room)
    <2>1. Len(r.out) + Len(new) <= r.room
      <3>1. Len(new) \in Nat
        BY <1>4
      <3>2. QED
        BY <1>3, <1>8, <3>1
    <2>2. Puts(r, char, new)
      BY <1>1, <1>4, <1>5, <1>6, <1>8, <2>1 DEF Puts
    <2>3. QED
      BY <2>2
  <1>9. QED
    BY <1>7, <1>8

\* What a byte does to the converter.
LEMMA FeedFacts ==
  ASSUME NEW r \in Coder, NEW b \in InByte
  PROVE  \/ r.code # "ok" /\ Feed(r, b) = r
         \/ r.code = "ok" /\ r.lead = (b # "T") /\ Feed(r, b) = [r EXCEPT !.code = "EILSEQ"]
         \/ r.code = "ok" /\ ~r.lead /\ b = "L" /\ Feed(r, b) = [r EXCEPT !.lead = TRUE]
         \/ r.code = "ok" /\ r.lead /\ b = "T" /\ Feed(r, b) = PutChar(r, "D")
         \/ r.code = "ok" /\ ~r.lead /\ b \in {"a", "0"} /\ Feed(r, b) = PutChar(r, b)
  <1>1. r.lead \in BOOLEAN
    BY DEF Coder
  <1>2. QED
    BY <1>1 DEF Feed, InByte

\* What is read is characters, right and wrong.
LEMMA CharsTyped ==
  ASSUME NEW c \in Seq(Read), NEW in \in Seq(InByte)
  PROVE  CharsFrom(c, in) \in Seq(Read)
  <1> DEFINE T == {u \in Seq(InByte) : CharsFrom(c, u) \in Seq(Read)}
  <1>1. <<>> \in T
    BY CharsFolds
  <1>2. ASSUME NEW u \in T, NEW b \in InByte PROVE Append(u, b) \in T
    <2>1. CharsFrom(c, Append(u, b)) = ReadIn(CharsFrom(c, u), b)
      BY CharsFolds
    <2>2. PICK v \in Seq(Read) : v = CharsFrom(c, u)
      OBVIOUS
    <2>3. ReadIn(v, b) \in Seq(Read)
      BY DEF ReadIn, Read, Char, InByte
    <2>4. QED
      BY <2>1, <2>2, <2>3
  <1>3. T = Seq(InByte)
    <2> HIDE DEF T
    <2>1. T \subseteq Seq(InByte)
      BY DEF T
    <2>2. QED
      BY <1>1, <1>2, <2>1, SequenceInduction
  <1>4. QED
    BY <1>3

\* A reader stays one.
LEMMA ReaderTyped ==
  ASSUME NEW s \in Reader, NEW out \in Seq(Out)
  PROVE  ReadFrom(s, out) \in Reader
  <1> DEFINE T == {u \in Seq(Out) : ReadFrom(s, u) \in Reader}
  <1>1. <<>> \in T
    BY ReadFolds
  <1>2. ASSUME NEW u \in T, NEW e \in Out PROVE Append(u, e) \in T
    <2>1. ReadFrom(s, Append(u, e)) = ReadOut(ReadFrom(s, u), e)
      BY ReadFolds
    <2>2. PICK v \in Reader : v = ReadFrom(s, u)
      OBVIOUS
    <2>3. PICK w : w = IF v.shifted = (e = "D") THEN e ELSE "wrong"
      OBVIOUS
    <2>4. ReadOut(v, e) \in Reader
      <3>1. CASE e \in {"(", ")"}
        BY <3>1 DEF ReadOut, Reader
      <3>2. CASE e \in {"a", "D", "0"}
        <4>1. w \in Read
          BY <2>3, <3>2 DEF Read, Char
        <4>2. ReadOut(v, e) = [v EXCEPT !.chars = Append(v.chars, w)]
          BY <2>3, <3>2 DEF ReadOut
        <4>3. Append(v.chars, w) \in Seq(Read)
          BY <4>1 DEF Reader
        <4>4. QED
          BY <4>2, <4>3 DEF Reader
      <3>3. QED
        BY <3>1, <3>2 DEF Out
    <2>5. QED
      BY <2>1, <2>2, <2>4
  <1>3. T = Seq(Out)
    <2> HIDE DEF T
    <2>1. T \subseteq Seq(Out)
      BY DEF T
    <2>2. QED
      BY <1>1, <1>2, <2>1, SequenceInduction
  <1>4. QED
    BY <1>3

-----------------------------------------------------------------------------
(* One input through the converter *)

\* All of the characters are of the set f; a byte that does not belong to the
\* one before it, or is missing after it.
Pure(f, in) == \A i \in 1 .. Len(in) : in[i] # "L" => (in[i] = "T") = f
BrokenAt(in, i) ==
  \/ in[i] = "T" /\ (i = 1 \/ in[i - 1] # "L")
  \/ i > 1 /\ in[i - 1] = "L" /\ in[i] # "T"
Broken(in) == \E i \in 1 .. Len(in) : BrokenAt(in, i)
Cut(in) == in # <<>> /\ in[Len(in)] = "L"

\* What is written reads as the characters that were read, from the set the
\* converter began in.
Reads(r, from, in) ==
  \A c \in Seq(Read) :
    ReadFrom([chars |-> c, shifted |-> from], r.out) =
      [chars |-> CharsFrom(c, in), shifted |-> r.shifted]

\* Whoever reads what is written is then in the converter's set.
InStep(r) == \A s \in Reader : ReadFrom(s, r.out).shifted = r.shifted

\* The converter, begun in the set from, after the bytes in.
Shape(r, room) ==
  /\ r \in Coder /\ r.room = room /\ r.again = FALSE
  /\ r.code # "EINVAL" /\ Len(r.out) <= room
Small(r, room, in) ==
  /\ r.code = "ok" => Len(r.out) <= 2 * Len(in)
  /\ r.code = "E2BIG" => room < 2 * Len(in)
SmallPure(r, room, in) ==
  \A f \in BOOLEAN :
    Pure(f, in) /\ Len(in) < room =>
      /\ r.code # "E2BIG"
      /\ r.code = "ok" => Len(r.out) <= Len(in) + 1 /\ (r.shifted # f => Len(r.out) = 0)
Meant(r, from, in) ==
  r.code = "ok" => /\ r.lead = Cut(in)
                   /\ Reads(r, from, in)
                   /\ InStep(r) \/ (Pure(from, in) /\ r.shifted = from)
Through(r, from, room, in) ==
  /\ Shape(r, room)
  /\ Small(r, room, in)
  /\ SmallPure(r, room, in)
  /\ Meant(r, from, in)
  /\ r.code = "EILSEQ" => Broken(in)

\* One byte more.
LEMMA PureMore ==
  ASSUME NEW in \in Seq(InByte), NEW b \in InByte, NEW f \in BOOLEAN
  PROVE  Pure(f, Append(in, b)) <=> Pure(f, in) /\ (b # "L" => (b = "T") = f)
  <1>1. PICK q : q = Append(in, b)
    OBVIOUS
  <1>2. Len(q) = Len(in) + 1 /\ q[Len(in) + 1] = b /\ \A i \in 1 .. Len(in) : q[i] = in[i]
    BY <1>1
  <1>3. ASSUME Pure(f, q) PROVE Pure(f, in) /\ (b # "L" => (b = "T") = f)
    <2>1. \A i \in 1 .. Len(in) + 1 : q[i] # "L" => (q[i] = "T") = f
      BY <1>2, <1>3 DEF Pure
    <2>2. Len(in) + 1 \in 1 .. Len(in) + 1 /\ \A i \in 1 .. Len(in) : i \in 1 .. Len(in) + 1
      OBVIOUS
    <2>3. b # "L" => (b = "T") = f
      BY <1>2, <2>1, <2>2
    <2>4. Pure(f, in)
      BY <1>2, <2>1, <2>2 DEF Pure
    <2>5. QED
      BY <2>3, <2>4
  <1>4. ASSUME Pure(f, in), b # "L" => (b = "T") = f PROVE Pure(f, q)
    <2>1. SUFFICES ASSUME NEW i \in 1 .. Len(in) + 1 PROVE q[i] # "L" => (q[i] = "T") = f
      BY <1>2 DEF Pure
    <2>2. CASE i = Len(in) + 1
      BY <1>2, <1>4, <2>2
    <2>3. CASE i # Len(in) + 1
      <3>1. i \in 1 .. Len(in)
        BY <2>3
      <3>2. QED
        BY <1>2, <1>4, <3>1 DEF Pure
    <2>4. QED
      BY <2>2, <2>3
  <1>5. QED
    BY <1>1, <1>3, <1>4

\* What is broken stays so, and what is cut may get broken.
LEMMA BrokenMore ==
  ASSUME NEW in \in Seq(InByte), NEW b \in InByte
  PROVE  /\ Broken(in) => Broken(Append(in, b))
         /\ Cut(in) = (b # "T") => Broken(Append(in, b))
         /\ Cut(Append(in, b)) = (b = "L")
  <1>1. PICK q : q = Append(in, b)
    OBVIOUS
  <1>2. PICK n \in Nat : n = Len(in)
    OBVIOUS
  <1>3. Len(q) = n + 1 /\ q[n + 1] = b /\ \A i \in 1 .. n : q[i] = in[i]
    BY <1>1, <1>2
  <1>4. ASSUME Broken(in) PROVE Broken(q)
    <2>1. PICK i \in 1 .. n : BrokenAt(in, i)
      BY <1>2, <1>4 DEF Broken
    <2>2. i \in 1 .. n + 1 /\ q[i] = in[i] /\ (i = 1 \/ q[i - 1] = in[i - 1])
      BY <1>3
    <2>3. BrokenAt(q, i)
      BY <2>1, <2>2 DEF BrokenAt
    <2>4. QED
      BY <1>3, <2>2, <2>3 DEF Broken
  <1>5. ASSUME Cut(in) = (b # "T") PROVE Broken(q)
    <2>1. n + 1 \in 1 .. Len(q) /\ n + 1 - 1 = n
      BY <1>3
    <2>2. (n > 0 /\ q[n] = "L") = Cut(in)
      BY <1>2, <1>3 DEF Cut
    <2>3. BrokenAt(q, n + 1)
      BY <1>3, <1>5, <2>1, <2>2 DEF BrokenAt
    <2>4. QED
      BY <2>1, <2>3 DEF Broken
  <1>6. Cut(q) = (b = "L")
    BY <1>1, <1>2, <1>3 DEF Cut
  <1>7. QED
    BY <1>1, <1>4, <1>5, <1>6

\* A converter that has stopped stays as it is.
LEMMA ThroughStopped ==
  ASSUME NEW from \in BOOLEAN, NEW room \in Nat, NEW in \in Seq(InByte), NEW b \in InByte,
         NEW r, Through(r, from, room, in), r.code # "ok"
  PROVE  Through(r, from, room, Append(in, b))
  <1> DEFINE q == Append(in, b)
  <1>1. q \in Seq(InByte) /\ Len(q) = Len(in) + 1 /\ Len(in) \in Nat
    OBVIOUS
  <1>2. Small(r, room, q)
    BY <1>1 DEF Through, Small
  <1>3. SmallPure(r, room, q)
    <2>1. \A f \in BOOLEAN : Pure(f, q) => Pure(f, in)
      BY <1>1, PureMore
    <2>2. Len(q) < room => Len(in) < room
      BY <1>1
    <2>3. QED
      BY <2>1, <2>2 DEF Through, SmallPure
  <1>4. r.code = "EILSEQ" => Broken(q)
    BY <1>1, BrokenMore DEF Through
  <1>5. QED
    BY <1>1, <1>2, <1>3, <1>4 DEF Through, Meant

\* A converter that puts a character.
LEMMA ThroughPut ==
  ASSUME NEW from \in BOOLEAN, NEW room \in Nat, NEW in \in Seq(InByte), NEW b \in InByte,
         NEW r, Through(r, from, room, in), r.code = "ok",
         NEW char \in Char, b # "L", (char = "D") = (b = "T"),
         \A c : ReadIn(c, b) = Append(c, char)
  PROVE  Through(PutChar(r, char), from, room, Append(in, b))
  <1> DEFINE q == Append(in, b)
  <1>1. q \in Seq(InByte) /\ Len(q) = Len(in) + 1 /\ Len(in) \in Nat
    OBVIOUS
  <1> HIDE DEF q
  <1>2. PICK set \in BOOLEAN : set = (char = "D")
    OBVIOUS
  <1>3. r \in Coder /\ r.room = room /\ r.again = FALSE /\ Len(r.out) <= room /\ Shape(r, room)
    BY DEF Through, Shape
  <1>4. r.out \in Seq(Out) /\ Len(r.out) \in Nat /\ r.shifted \in BOOLEAN /\ r.lead \in BOOLEAN
    BY <1>3 DEF Coder
  <1>5. Len(r.out) <= 2 * Len(in)
    BY DEF Through, Small
  <1>6. \A f \in BOOLEAN : Pure(f, q) <=> Pure(f, in) /\ f = set
    BY <1>2, PureMore DEF q
  <1>7. \A f \in BOOLEAN :
          Pure(f, q) /\ Len(q) < room =>
            f = set /\ Len(r.out) <= Len(in) + 1 /\ (r.shifted # set => Len(r.out) = 0)
    <2>1. Len(q) < room => Len(in) < room
      BY <1>1
    <2>2. QED
      BY <1>6, <2>1 DEF Through, SmallPure
  <1>0. PICK n \in Nat, l \in Nat, k \in Nat : n = Len(in) /\ l = Len(r.out) /\ k = Needs(r, set)
    <2>1. Needs(r, set) \in Nat
      BY DEF Needs
    <2>2. QED
      BY <1>1, <1>4, <2>1
  <1>12. k <= 2
    BY <1>0 DEF Needs
  <1>13. r.shifted = set => k = 1
    BY <1>0 DEF Needs
  <1>14. Len(q) = n + 1
    BY <1>0, <1>1
  <1>15. l <= 2 * n
    BY <1>0, <1>5
  <1>16. NoRoom(r, set) <=> l + k > room
    BY <1>0, <1>3 DEF NoRoom
  <1>17. ASSUME NEW f \in BOOLEAN, Pure(f, q), Len(q) < room
         PROVE  f = set /\ n + 1 < room /\ l + k <= n + 2
    <2>1. n + 1 < room
      BY <1>14, <1>17
    <2>2. l <= n + 1
      BY <1>0, <1>7, <1>17
    <2>3. r.shifted # set => l = 0
      BY <1>0, <1>7, <1>17
    <2>4. l + k <= n + 2
      BY <1>12, <1>13, <2>2, <2>3
    <2>5. QED
      BY <1>7, <1>17, <2>1, <2>4
  <1>8. CASE NoRoom(r, set) /\ PutChar(r, char) = [r EXCEPT !.code = "E2BIG"]
    <2>1. PICK v : v = [r EXCEPT !.code = "E2BIG"]
      OBVIOUS
    <2>2. v.code = "E2BIG" /\ v.out = r.out /\ v.shifted = r.shifted
      BY <1>3, <2>1 DEF Coder
    <2>3. Shape(v, room)
      BY <1>3, <2>1, <2>2 DEF Shape, Coder, Codes
    <2>4. Small(v, room, q)
      <3>1. room < 2 * Len(q)
        BY <1>8, <1>12, <1>14, <1>15, <1>16
      <3>2. QED
        BY <2>2, <3>1 DEF Small
    <2>5. SmallPure(v, room, q)
      <3>1. SUFFICES ASSUME NEW f \in BOOLEAN, Pure(f, q), Len(q) < room PROVE FALSE
        BY DEF SmallPure
      <3>2. n + 1 < room /\ l + k <= n + 2
        BY <1>17, <3>1
      <3>3. l + k > room
        BY <1>8, <1>16
      <3>4. QED
        BY <3>2, <3>3
    <2>6. v.code # "ok" /\ v.code # "EILSEQ"
      BY <2>2
    <2>7. Through(v, from, room, q)
      BY <2>3, <2>4, <2>5, <2>6 DEF Through, Meant
    <2>8. QED
      BY <1>8, <2>1, <2>7 DEF q
  <1>9. ASSUME NEW new, Puts(r, char, new) PROVE Through(PutChar(r, char), from, room, q)
    <2>1. /\ new \in Seq(Out) /\ Len(new) = Needs(r, set)
          /\ Len(r.out) + Len(new) <= r.room
          /\ PutChar(r, char) = [r EXCEPT !.out = r.out \o new, !.shifted = set, !.lead = FALSE]
      BY <1>2, <1>9 DEF Puts
    <2>2. \A s \in Reader :
            ReadFrom(s, new) =
              IF r.shifted # set \/ s.shifted = set
              THEN [chars |-> Append(s.chars, char), shifted |-> set]
              ELSE [chars |-> Append(s.chars, "wrong"), shifted |-> s.shifted]
      BY <1>2, <1>9 DEF Puts
    <2>3. PICK out : out = r.out \o new
      OBVIOUS
    <2>4. out \in Seq(Out) /\ Len(out) = l + k
      <3>1. PICK s \in Seq(Out), t \in Seq(Out) : s = r.out /\ t = new
        BY <1>4, <2>1
      <3>2. Len(s \o t) = Len(s) + Len(t) /\ s \o t \in Seq(Out)
        OBVIOUS
      <3>3. Len(s) = l /\ Len(t) = k
        BY <1>0, <2>1, <3>1
      <3>4. QED
        BY <2>3, <3>1, <3>2, <3>3
    <2>5. PICK v : v = [r EXCEPT !.out = out, !.shifted = set, !.lead = FALSE]
      OBVIOUS
    <2>6. v.code = "ok" /\ v.out = out /\ v.shifted = set /\ v.lead = FALSE
      BY <1>3, <2>5 DEF Coder
    <2>7. Shape(v, room)
      <3>1. v \in Coder
        BY <1>3, <2>4, <2>5 DEF Coder
      <3>2. v.room = room /\ v.again = FALSE
        BY <1>3, <2>5 DEF Coder
      <3>3. Len(v.out) <= room
        BY <1>0, <1>3, <2>1, <2>4, <2>6
      <3>4. QED
        BY <2>6, <3>1, <3>2, <3>3 DEF Shape
    <2>8. Small(v, room, q)
      <3>1. Len(out) <= 2 * Len(q)
        BY <1>12, <1>14, <1>15, <2>4
      <3>2. QED
        BY <2>6, <3>1 DEF Small
    <2>9. SmallPure(v, room, q)
      <3>1. SUFFICES ASSUME NEW f \in BOOLEAN, Pure(f, q), Len(q) < room
                     PROVE  Len(out) <= Len(q) + 1 /\ set = f
        BY <2>6 DEF SmallPure
      <3>2. f = set /\ l + k <= n + 2
        BY <1>17, <3>1
      <3>3. Len(out) <= Len(q) + 1
        BY <1>14, <2>4, <3>2
      <3>4. QED
        BY <3>2, <3>3
    <2>10. ASSUME NEW s \in Reader
           PROVE  ReadFrom(s, out) = ReadFrom(ReadFrom(s, r.out), new) /\ ReadFrom(s, r.out) \in Reader
      <3>1. ReadFrom(s, r.out \o new) = ReadFrom(ReadFrom(s, r.out), new)
        BY <1>4, <2>1, ReadFolds
      <3>2. ReadFrom(s, r.out) \in Reader
        BY <1>4, ReaderTyped
      <3>3. QED
        BY <2>3, <3>1, <3>2
    <2>11. Reads(v, from, q)
      <3>1. SUFFICES ASSUME NEW c \in Seq(Read)
                     PROVE  ReadFrom([chars |-> c, shifted |-> from], out) =
                              [chars |-> CharsFrom(c, q), shifted |-> set]
        BY <2>6 DEF Reads
      <3>2. PICK s \in Reader : s = [chars |-> c, shifted |-> from]
        BY DEF Reader
      <3>3. PICK t : t = ReadFrom(s, r.out)
        OBVIOUS
      <3>4. t = [chars |-> CharsFrom(c, in), shifted |-> r.shifted] /\ t \in Reader
        BY <2>10, <3>2, <3>3 DEF Through, Meant, Reads
      <3>5. t.chars = CharsFrom(c, in) /\ t.shifted = r.shifted
        BY <3>4
      <3>6. ReadFrom(t, new) = [chars |-> Append(t.chars, char), shifted |-> set]
        BY <1>4, <2>2, <3>4, <3>5
      <3>7. CharsFrom(c, q) = ReadIn(CharsFrom(c, in), b)
        BY CharsFolds DEF q
      <3>8. QED
        BY <2>10, <3>2, <3>3, <3>5, <3>6, <3>7
    <2>12. InStep(v) \/ (Pure(from, q) /\ v.shifted = from)
      <3>1. ASSUME r.shifted = set => InStep(r) PROVE InStep(v)
        <4>1. SUFFICES ASSUME NEW s \in Reader PROVE ReadFrom(s, out).shifted = set
          BY <2>6 DEF InStep
        <4>2. PICK t \in Reader : t = ReadFrom(s, r.out)
          BY <2>10
        <4>3. r.shifted = set => t.shifted = set
          BY <3>1, <4>2 DEF InStep
        <4>4. ReadFrom(t, new).shifted = set
          <5>1. r.shifted # set \/ t.shifted = set
            BY <4>3
          <5>2. ReadFrom(t, new) = [chars |-> Append(t.chars, char), shifted |-> set]
            BY <2>2, <5>1
          <5>3. QED
            BY <5>2
        <4>5. QED
          BY <2>10, <4>2, <4>4
      <3>2. ASSUME Pure(from, in), r.shifted = from, r.shifted = set PROVE Pure(from, q) /\ v.shifted = from
        BY <1>6, <2>6, <3>2
      <3>3. InStep(r) \/ (Pure(from, in) /\ r.shifted = from)
        BY DEF Through, Meant
      <3>4. QED
        BY <3>1, <3>2, <3>3
    <2>13. v.lead = Cut(q)
      BY <2>6, BrokenMore DEF q
    <2>14. QED
      BY <2>1, <2>3, <2>5, <2>6, <2>7, <2>8, <2>9, <2>11, <2>12, <2>13 DEF Through, Meant
  <1>10. QED
    <2>1. \/ NoRoom(r, set) /\ PutChar(r, char) = [r EXCEPT !.code = "E2BIG"]
          \/ \E new : Puts(r, char, new)
      BY <1>2, <1>3, PutFacts
    <2>2. QED
      BY <1>8, <1>9, <2>1 DEF q

\* A converter that keeps the first byte of a character.
LEMMA ThroughLead ==
  ASSUME NEW from \in BOOLEAN, NEW room \in Nat, NEW in \in Seq(InByte),
         NEW r, Through(r, from, room, in), r.code = "ok"
  PROVE  Through([r EXCEPT !.lead = TRUE], from, room, Append(in, "L"))
  <1> DEFINE q == Append(in, "L")
  <1>1. PICK n \in Nat : n = Len(in) /\ Len(q) = n + 1
    <2>1. Len(in) \in Nat /\ Len(q) = Len(in) + 1
      OBVIOUS
    <2>2. QED
      BY <2>1
  <1>2. "L" \in InByte
    BY DEF InByte
  <1> HIDE DEF q
  <1>3. r \in Coder /\ r.room = room /\ r.again = FALSE /\ Len(r.out) <= room
    BY DEF Through, Shape
  <1>4. PICK v : v = [r EXCEPT !.lead = TRUE]
    OBVIOUS
  <1>5. v.code = "ok" /\ v.out = r.out /\ v.shifted = r.shifted /\ v.lead = TRUE
    BY <1>3, <1>4 DEF Coder
  <1>6. Shape(v, room)
    <2>1. v \in Coder /\ v.room = room /\ v.again = FALSE
      BY <1>3, <1>4 DEF Coder
    <2>2. QED
      BY <1>3, <1>5, <2>1 DEF Shape
  <1>7. PICK l \in Nat : l = Len(r.out) /\ l <= 2 * n
    <2>1. Len(r.out) \in Nat
      BY <1>3 DEF Coder
    <2>2. Len(r.out) <= 2 * n
      BY <1>1 DEF Through, Small
    <2>3. QED
      BY <2>1, <2>2
  <1>8. \A f \in BOOLEAN : Pure(f, q) <=> Pure(f, in)
    BY <1>2, PureMore DEF q
  <1>9. Small(v, room, q)
    BY <1>1, <1>5, <1>7 DEF Small
  <1>10. SmallPure(v, room, q)
    <2>1. SUFFICES ASSUME NEW f \in BOOLEAN, Pure(f, q), Len(q) < room
                   PROVE  Len(r.out) <= Len(q) + 1 /\ (r.shifted # f => Len(r.out) = 0)
      BY <1>5 DEF SmallPure
    <2>2. Pure(f, in) /\ Len(in) < room
      BY <1>1, <1>8, <2>1
    <2>3. Len(r.out) <= Len(in) + 1 /\ (r.shifted # f => Len(r.out) = 0)
      BY <2>2 DEF Through, SmallPure
    <2>4. Len(r.out) <= Len(q) + 1
      BY <1>1, <1>7, <2>3
    <2>5. QED
      BY <2>3, <2>4
  <1>11. Meant(v, from, q)
    <2>1. v.lead = Cut(q)
      BY <1>2, <1>5, BrokenMore DEF q
    <2>2. Reads(v, from, q)
      <3>1. ASSUME NEW c \in Seq(Read) PROVE CharsFrom(c, q) = CharsFrom(c, in)
        BY <1>2, CharsFolds DEF q, ReadIn
      <3>2. Reads(r, from, in)
        BY DEF Through, Meant
      <3>3. QED
        BY <1>5, <3>1, <3>2 DEF Reads
    <2>3. InStep(r) \/ (Pure(from, in) /\ r.shifted = from)
      BY DEF Through, Meant
    <2>4. InStep(r) => InStep(v)
      BY <1>5 DEF InStep
    <2>5. QED
      BY <1>5, <1>8, <2>1, <2>2, <2>3, <2>4 DEF Meant
  <1>12. Through(v, from, room, q)
    BY <1>5, <1>6, <1>9, <1>10, <1>11 DEF Through
  <1>13. QED
    BY <1>4, <1>12 DEF q

\* A converter that finds a byte that does not belong where it is.
LEMMA ThroughBroken ==
  ASSUME NEW from \in BOOLEAN, NEW room \in Nat, NEW in \in Seq(InByte), NEW b \in InByte,
         NEW r, Through(r, from, room, in), r.code = "ok", r.lead = (b # "T")
  PROVE  Through([r EXCEPT !.code = "EILSEQ"], from, room, Append(in, b))
  <1>1. r \in Coder /\ r.room = room /\ r.again = FALSE /\ Len(r.out) <= room
    BY DEF Through, Shape
  <1>2. PICK v : v = [r EXCEPT !.code = "EILSEQ"]
    OBVIOUS
  <1>3. v.code = "EILSEQ" /\ v.out = r.out
    BY <1>1, <1>2 DEF Coder
  <1>4. Shape(v, room)
    <2>1. v \in Coder /\ v.room = room /\ v.again = FALSE
      BY <1>1, <1>2 DEF Coder, Codes
    <2>2. QED
      BY <1>1, <1>3, <2>1 DEF Shape
  <1>5. Broken(Append(in, b))
    <2>1. Cut(in) = (b # "T")
      BY DEF Through, Meant
    <2>2. QED
      BY <2>1, BrokenMore
  <1>6. v.code # "ok" /\ v.code # "E2BIG"
    BY <1>3
  <1>7. Through(v, from, room, Append(in, b))
    BY <1>4, <1>5, <1>6 DEF Through, Small, SmallPure, Meant
  <1>8. QED
    BY <1>2, <1>7

\* A converter that has read nothing.
LEMMA ThroughBegun ==
  ASSUME NEW from \in BOOLEAN, NEW room \in Nat
  PROVE  Through(Begun(from, room), from, room, <<>>)
  <1>1. PICK r : r = Begun(from, room)
    OBVIOUS
  <1>2. r.code = "ok" /\ r.out = <<>> /\ r.shifted = from /\ r.lead = FALSE
    BY <1>1 DEF Begun
  <1>3. Shape(r, room)
    BY <1>1 DEF Begun, Shape, Coder, Codes
  <1>4. Len(r.out) = 0 /\ Len(<<>>) = 0
    BY <1>2
  <1>5. Small(r, room, <<>>) /\ SmallPure(r, room, <<>>)
    BY <1>2, <1>4 DEF Small, SmallPure
  <1>6. Meant(r, from, <<>>)
    <2>1. Cut(<<>>) = FALSE /\ Pure(from, <<>>)
      BY DEF Cut, Pure
    <2>2. Reads(r, from, <<>>)
      BY <1>2, CharsFolds, ReadFolds DEF Reads
    <2>3. QED
      BY <1>2, <2>1, <2>2 DEF Meant
  <1>7. QED
    BY <1>1, <1>2, <1>3, <1>5, <1>6 DEF Through

\* Whatever the byte is.
LEMMA ThroughFeed ==
  ASSUME NEW from \in BOOLEAN, NEW room \in Nat, NEW in \in Seq(InByte), NEW b \in InByte,
         NEW r, Through(r, from, room, in)
  PROVE  Through(Feed(r, b), from, room, Append(in, b))
  <1>1. r \in Coder /\ r.lead \in BOOLEAN
    BY DEF Through, Shape, Coder
  <1>2. CASE r.code # "ok" /\ Feed(r, b) = r
    BY <1>2, ThroughStopped
  <1>3. CASE r.code = "ok" /\ r.lead = (b # "T") /\ Feed(r, b) = [r EXCEPT !.code = "EILSEQ"]
    BY <1>3, ThroughBroken
  <1>4. CASE r.code = "ok" /\ ~r.lead /\ b = "L" /\ Feed(r, b) = [r EXCEPT !.lead = TRUE]
    BY <1>4, ThroughLead
  <1>5. CASE r.code = "ok" /\ r.lead /\ b = "T" /\ Feed(r, b) = PutChar(r, "D")
    <2>1. "D" \in Char /\ b # "L" /\ ("D" = "D") = (b = "T") /\ \A c : ReadIn(c, b) = Append(c, "D")
      BY <1>5 DEF Char, ReadIn
    <2>2. Through(PutChar(r, "D"), from, room, Append(in, b))
      BY <1>5, <2>1, ThroughPut
    <2>3. QED
      BY <1>5, <2>2
  <1>6. CASE r.code = "ok" /\ ~r.lead /\ b \in {"a", "0"} /\ Feed(r, b) = PutChar(r, b)
    <2>1. b \in Char /\ b # "L" /\ (b = "D") = (b = "T") /\ \A c : ReadIn(c, b) = Append(c, b)
      BY <1>6 DEF Char, ReadIn
    <2>2. Through(PutChar(r, b), from, room, Append(in, b))
      BY <1>6, <2>1, ThroughPut
    <2>3. QED
      BY <1>6, <2>2
  <1>7. QED
    BY <1>1, <1>2, <1>3, <1>4, <1>5, <1>6, FeedFacts

\* By induction over the bytes of the input.
LEMMA ThroughInput ==
  ASSUME NEW from \in BOOLEAN, NEW room \in Nat, NEW in \in Seq(InByte)
  PROVE  Through(Fed(Begun(from, room), in), from, room, in)
  <1> DEFINE T == {p \in Seq(InByte) : Through(Fed(Begun(from, room), p), from, room, p)}
  <1>1. <<>> \in T
    BY FedFolds, ThroughBegun
  <1>2. ASSUME NEW p \in T, NEW b \in InByte PROVE Append(p, b) \in T
    <2>1. PICK r : r = Fed(Begun(from, room), p)
      OBVIOUS
    <2>2. Through(r, from, room, p) /\ p \in Seq(InByte)
      BY <2>1
    <2>3. Through(Feed(r, b), from, room, Append(p, b))
      BY <2>2, ThroughFeed
    <2>4. Fed(Begun(from, room), Append(p, b)) = Feed(r, b)
      BY <2>1, <2>2, FedFolds
    <2>5. QED
      BY <2>2, <2>3, <2>4
  <1>3. T = Seq(InByte)
    <2> HIDE DEF T
    <2>1. T \subseteq Seq(InByte)
      BY DEF T
    <2>2. QED
      BY <1>1, <1>2, <2>1, SequenceInduction
  <1>4. QED
    BY <1>3

\* What iconv returns for a whole input.
Returned(r, from, in) ==
  /\ r \in Coder /\ Len(r.out) <= r.room
  /\ r.code \in {"ok", "EINVAL"} => InStep(r) \/ (Pure(from, in) /\ Reads(r, from, in))
  /\ r.code = "EINVAL" => Cut(in)
  /\ r.code = "EILSEQ" => Broken(in)

\* A whole input. Where the room was too small there were characters of both
\* sets, if there was a byte of room more than the input has.
LEMMA IconvFacts ==
  ASSUME NEW from \in BOOLEAN, NEW room \in Nat, NEW in \in Seq(InByte),
         NEW r, r = Iconv(in, from, room)
  PROVE  /\ Returned(r, from, in)
         /\ r.room = room /\ ~r.again
         /\ r.code \in {"ok", "EINVAL"} => Reads(r, from, in)
         /\ r.code = "E2BIG" => room < 2 * Len(in)
         /\ r.code = "E2BIG" /\ Len(in) < room => ~Pure(TRUE, in) /\ ~Pure(FALSE, in)
  <1>1. PICK s : s = Fed(Begun(from, room), in)
    OBVIOUS
  <1>2. Through(s, from, room, in)
    BY <1>1, ThroughInput
  <1>3. s \in Coder /\ s.room = room /\ s.again = FALSE /\ s.code # "EINVAL" /\ Len(s.out) <= room
    BY <1>2 DEF Through, Shape
  <1>4. r = IF s.code = "ok" /\ s.lead THEN [s EXCEPT !.code = "EINVAL"] ELSE s
    BY <1>1 DEF Iconv, Fed, Begun
  <1>5. r \in Coder /\ r.out = s.out /\ r.room = room /\ r.again = FALSE /\ r.shifted = s.shifted
    BY <1>3, <1>4 DEF Coder, Codes
  <1>6. (r.code \in {"ok", "EINVAL"} => s.code = "ok") /\ (r.code = "EINVAL" => s.lead = TRUE)
    BY <1>3, <1>4 DEF Coder
  <1>7. r.code \in {"EILSEQ", "E2BIG"} => s.code = r.code
    BY <1>3, <1>4 DEF Coder
  <1>8. ASSUME r.code \in {"ok", "EINVAL"}
        PROVE  Reads(r, from, in) /\ (InStep(r) \/ Pure(from, in)) /\ (r.code = "EINVAL" => Cut(in))
    <2>1. s.lead = Cut(in) /\ Reads(s, from, in) /\ (InStep(s) \/ Pure(from, in))
      BY <1>2, <1>6, <1>8 DEF Through, Meant
    <2>2. Reads(r, from, in) /\ (InStep(s) => InStep(r))
      BY <1>5, <2>1 DEF Reads, InStep
    <2>3. QED
      BY <1>6, <2>1, <2>2
  <1>9. ASSUME r.code = "E2BIG" PROVE room < 2 * Len(in)
    BY <1>2, <1>7, <1>9 DEF Through, Small
  <1>10. ASSUME r.code = "E2BIG", Len(in) < room, NEW f \in BOOLEAN PROVE ~Pure(f, in)
    BY <1>2, <1>7, <1>10 DEF Through, SmallPure
  <1>11. Returned(r, from, in)
    <2>1. Len(r.out) <= r.room
      BY <1>3, <1>5
    <2>2. r.code = "EILSEQ" => Broken(in)
      BY <1>2, <1>7 DEF Through
    <2>3. QED
      BY <1>5, <1>8, <2>1, <2>2 DEF Returned
  <1>12. QED
    BY <1>5, <1>8, <1>9, <1>10, <1>11

\* What has room enough is not converted again.
LEMMA RetryStays ==
  ASSUME NEW in, NEW r, r.code # "E2BIG", NEW ins \in Seq({in})
  PROVE  Retrying(r, ins) = r
  <1> DEFINE T == {u \in Seq({in}) : Retrying(r, u) = r}
  <1>1. <<>> \in T
    BY RetryFolds
  <1>2. ASSUME NEW u \in T, NEW e \in {in} PROVE Append(u, e) \in T
    <2>1. Retrying(r, Append(u, in)) = Retried(Retrying(r, u), in)
      BY RetryFolds
    <2>2. Retried(r, in) = r
      BY DEF Retried
    <2>3. QED
      BY <2>1, <2>2
  <1>3. T = Seq({in})
    <2> HIDE DEF T
    <2>1. T \subseteq Seq({in})
      BY DEF T
    <2>2. QED
      BY <1>1, <1>2, <2>1, SequenceInduction
  <1>4. QED
    BY <1>3

\* What has not room enough is converted once more.
LEMMA RetryOnce ==
  ASSUME NEW in, NEW r, r.code = "E2BIG", Retry(in, r).code # "E2BIG",
         NEW ins \in Seq({in}), ins # <<>>
  PROVE  Retrying(r, ins) = Retry(in, r)
  <1> DEFINE T == {u \in Seq({in}) : u = <<>> \/ Retrying(r, u) = Retry(in, r)}
  <1>1. <<>> \in T
    OBVIOUS
  <1>2. ASSUME NEW u \in T, NEW e \in {in} PROVE Append(u, e) \in T
    <2>1. Retrying(r, Append(u, in)) = Retried(Retrying(r, u), in)
      BY RetryFolds
    <2>2. CASE u = <<>>
      <3>1. Retrying(r, <<>>) = r
        BY RetryFolds
      <3>2. Retried(r, in) = Retry(in, r)
        BY DEF Retried
      <3>3. QED
        BY <2>1, <2>2, <3>1, <3>2
    <2>3. CASE u # <<>>
      <3>1. Retried(Retry(in, r), in) = Retry(in, r)
        BY DEF Retried
      <3>2. QED
        BY <2>1, <2>3, <3>1
    <2>4. QED
      BY <2>2, <2>3
  <1>3. T = Seq({in})
    <2> HIDE DEF T
    <2>1. T \subseteq Seq({in})
      BY DEF T
    <2>2. QED
      BY <1>1, <1>2, <2>1, SequenceInduction
  <1>4. QED
    BY <1>3

\* A reader that begins where the conversion does ends where it does.
Follows(r, from) ==
  \A c \in Seq(Read) : ReadFrom([chars |-> c, shifted |-> from], r.out).shifted = r.shifted

\* It does where it reads what was meant, and where every reader does.
LEMMA ReadsFollows ==
  ASSUME NEW r, NEW from \in BOOLEAN, NEW in, Reads(r, from, in) \/ InStep(r)
  PROVE  Follows(r, from)
  <1>1. CASE Reads(r, from, in)
    <2>1. SUFFICES ASSUME NEW c \in Seq(Read)
                   PROVE  ReadFrom([chars |-> c, shifted |-> from], r.out).shifted = r.shifted
      BY DEF Follows
    <2>2. ReadFrom([chars |-> c, shifted |-> from], r.out) = [chars |-> CharsFrom(c, in), shifted |-> r.shifted]
      BY <1>1 DEF Reads
    <2>3. QED
      BY <2>2
  <1>2. CASE InStep(r)
    <2>1. \A c \in Seq(Read) : [chars |-> c, shifted |-> from] \in Reader
      BY DEF Reader
    <2>2. QED
      BY <1>2, <2>1 DEF InStep, Follows
  <1>3. QED
    BY <1>1, <1>2

\* What do_push makes of a whole input.
LEMMA ConvertedFacts ==
  ASSUME NEW in \in Seq(InByte), NEW from \in BOOLEAN, NEW r, r = Converted(in, from)
  PROVE  /\ r \in Coder /\ Len(r.out) <= r.room /\ r.code # "E2BIG"
         /\ r.code \in {"ok", "EINVAL"} => Follows(r, from) /\ (~r.again => Reads(r, from, in))
         /\ r.code = "EINVAL" => Cut(in)
         /\ r.code = "EILSEQ" => Broken(in)
  <1>1. PICK n \in Nat, m \in Nat : n = Len(in) /\ m = n + Slack /\ n < m
    <2>1. Len(in) \in Nat /\ Len(in) + Slack \in Nat /\ Len(in) < Len(in) + Slack
      BY CoderBoundAssumption
    <2>2. QED
      BY <2>1
  <1>2. PICK ins \in Seq({in}) : ins = [i \in 1 .. Len(in) |-> in] /\ (n > 0 => ins # <<>>)
    <2>1. [i \in 1 .. n |-> in] \in Seq({in}) /\ (n > 0 => [i \in 1 .. n |-> in] # <<>>)
      OBVIOUS
    <2>2. QED
      BY <1>1, <2>1
  <1>3. PICK s : s = Iconv(in, from, m)
    OBVIOUS
  <1>4. r = Retrying(s, ins)
    BY <1>1, <1>2, <1>3 DEF Converted, Retrying
  <1>5. /\ Returned(s, from, in)
        /\ s.room = m /\ ~s.again
        /\ s.code \in {"ok", "EINVAL"} => Reads(s, from, in)
        /\ s.code = "E2BIG" => m < 2 * n
        /\ s.code = "E2BIG" => ~Pure(TRUE, in) /\ ~Pure(FALSE, in)
    BY <1>1, <1>3, IconvFacts
  <1>6. s \in Coder /\ Len(s.out) <= s.room
    BY <1>5 DEF Returned
  <1>7. CASE s.code # "E2BIG"
    <2>1. r = s
      BY <1>4, <1>7, RetryStays
    <2>2. s.code \in {"ok", "EINVAL"} => Follows(s, from)
      BY <1>5, ReadsFollows
    <2>3. QED
      BY <1>5, <1>6, <1>7, <2>1, <2>2 DEF Returned
  <1>8. CASE s.code = "E2BIG"
    <2>1. s.shifted \in BOOLEAN
      BY <1>6 DEF Coder
    <2>2. PICK to \in BOOLEAN : to = s.shifted
      BY <2>1
    <2>3. PICK k \in Nat : k = 2 * m
      OBVIOUS
    <2>4. PICK t : t = Iconv(in, to, k)
      OBVIOUS
    <2>5. Returned(t, to, in) /\ (t.code = "E2BIG" => k < 2 * Len(in))
      BY <2>4, IconvFacts
    <2>6. t.code # "E2BIG"
      BY <1>1, <2>3, <2>5
    <2>7. Retry(in, s) = [t EXCEPT !.again = TRUE]
      BY <1>5, <2>2, <2>3, <2>4 DEF Retry
    <2>8. PICK u : u = Retry(in, s)
      OBVIOUS
    <2>9. t \in Coder /\ Len(t.out) <= t.room
      BY <2>5 DEF Returned
    <2>10. /\ u \in Coder /\ u.again = TRUE /\ u.code = t.code
           /\ u.out = t.out /\ u.room = t.room /\ u.shifted = t.shifted
      BY <2>7, <2>8, <2>9 DEF Coder
    <2>11. n > 0
      BY <1>1, <1>5, <1>8
    <2>12. r = u
      BY <1>2, <1>4, <1>8, <2>6, <2>8, <2>10, <2>11, RetryOnce
    <2>13. ~Pure(to, in)
      BY <1>5, <1>8
    <2>14. t.code \in {"ok", "EINVAL"} => InStep(u)
      BY <2>5, <2>10, <2>13 DEF Returned, InStep
    <2>15. t.code \in {"ok", "EINVAL"} => Follows(u, from)
      BY <2>14, ReadsFollows
    <2>16. QED
      BY <2>5, <2>6, <2>9, <2>10, <2>12, <2>15 DEF Returned
  <1>9. QED
    BY <1>7, <1>8

\* What is broken is not valid.
LEMMA BrokenInvalid ==
  ASSUME NEW in \in Seq(InByte), Broken(in)
  PROVE  ~Valid(in)
  <1>1. PICK i \in 1 .. Len(in) : BrokenAt(in, i)
    BY DEF Broken
  <1>2. DOMAIN in = 1 .. Len(in) /\ Len(in) \in Nat
    OBVIOUS
  <1>3. CASE in[i] = "T" /\ (i = 1 \/ in[i - 1] # "L")
    <2>1. SUFFICES ASSUME Valid(in) PROVE FALSE
      OBVIOUS
    <2>2. i > 1 /\ in[i - 1] = "L"
      BY <1>2, <1>3, <2>1 DEF Valid
    <2>3. QED
      BY <1>3, <2>2
  <1>4. CASE i > 1 /\ in[i - 1] = "L" /\ in[i] # "T"
    <2>1. i - 1 \in 1 .. Len(in) /\ i - 1 < Len(in) /\ i - 1 + 1 = i
      BY <1>2, <1>4
    <2>2. QED
      BY <1>2, <1>4, <2>1 DEF Valid
  <1>5. QED
    BY <1>1, <1>3, <1>4 DEF BrokenAt

-----------------------------------------------------------------------------
(* do_push *)

\* What an array that was resized begins with.
LEMMA ZerosTyped ==
  ASSUME NEW k \in Nat
  PROVE  Zeros(k) \in Seq(InByte) /\ Zeros(k) \in Seq(Out)
  BY DEF Zeros, InByte, Out

\* The end of an output adds no character and goes back to the first set.
LEMMA ClosingReads ==
  ASSUME NEW from \in BOOLEAN, NEW c \in Seq(Read)
  PROVE  /\ Closing(from) \in Seq(Out)
         /\ ReadFrom([chars |-> c, shifted |-> from], Closing(from)) = [chars |-> c, shifted |-> FALSE]
  <1>1. PICK s : s = [chars |-> c, shifted |-> from]
    OBVIOUS
  <1>2. CASE from
    <2>1. ")" \in Out /\ <<>> \in Seq(Out)
      BY DEF Out
    <2>2. Closing(from) = Append(<<>>, ")") /\ Closing(from) \in Seq(Out)
      BY <1>2, <2>1 DEF Closing
    <2>3. ReadFrom(s, Append(<<>>, ")")) = ReadOut(ReadFrom(s, <<>>), ")")
      BY <2>1, ReadFolds
    <2>4. ReadFrom(s, <<>>) = s
      BY ReadFolds
    <2>5. ReadOut(s, ")") = [s EXCEPT !.shifted = FALSE]
      BY DEF ReadOut
    <2>6. QED
      BY <1>1, <2>2, <2>3, <2>4, <2>5
  <1>3. CASE ~from
    <2>1. Closing(from) = <<>> /\ Closing(from) \in Seq(Out)
      BY <1>3 DEF Closing
    <2>2. ReadFrom(s, <<>>) = s
      BY ReadFolds
    <2>3. QED
      BY <1>1, <1>3, <2>1, <2>2
  <1>4. QED
    BY <1>2, <1>3

\* An outcome of converting the chunk after what was kept.
Pushed == [out : Seq(Out), part : Seq(InByte), shifted : BOOLEAN, throws : BOOLEAN, again : BOOLEAN]
Proper(o, open, from, kept, chunk) ==
  LET in == kept \o chunk IN
  /\ o \in Pushed
  /\ ~open => o.throws
  /\ ~o.throws => Follows(o, from) /\ (~o.again => Reads(o, from, in))
  /\ o.throws /\ open => ~Valid(in)
  /\ ~o.throws /\ kept = <<>> /\ o.part # <<>> => Cut(in)

\* Every outcome is proper.
LEMMA OutcomesFacts ==
  ASSUME NEW open \in BOOLEAN, NEW from \in BOOLEAN, NEW kept \in Seq(InByte), NEW chunk \in Seq(InByte),
         NEW o \in Outcomes(open, from, kept, chunk)
  PROVE  Proper(o, open, from, kept, chunk)
  <1>1. PICK in \in Seq(InByte) : in = kept \o chunk
    <2>1. kept \o chunk \in Seq(InByte)
      OBVIOUS
    <2>2. QED
      BY <2>1
  <1>2. PICK extended \in Seq(InByte) :
          extended = (IF kept = <<>> THEN <<>> ELSE in) /\ (kept = <<>> => extended = <<>>)
    OBVIOUS
  <1>3. PICK r : r = Converted(in, from)
    OBVIOUS
  <1>4. /\ r \in Coder /\ Len(r.out) <= r.room /\ r.code # "E2BIG"
        /\ r.code \in {"ok", "EINVAL"} => Follows(r, from) /\ (~r.again => Reads(r, from, in))
        /\ r.code = "EINVAL" => Cut(in)
        /\ r.code = "EILSEQ" => Broken(in)
    BY <1>3, ConvertedFacts
  <1>5. r.out \in Seq(Out) /\ r.room - Len(r.out) \in Nat /\ r.shifted \in BOOLEAN /\ r.again \in BOOLEAN
    <2>1. r.out \in Seq(Out) /\ r.room \in Nat /\ r.shifted \in BOOLEAN /\ r.again \in BOOLEAN
      BY <1>4 DEF Coder
    <2>2. Len(r.out) \in Nat
      BY <2>1
    <2>3. r.room - Len(r.out) \in Nat
      BY <1>4, <2>1, <2>2
    <2>4. QED
      BY <2>1, <2>3
  <1>6. Left(r) \in Seq(InByte) /\ Left(r) \in Seq(Out)
    BY <1>5, ZerosTyped DEF Left
  <1>7. CASE ~open
    <2>1. o = [out |-> Zeros(Len(in) + Slack), part |-> extended, shifted |-> from, throws |-> TRUE, again |-> r.again]
      BY <1>1, <1>2, <1>3, <1>7 DEF Outcomes
    <2>2. Len(in) + Slack \in Nat
      BY CoderBoundAssumption
    <2>3. Zeros(Len(in) + Slack) \in Seq(Out)
      BY <2>2, ZerosTyped
    <2>4. o \in Pushed /\ o.throws
      BY <1>5, <2>1, <2>3 DEF Pushed
    <2>5. QED
      BY <1>7, <2>4 DEF Proper
  <1>8. CASE open /\ in = <<>>
    <2>1. PICK out \in {<<>>, Closing(from)}, to \in BOOLEAN :
            /\ o = [out |-> out, part |-> <<>>, shifted |-> to, throws |-> FALSE, again |-> r.again]
            /\ (out = <<>> /\ to = from) \/ (out = Closing(from) /\ to = FALSE)
      BY <1>1, <1>3, <1>8 DEF Outcomes
    <2>2. o.out = out /\ o.shifted = to /\ o.part = <<>> /\ o.throws = FALSE
      BY <2>1
    <2>3. <<>> \in Seq(Read) /\ <<>> \in Seq(Out)
      OBVIOUS
    <2>4. out \in Seq(Out)
      BY <2>1, <2>3, ClosingReads
    <2>5. o \in Pushed
      BY <1>5, <2>1, <2>4 DEF Pushed
    <2>6. Reads(o, from, in)
      <3>1. SUFFICES ASSUME NEW d \in Seq(Read)
                     PROVE  ReadFrom([chars |-> d, shifted |-> from], out) = [chars |-> CharsFrom(d, in), shifted |-> to]
        BY <2>2 DEF Reads
      <3>2. CharsFrom(d, in) = d
        BY <1>8, CharsFolds
      <3>3. CASE out = <<>> /\ to = from
        BY <3>2, <3>3, ReadFolds
      <3>4. CASE out = Closing(from) /\ to = FALSE
        BY <3>2, <3>4, ClosingReads
      <3>5. QED
        BY <2>1, <3>3, <3>4
    <2>7. Follows(o, from)
      BY <2>6, ReadsFollows
    <2>8. QED
      BY <1>1, <1>8, <2>2, <2>5, <2>6, <2>7 DEF Proper
  <1>9. CASE open /\ in # <<>> /\ r.code \in {"ok", "EINVAL"}
    <2>1. PICK keeps \in Seq(InByte) :
            /\ o = [out |-> r.out, part |-> keeps, shifted |-> r.shifted, throws |-> FALSE, again |-> r.again]
            /\ keeps = extended \/ r.code = "EINVAL"
      <3>1. CASE r.code = "ok"
        BY <1>1, <1>2, <1>3, <1>9, <3>1 DEF Outcomes
      <3>2. CASE r.code = "EINVAL"
        BY <1>1, <1>2, <1>3, <1>6, <1>9, <3>2 DEF Outcomes
      <3>3. QED
        BY <1>9, <3>1, <3>2
    <2>2. o.out = r.out /\ o.shifted = r.shifted /\ o.part = keeps /\ o.throws = FALSE /\ o.again = r.again
      BY <2>1
    <2>3. o \in Pushed
      BY <1>5, <2>1 DEF Pushed
    <2>4. Follows(o, from) /\ (~o.again => Reads(o, from, in))
      BY <1>4, <1>9, <2>2 DEF Follows, Reads
    <2>5. kept = <<>> /\ o.part # <<>> => Cut(in)
      BY <1>2, <1>4, <2>1, <2>2
    <2>6. QED
      BY <1>1, <1>9, <2>2, <2>3, <2>4, <2>5 DEF Proper
  <1>10. CASE open /\ in # <<>> /\ r.code \notin {"ok", "EINVAL"}
    <2>1. o = [out |-> r.out \o Left(r), part |-> extended, shifted |-> r.shifted, throws |-> TRUE, again |-> r.again]
      BY <1>1, <1>2, <1>3, <1>10 DEF Outcomes
    <2>2. r.out \o Left(r) \in Seq(Out)
      BY <1>5, <1>6
    <2>3. o \in Pushed /\ o.throws
      BY <1>5, <2>1, <2>2 DEF Pushed
    <2>4. r.code = "EILSEQ"
      BY <1>4, <1>10 DEF Coder, Codes
    <2>5. ~Valid(in)
      BY <1>4, <2>4, BrokenInvalid
    <2>6. QED
      BY <1>1, <1>10, <2>3, <2>5 DEF Proper
  <1>11. QED
    BY <1>7, <1>8, <1>9, <1>10

-----------------------------------------------------------------------------
(* The object *)

\* While the converter is open and no push has thrown, it is in the set in
\* which a reader of all output, and of what is accumulated, is.
Synced == conv /\ ~failed => Reading(received \o acc).shifted = shifted

\* The inductive invariant.
CoderInv == Transcodes /\ Synced

Start == [chars |-> <<>>, shifted |-> FALSE]

\* A reader of all output, and the characters of all input.
LEMMA ReadingFacts ==
  /\ \A out : Reading(out) = ReadFrom(Start, out)
  /\ \A out \in Seq(Out) : Reading(out) \in Reader
  /\ \A out, more \in Seq(Out) : Reading(out \o more) = ReadFrom(Reading(out), more)
  /\ \A in : Chars(in) = CharsFrom(<<>>, in)
  /\ \A in \in Seq(InByte) : Chars(in) \in Seq(Read)
  /\ \A in, more \in Seq(InByte) : Chars(in \o more) = CharsFrom(Chars(in), more)
  <1>1. \A out : Reading(out) = ReadFrom(Start, out)
    BY DEF Reading, ReadFrom, Start
  <1>2. \A in : Chars(in) = CharsFrom(<<>>, in)
    BY DEF Chars, CharsFrom
  <1>3. <<>> \in Seq(Read)
    OBVIOUS
  <1>4. Start \in Reader
    BY <1>3 DEF Start, Reader
  <1>5. \A out \in Seq(Out) : Reading(out) \in Reader
    BY <1>1, <1>4, ReaderTyped
  <1>6. \A in \in Seq(InByte) : Chars(in) \in Seq(Read)
    BY <1>2, <1>3, CharsTyped
  <1>7. \A out, more \in Seq(Out) : Reading(out \o more) = ReadFrom(Reading(out), more)
    BY <1>1, ReadFolds
  <1>8. \A in, more \in Seq(InByte) : Chars(in \o more) = CharsFrom(Chars(in), more)
    BY <1>2, CharsFolds
  <1>9. QED
    BY <1>1, <1>2, <1>5, <1>6, <1>7, <1>8

\* Nothing has been converted in one go.
LEMMA NothingOnce ==
  ASSUME NEW x, x = NotConverted
  PROVE  /\ x.ok /\ ~x.again => Reading(x.out) = [chars |-> Chars(x.in), shifted |-> FALSE]
         /\ ~x.ok /\ x.opened => ~Valid(x.in) \/ Last(x.in) = "L"
  <1>1. x.ok = TRUE /\ x.out = <<>> /\ x.in = <<>>
    BY DEF NotConverted
  <1>2. Reading(<<>>) = Start
    BY ReadingFacts, ReadFolds
  <1>3. Chars(<<>>) = <<>>
    BY ReadingFacts, CharsFolds
  <1>4. QED
    BY <1>1, <1>2, <1>3 DEF Start

\* A push, and a push that accumulates: what a reader gets, if nothing is
\* thrown, is what it got and the output of the chunk.
LEMMA PushStep ==
  ASSUME CoderInv, NEW chunk \in Chunk, NEW o \in Outcomes(conv, shifted, part, chunk),
         DoPush(chunk, o), acc' \in Seq(Out), received' \in Seq(Out),
         o.throws \/ received' \o acc' = (received \o acc) \o o.out
  PROVE  CoderInv'
  <1>1. /\ conv \in BOOLEAN /\ shifted \in BOOLEAN /\ part \in Seq(InByte)
        /\ acc \in Seq(Out) /\ received \in Seq(Out) /\ fed \in Seq(InByte)
        /\ pushes \in 0 .. MaxPushes
        /\ joined \in BOOLEAN /\ outgrown \in BOOLEAN /\ failed \in BOOLEAN
    BY DEF CoderInv, Transcodes, CoderTypeOK
  <1>2. chunk \in Seq(InByte)
    BY ChunkAssumption
  <1>3. PICK in : in = part \o chunk
    OBVIOUS
  <1>4. Proper(o, conv, shifted, part, chunk)
    BY <1>1, <1>2, OutcomesFacts
  <1>5. /\ o \in Pushed
        /\ ~conv => o.throws
        /\ ~o.throws => Follows(o, shifted) /\ (~o.again => Reads(o, shifted, in))
    BY <1>3, <1>4 DEF Proper
  <1>6. o.out \in Seq(Out) /\ o.part \in Seq(InByte) /\ o.shifted \in BOOLEAN /\ o.throws \in BOOLEAN /\ o.again \in BOOLEAN
    BY <1>5 DEF Pushed
  <1>7. /\ pushes < MaxPushes /\ pushes' = pushes + 1
        /\ part' = o.part /\ shifted' = o.shifted /\ fed' = fed \o chunk
        /\ joined' = (joined \/ part # <<>>) /\ outgrown' = (outgrown \/ o.again)
        /\ failed' = (failed \/ o.throws) /\ once' = NotConverted /\ conv' = conv
    BY DEF DoPush
  <1>8. CoderTypeOK'
    <2>1. pushes' \in 0 .. MaxPushes
      BY <1>1, <1>7, CoderBoundAssumption
    <2>2. fed' \in Seq(InByte)
      BY <1>1, <1>2, <1>7
    <2>3. joined' \in BOOLEAN /\ outgrown' \in BOOLEAN /\ failed' \in BOOLEAN
      BY <1>1, <1>6, <1>7
    <2>4. QED
      BY <1>1, <1>6, <1>7, <2>1, <2>2, <2>3 DEF CoderTypeOK
  <1>9. ConvertsWhole'
    BY <1>7, NothingOnce DEF ConvertsWhole
  <1>10. ASSUME ~failed' PROVE conv /\ ~failed /\ ~o.throws
    BY <1>5, <1>7, <1>10
  <1>11. ClosesInFirstSet'
    BY <1>7, <1>10 DEF ClosesInFirstSet
  <1>12. PICK c : c = Reading(received \o acc).chars
    OBVIOUS
  <1>13. received \o acc \in Seq(Out)
    BY <1>1
  <1>14. ASSUME ~failed'
         PROVE  Reading(received' \o acc') = ReadFrom([chars |-> c, shifted |-> shifted], o.out) /\ c \in Seq(Read)
    <2>1. Reading(received \o acc) \in Reader
      BY <1>13, ReadingFacts
    <2>2. Reading(received \o acc) = [chars |-> c, shifted |-> Reading(received \o acc).shifted] /\ c \in Seq(Read)
      BY <1>12, <2>1 DEF Reader
    <2>3. Reading(received \o acc).shifted = shifted
      BY <1>10, <1>14 DEF CoderInv, Synced
    <2>4. Reading((received \o acc) \o o.out) = ReadFrom(Reading(received \o acc), o.out)
      BY <1>6, <1>13, ReadingFacts
    <2>5. received' \o acc' = (received \o acc) \o o.out
      BY <1>10, <1>14
    <2>6. QED
      BY <2>2, <2>3, <2>4, <2>5
  <1>15. Synced'
    <2>1. SUFFICES ASSUME ~failed' PROVE Reading(received' \o acc').shifted = o.shifted
      BY <1>7 DEF Synced
    <2>2. Follows(o, shifted)
      BY <1>5, <1>10, <2>1
    <2>3. QED
      BY <1>14, <2>1, <2>2 DEF Follows
  <1>16. Converts'
    <2>1. SUFFICES ASSUME ~failed', ~joined', ~outgrown'
                   PROVE  Reading(received' \o acc').chars = Chars(fed')
      BY DEF Converts
    <2>2. ~joined /\ part = <<>> /\ ~outgrown /\ ~o.again /\ ~failed
      BY <1>7, <1>10, <2>1
    <2>3. in = chunk
      BY <1>2, <1>3, <2>2
    <2>4. c = Chars(fed)
      BY <1>12, <2>2 DEF CoderInv, Transcodes, Converts
    <2>5. Reads(o, shifted, chunk)
      BY <1>5, <1>10, <2>1, <2>2, <2>3
    <2>6. ReadFrom([chars |-> c, shifted |-> shifted], o.out) = [chars |-> CharsFrom(c, chunk), shifted |-> o.shifted]
      BY <1>14, <2>1, <2>5 DEF Reads
    <2>7. Chars(fed') = CharsFrom(c, chunk)
      BY <1>1, <1>2, <1>7, <2>4, ReadingFacts
    <2>8. QED
      BY <1>14, <2>1, <2>6, <2>7
  <1>17. QED
    BY <1>8, <1>9, <1>11, <1>15, <1>16 DEF CoderInv, Transcodes

\* close, while the converter is open and when it is closed already.
LEMMA CloseStep ==
  ASSUME CoderInv, Close
  PROVE  CoderInv'
  <1>1. /\ conv \in BOOLEAN /\ shifted \in BOOLEAN /\ acc \in Seq(Out) /\ received \in Seq(Out)
        /\ fed \in Seq(InByte) /\ failed \in BOOLEAN
    BY DEF CoderInv, Transcodes, CoderTypeOK
  <1>2. PICK end : end = IF conv THEN Closing(shifted) ELSE <<>>
    OBVIOUS
  <1>3. <<>> \in Seq(Read) /\ <<>> \in Seq(Out)
    OBVIOUS
  <1>4. Closing(shifted) \in Seq(Out)
    BY <1>1, <1>3, ClosingReads
  <1>5. end \in Seq(Out) /\ (conv => end = Closing(shifted)) /\ (~conv => end = <<>>)
    BY <1>2, <1>3, <1>4
  <1>6. PICK text \in Seq(Out) : text = received \o acc
    <2>1. received \o acc \in Seq(Out)
      BY <1>1
    <2>2. QED
      BY <2>1
  <1>7. /\ received' = text \o end /\ acc' = <<>> /\ conv' = FALSE /\ shifted' = FALSE /\ once' = NotConverted
        /\ UNCHANGED <<part, fed, pushes, joined, outgrown, failed>>
    BY <1>2, <1>6 DEF Close, Accumulated
  <1>8. received' \in Seq(Out) /\ received' \o acc' = text \o end
    BY <1>5, <1>7
  <1>9. CoderTypeOK'
    BY <1>3, <1>7, <1>8 DEF CoderInv, Transcodes, CoderTypeOK
  <1>10. ConvertsWhole'
    BY <1>7, NothingOnce DEF ConvertsWhole
  <1>11. Synced'
    BY <1>7 DEF Synced
  <1>12. PICK c : c = Reading(text).chars
    OBVIOUS
  <1>13. ASSUME ~failed PROVE Reading(text \o end) = [chars |-> c, shifted |-> FALSE]
    <2>1. Reading(text \o end) = ReadFrom(Reading(text), end)
      BY <1>5, ReadingFacts
    <2>2. Reading(text) \in Reader
      BY ReadingFacts
    <2>3. Reading(text) = [chars |-> c, shifted |-> Reading(text).shifted] /\ c \in Seq(Read)
      BY <1>12, <2>2 DEF Reader
    <2>4. CASE conv
      <3>1. Reading(text).shifted = shifted
        BY <1>6, <1>13, <2>4 DEF CoderInv, Synced
      <3>2. QED
        BY <1>1, <1>5, <2>1, <2>3, <2>4, <3>1, ClosingReads
    <2>5. CASE ~conv
      <3>1. ~Reading(text).shifted
        BY <1>6, <1>13, <2>5 DEF CoderInv, Transcodes, ClosesInFirstSet
      <3>2. Reading(text).shifted \in BOOLEAN
        BY <2>2 DEF Reader
      <3>3. ReadFrom(Reading(text), end) = Reading(text)
        BY <1>5, <2>5, ReadFolds
      <3>4. QED
        BY <2>1, <2>3, <3>1, <3>2, <3>3
    <2>6. QED
      BY <2>4, <2>5
  <1>14. ClosesInFirstSet'
    BY <1>7, <1>8, <1>13 DEF ClosesInFirstSet
  <1>15. Converts'
    <2>1. SUFFICES ASSUME ~failed, ~joined, ~outgrown
                   PROVE  Reading(text \o end).chars = Chars(fed)
      BY <1>7, <1>8 DEF Converts
    <2>2. c = Chars(fed)
      BY <1>6, <1>12, <2>1 DEF CoderInv, Transcodes, Converts
    <2>3. QED
      BY <1>13, <2>1, <2>2
  <1>16. QED
    BY <1>9, <1>10, <1>11, <1>14, <1>15 DEF CoderInv, Transcodes

\* A conversion in one go.
LEMMA OnceStep ==
  ASSUME CoderInv, NEW in \in Seq(InByte), ConvertOnce(in)
  PROVE  CoderInv'
  <1>1. UNCHANGED <<conv, shifted, part, acc, received, fed, pushes, joined, outgrown, failed>>
    BY DEF ConvertOnce
  <1>2. CoderTypeOK' /\ Converts' /\ ClosesInFirstSet' /\ Synced'
    BY <1>1 DEF CoderInv, Transcodes, CoderTypeOK, Converts, ClosesInFirstSet, Synced
  <1>3. PICK o \in Outcomes(TRUE, FALSE, <<>>, in) :
          once' = [in |-> in, out |-> o.out \o Closing(o.shifted), opened |-> TRUE,
                   ok |-> ~o.throws /\ o.part = <<>>, again |-> o.again]
    BY DEF ConvertOnce
  <1>4. <<>> \in Seq(InByte) /\ <<>> \in Seq(Read) /\ <<>> \o in = in
    OBVIOUS
  <1>5. Proper(o, TRUE, FALSE, <<>>, in)
    BY <1>4, OutcomesFacts
  <1>6. /\ o \in Pushed
        /\ ~o.throws /\ ~o.again => Reads(o, FALSE, in)
        /\ o.throws => ~Valid(in)
        /\ ~o.throws /\ o.part # <<>> => Cut(in)
    BY <1>4, <1>5 DEF Proper
  <1>7. o.out \in Seq(Out) /\ o.shifted \in BOOLEAN /\ o.throws \in BOOLEAN /\ o.again \in BOOLEAN
    BY <1>6 DEF Pushed
  <1>8. /\ once'.in = in /\ once'.out = o.out \o Closing(o.shifted) /\ once'.again = o.again
        /\ once'.ok = (~o.throws /\ o.part = <<>>)
    BY <1>3
  <1>9. ASSUME ~o.throws, ~o.again
        PROVE  Reading(o.out \o Closing(o.shifted)) = [chars |-> Chars(in), shifted |-> FALSE]
    <2>1. Closing(o.shifted) \in Seq(Out)
      BY <1>4, <1>7, ClosingReads
    <2>2. Reading(o.out \o Closing(o.shifted)) = ReadFrom(ReadFrom(Start, o.out), Closing(o.shifted))
      BY <1>7, <2>1, ReadingFacts
    <2>3. ReadFrom(Start, o.out) = [chars |-> CharsFrom(<<>>, in), shifted |-> o.shifted]
      BY <1>4, <1>6, <1>9 DEF Reads, Start
    <2>4. Chars(in) = CharsFrom(<<>>, in) /\ Chars(in) \in Seq(Read)
      BY ReadingFacts
    <2>5. QED
      BY <1>7, <2>2, <2>3, <2>4, ClosingReads
  <1>10. ASSUME ~(~o.throws /\ o.part = <<>>) PROVE ~Valid(in) \/ Last(in) = "L"
    BY <1>6, <1>10 DEF Cut, Last
  <1>11. ConvertsWhole'
    BY <1>8, <1>9, <1>10 DEF ConvertsWhole
  <1>12. QED
    BY <1>2, <1>11 DEF CoderInv, Transcodes

\* What c_str leaves of a text is bytes of it.
LEMMA BeforeZeroFacts ==
  ASSUME NEW text \in Seq(InByte)
  PROVE  SubSeq(text, 1, BeforeZero(text)) \in Seq(InByte)
  <1>1. PICK t : t = text \o <<"0">>
    OBVIOUS
  <1>2. Len(text) \in Nat /\ Len(t) = Len(text) + 1 /\ t[Len(text) + 1] = "0"
    BY <1>1
  <1>3. Len(t) \in 1 .. Len(t) /\ t[Len(t)] = "0"
    BY <1>2
  <1>4. SelectInSeq(t, LAMBDA b : b = "0") \in 1 .. Len(t)
    <2>1. PICK I : I = {i \in 1 .. Len(t) : t[i] = "0"}
      OBVIOUS
    <2>2. Len(t) \in I /\ I \subseteq Nat
      BY <1>2, <1>3, <2>1
    <2>3. \E m \in I : \A x \in I : m <= x
      BY <2>2, LeastNumber
    <2>4. Min(I) \in I
      BY <2>3 DEF Min
    <2>5. SelectInSeq(t, LAMBDA b : b = "0") = Min(I)
      BY <2>1, <2>2 DEF SelectInSeq
    <2>6. QED
      BY <2>1, <2>4, <2>5
  <1>5. PICK k \in Nat : k = BeforeZero(text) /\ k <= Len(text)
    <2>1. PICK j : j = SelectInSeq(t, LAMBDA b : b = "0")
      OBVIOUS
    <2>2. BeforeZero(text) = j - 1
      BY <1>1, <2>1 DEF BeforeZero
    <2>3. j \in 1 .. Len(text) + 1
      BY <1>2, <1>4, <2>1
    <2>4. j - 1 \in Nat /\ j - 1 <= Len(text)
      BY <1>2, <2>3
    <2>5. QED
      BY <2>2, <2>4
  <1>6. QED
    BY <1>5

\* There is no such character set.
LEMMA UnknownStep ==
  ASSUME CoderInv, NEW in, Unknown(in)
  PROVE  CoderInv'
  <1>1. /\ once' = [NotConverted EXCEPT !.in = in, !.ok = FALSE, !.opened = FALSE]
        /\ UNCHANGED <<conv, shifted, part, acc, received, fed, pushes, joined, outgrown, failed>>
    BY DEF Unknown
  <1>2. once'.ok = FALSE /\ once'.opened = FALSE
    BY <1>1 DEF NotConverted
  <1>3. CoderTypeOK' /\ Converts' /\ ClosesInFirstSet' /\ Synced'
    BY <1>1 DEF CoderInv, Transcodes, CoderTypeOK, Converts, ClosesInFirstSet, Synced
  <1>4. ConvertsWhole'
    BY <1>2 DEF ConvertsWhole
  <1>5. QED
    BY <1>3, <1>4 DEF CoderInv, Transcodes

\* The inductive invariant holds at the start and is kept.
LEMMA CoderBegins == CoderInit => CoderInv
  <1>1. SUFFICES ASSUME CoderInit PROVE CoderInv
    OBVIOUS
  <1>2. <<>> \in Seq(InByte) /\ <<>> \in Seq(Out) /\ <<>> \o <<>> = <<>>
    OBVIOUS
  <1>3. CoderTypeOK
    <2>1. pushes \in 0 .. MaxPushes
      BY <1>1, CoderBoundAssumption DEF CoderInit
    <2>2. part \in Seq(InByte) /\ acc \in Seq(Out) /\ received \in Seq(Out) /\ fed \in Seq(InByte)
      BY <1>1, <1>2 DEF CoderInit
    <2>3. conv \in BOOLEAN /\ shifted \in BOOLEAN /\ joined \in BOOLEAN /\ outgrown \in BOOLEAN /\ failed \in BOOLEAN
      BY <1>1, Zenon DEF CoderInit
    <2>4. QED
      BY <2>1, <2>2, <2>3 DEF CoderTypeOK
  <1>4. Reading(<<>>) = Start /\ Chars(<<>>) = <<>>
    BY ReadingFacts, ReadFolds, CharsFolds
  <1>5. Converts /\ ClosesInFirstSet /\ Synced
    <2>1. received \o acc = <<>> /\ received = <<>> /\ acc = <<>> /\ fed = <<>>
      BY <1>1, <1>2 DEF CoderInit
    <2>2. Start.chars = <<>> /\ Start.shifted = FALSE
      BY DEF Start
    <2>3. conv = TRUE /\ shifted = FALSE
      BY <1>1 DEF CoderInit
    <2>4. Reading(received \o acc) = Start /\ Chars(fed) = <<>>
      BY <1>4, <2>1
    <2>5. Converts /\ Synced
      BY <2>2, <2>3, <2>4 DEF Converts, Synced
    <2>6. ClosesInFirstSet
      BY <2>3 DEF ClosesInFirstSet
    <2>7. QED
      BY <2>5, <2>6
  <1>6. ConvertsWhole
    BY <1>1, NothingOnce DEF CoderInit, ConvertsWhole
  <1>7. QED
    BY <1>3, <1>5, <1>6 DEF CoderInv, Transcodes

LEMMA CoderStep == CoderInv /\ [CoderNext]_coderVars => CoderInv'
  <1>1. SUFFICES ASSUME CoderInv, [CoderNext]_coderVars PROVE CoderInv'
    OBVIOUS
  <1>2. part \in Seq(InByte) /\ conv \in BOOLEAN /\ shifted \in BOOLEAN /\ acc \in Seq(Out) /\ received \in Seq(Out)
    BY <1>1 DEF CoderInv, Transcodes, CoderTypeOK
  <1>3. \A chunk \in Chunk : chunk \in Seq(InByte)
    BY ChunkAssumption
  <1>4. ASSUME NEW chunk \in Chunk, NEW o \in Outcomes(conv, shifted, part, chunk)
        PROVE  o.out \in Seq(Out)
    BY <1>2, <1>3, OutcomesFacts DEF Proper, Pushed
  <1>5. received \o acc \in Seq(Out) /\ <<>> \in Seq(Out)
    BY <1>2
  <1>6. ASSUME NEW chunk \in Chunk, Push(chunk) PROVE CoderInv'
    <2>1. PICK o \in Outcomes(conv, shifted, part, chunk) :
            /\ DoPush(chunk, o) /\ acc' = <<>>
            /\ received' = (received \o acc) \o o.out \/ (o.throws /\ received' = received)
      BY <1>6 DEF Push, Accumulated
    <2>2. PICK text \in Seq(Out), out \in Seq(Out) : text = received \o acc /\ out = o.out
      BY <1>4, <1>5
    <2>3. text \o out \in Seq(Out) /\ (text \o out) \o <<>> = text \o out
      OBVIOUS
    <2>4. acc' \in Seq(Out) /\ received' \in Seq(Out)
      BY <1>2, <1>5, <2>1, <2>2, <2>3
    <2>5. o.throws \/ received' \o acc' = (received \o acc) \o o.out
      BY <2>1, <2>2, <2>3
    <2>6. QED
      BY <1>1, <2>1, <2>4, <2>5, PushStep
  <1>7. ASSUME NEW chunk \in Chunk, PushAccumulate(chunk) PROVE CoderInv'
    <2>1. PICK o \in Outcomes(conv, shifted, part, chunk) :
            DoPush(chunk, o) /\ acc' = acc \o o.out /\ received' = received
      BY <1>7 DEF PushAccumulate
    <2>2. PICK out \in Seq(Out) : out = o.out
      BY <1>4
    <2>3. acc \o out \in Seq(Out) /\ received \o (acc \o out) = (received \o acc) \o out
      BY <1>2
    <2>4. acc' \in Seq(Out) /\ received' \in Seq(Out) /\ received' \o acc' = (received \o acc) \o o.out
      BY <1>2, <2>1, <2>2, <2>3
    <2>5. QED
      BY <1>1, <2>1, <2>4, PushStep
  <1>8. ASSUME NEW in \in Texts, ConvertOnce(in) \/ ConvertFromString(in) \/ Unknown(in) PROVE CoderInv'
    <2>1. in \in Seq(InByte)
      BY ChunkAssumption
    <2>2. CASE ConvertOnce(in)
      BY <1>1, <2>1, <2>2, OnceStep
    <2>3. CASE ConvertFromString(in)
      BY <1>1, <2>1, <2>3, OnceStep, BeforeZeroFacts DEF ConvertFromString
    <2>4. CASE Unknown(in)
      BY <1>1, <2>4, UnknownStep
    <2>5. QED
      BY <1>8, <2>2, <2>3, <2>4
  <1>9. CASE UNCHANGED coderVars
    BY <1>1, <1>9 DEF coderVars, CoderInv, Transcodes, CoderTypeOK, Converts, ClosesInFirstSet, ConvertsWhole, Synced
  <1>10. CASE Close
    BY <1>1, <1>10, CloseStep
  <1>11. QED
    BY <1>1, <1>6, <1>7, <1>8, <1>9, <1>10 DEF CoderNext

\* Transcodes: as long as no push has thrown, none followed a character that
\* a chunk had cut, and none had to start again with more room, what script
\* gets and what is accumulated is the conversion of what was pushed, for all
\* chunks, texts and first estimates of the room; as long as no push has
\* thrown, the output of a closed Transcoder is back in the first character
\* set; and what is converted in one go, without starting again, is the
\* conversion of the text, or throws for an invalid one (encodings.cpp).
THEOREM TranscodesHolds == CoderSpec => []Transcodes
  <1>1. CoderInv => Transcodes
    BY DEF CoderInv
  <1>2. QED
    BY <1>1, CoderBegins, CoderStep, PTL DEF CoderSpec

-----------------------------------------------------------------------------
(***************************************************************************)
(* Repl: the loop runs when it was asked for, and ends with a quit.        *)
(***************************************************************************)

\* What -i, -0 and something to run have left in the two flags.
Insisted == \E i \in DOMAIN args : args[i] \in {"-i", "-0"}
ArgsFit ==
  /\ interactive = Wanted
  /\ interactiveSet = Insisted
  /\ phase \in {"options", "config", "prelude", "system", "script"} => Len(args) <= MaxArgs

\* Until the input ends, the last line read is the one that is counted, and
\* a unit begins as many lines before it as it has; no line opens more than
\* one bracket.
LinesFit ==
  /\ nest <= unit
  /\ ~eof => line = read
  /\ ~eof /\ unit > 0 => startline = read - unit + 1

\* After a quit in the loop there is nothing left to evaluate, and nothing
\* but the exit follows.
QuitFits ==
  quitInLoop => /\ phase \in {"loop", "exited"}
                /\ running = FALSE /\ unit = 0
                /\ phase = "exited" => status = exitCode

ReplInv == ReplTypeOK /\ ArgsFit /\ LinesFit /\ QuitFits

-----------------------------------------------------------------------------
(* The command line. *)

AnyArg == Option \cup {"script"}

\* One more argument.
LEMMA LookFacts ==
  ASSUME args \in Seq(AnyArg), ArgsFit, NEW arg \in AnyArg, Look(arg),
         interactive \in BOOLEAN, interactiveSet \in BOOLEAN
  PROVE  /\ args' \in Seq(AnyArg) /\ Len(args') = Len(args) + 1
         /\ interactive' = Wanted' /\ interactive' \in BOOLEAN
         /\ interactiveSet' = Insisted' /\ interactiveSet' \in BOOLEAN
  <1>1. /\ Len(args) \in Nat /\ DOMAIN args = 1 .. Len(args)
        /\ args' \in Seq(AnyArg) /\ Len(args') = Len(args) + 1
        /\ DOMAIN args' = 1 .. Len(args) + 1
        /\ \A i \in 1 .. Len(args) : args'[i] = args[i]
        /\ args'[Len(args) + 1] = arg
    BY PushOne DEF Look
  <1>2. Insisted' <=> Insisted \/ arg \in {"-i", "-0"}
    BY <1>1 DEF Insisted
  <1>3. (\A i \in DOMAIN args' : args'[i] \notin Runnable) <=>
          (\A i \in DOMAIN args : args[i] \notin Runnable) /\ arg \notin Runnable
    BY <1>1
  <1>4. Wanted <=> Insisted \/ (\A i \in DOMAIN args : args[i] \notin Runnable)
    BY DEF Wanted, Insisted
  <1>5. Wanted' <=> Insisted' \/ (\A i \in DOMAIN args' : args'[i] \notin Runnable)
    BY DEF Wanted, Insisted, Runnable
  <1>6. arg \in {"-i", "-0"} => arg \notin Runnable
    BY DEF Runnable
  <1>7. interactiveSet' <=> Insisted'
    BY <1>2 DEF Look, ArgsFit
  <1>8. interactive' <=> Wanted'
    BY <1>2, <1>3, <1>4, <1>5, <1>6 DEF Look, Given, ArgsFit
  <1>9. Wanted' \in BOOLEAN /\ Insisted' \in BOOLEAN
    BY DEF Wanted, Insisted
  <1>10. interactive' \in BOOLEAN /\ interactiveSet' \in BOOLEAN
    BY DEF Look, Given
  <1>11. QED
    BY <1>1, <1>7, <1>8, <1>9, <1>10

LEMMA LookFiles ==
  ASSUME files \in Seq(Listed), NEW arg \in AnyArg, Look(arg)
  PROVE  files' \in Seq(Listed)
  BY DEF Look

-----------------------------------------------------------------------------
(* Steps that leave most of the state alone. *)

\* A step outside the loop.
LEMMA OutsideKeeps ==
  ASSUME ReplInv, UNCHANGED loop, UNCHANGED quitInLoop,
         phase \notin {"loop", "exited"},
         phase' \in {"options", "config", "prelude", "system", "script", "files", "loop", "exited"},
         status' \in Code \cup {0, 1},
         running' \in BOOLEAN, exitCode' \in Code \cup {0},
         args' \in Seq(AnyArg), Len(args') <= MaxArgs + 1, files' \in Seq(Listed),
         interactive' \in BOOLEAN, interactiveSet' \in BOOLEAN,
         ArgsFit'
  PROVE  ReplInv'
  <1>1. ReplTypeOK'
    BY DEF ReplInv, ReplTypeOK, loop, AnyArg
  <1>2. LinesFit'
    BY DEF ReplInv, LinesFit, loop
  <1>3. QuitFits'
    BY DEF ReplInv, QuitFits
  <1>4. QED
    BY <1>1, <1>2, <1>3 DEF ReplInv

\* The arguments stay as they are.
LEMMA ArgsStay ==
  ASSUME ReplInv, UNCHANGED option,
         phase' \in {"files", "loop", "exited"} \/
         phase \in {"options", "config", "prelude", "system", "script"}
  PROVE  /\ ArgsFit'
         /\ args' \in Seq(AnyArg) /\ Len(args') <= MaxArgs + 1
         /\ interactive' \in BOOLEAN /\ interactiveSet' \in BOOLEAN
  BY DEF ReplInv, ReplTypeOK, ArgsFit, option, AnyArg, Wanted, Insisted

LEMMA RanTypes ==
  ASSUME ReplTypeOK, NEW code \in Code \cup {NoQuit}, Ran(code)
  PROVE  running' \in BOOLEAN /\ exitCode' \in Code \cup {0}
  BY DEF ReplTypeOK, Ran

\* A line that is read.
LEMMA LineFacts ==
  ASSUME ReplInv, NEW first \in 0 .. MaxLines, first <= unit, Line(first)
  PROVE  /\ read' = read + 1 /\ read' \in 1 .. MaxLines
         /\ eof = FALSE /\ eof' = eof
         /\ nest' \in -1 .. unit + 1 /\ unit + 1 <= read' /\ unit \in Nat
         /\ line = read /\ (unit > 0 => startline = read - unit + 1)
         /\ read \in Nat /\ MaxLines \in Nat /\ startline \in Nat
  <1>1. /\ read \in 0 .. MaxLines /\ unit \in 0 .. read /\ MaxLines \in Nat
        /\ eof \in BOOLEAN /\ startline \in 0 .. MaxLines
        /\ ~eof => line = read
        /\ ~eof /\ unit > 0 => startline = read - unit + 1
    BY BoundAssumption DEF ReplInv, ReplTypeOK, LinesFit
  <1>2. /\ read < MaxLines /\ ~eof /\ read' = read + 1 /\ eof' = eof
        /\ \E brackets \in {-1, 0, 1} : nest' = first + brackets
    BY DEF Line
  <1>3. QED
    BY <1>1, <1>2

-----------------------------------------------------------------------------
LEMMA ReplStep ==
  ASSUME ReplInv, [ReplNext]_replVars
  PROVE  ReplInv'
  <1>1. /\ ReplTypeOK /\ ArgsFit /\ LinesFit /\ QuitFits
        /\ phase \in {"options", "config", "prelude", "system", "script", "files", "loop", "exited"}
        /\ args \in Seq(AnyArg) /\ Len(args) <= MaxArgs + 1 /\ MaxArgs \in Nat
        /\ interactive \in BOOLEAN /\ interactiveSet \in BOOLEAN
        /\ files \in Seq(Listed)
        /\ running \in BOOLEAN
        /\ exitCode \in Code \cup {0} /\ status \in Code \cup {0, 1}
        /\ MaxLines \in Nat
    BY BoundAssumption DEF ReplInv, ReplTypeOK, AnyArg
  <1>2. CASE UNCHANGED replVars
    BY <1>2 DEF replVars, option, loop, ReplInv, ReplTypeOK, ArgsFit, LinesFit, QuitFits, Wanted, Insisted
  <1>3. ASSUME NEW arg \in Option, TakeOption(arg)
        PROVE  ReplInv'
    <2>1. /\ phase = "options" /\ phase' = "options" /\ Len(args) < MaxArgs /\ Look(arg)
          /\ arg \in AnyArg
          /\ UNCHANGED <<running, exitCode, status, quitInLoop>> /\ UNCHANGED loop
      BY <1>3 DEF TakeOption, AnyArg
    <2>2. /\ args' \in Seq(AnyArg) /\ Len(args') = Len(args) + 1
          /\ interactive' = Wanted' /\ interactive' \in BOOLEAN
          /\ interactiveSet' = Insisted' /\ interactiveSet' \in BOOLEAN
      BY <1>1, <2>1, LookFacts
    <2>3. files' \in Seq(Listed)
      BY <1>1, <2>1, LookFiles
    <2>4. Len(args') <= MaxArgs
      BY <1>1, <2>1, <2>2
    <2>5. ArgsFit'
      BY <2>2, <2>4 DEF ArgsFit
    <2>6. QED
      BY <1>1, <2>1, <2>2, <2>3, <2>4, <2>5, OutsideKeeps
  <1>4. CASE StopAtOption
    <2>1. /\ phase = "options" /\ phase' = "exited" /\ status' \in {0, 1}
          /\ UNCHANGED <<files, running, exitCode, quitInLoop>>
          /\ UNCHANGED option /\ UNCHANGED loop
      BY <1>4 DEF StopAtOption, Exit
    <2>2. QED
      BY <1>1, <2>1, ArgsStay, OutsideKeeps
  <1>5. CASE OptionsDone
    <2>1. /\ phase = "options" /\ phase' = "config"
          /\ UNCHANGED <<files, running, exitCode, status, quitInLoop>>
          /\ UNCHANGED option /\ UNCHANGED loop
      BY <1>5 DEF OptionsDone
    <2>2. QED
      BY <1>1, <2>1, ArgsStay, OutsideKeeps
  <1>6. ASSUME NEW script \in {"config", "prelude", "system"},
               NEW then \in {"prelude", "system", "script"}, Configure(script, then)
        PROVE  ReplInv'
    <2>1. /\ phase = script /\ phase' \in {"exited", then} /\ status' \in {1, status}
          /\ \E code \in Code \cup {NoQuit} : Ran(code)
          /\ UNCHANGED <<files, quitInLoop>> /\ UNCHANGED option /\ UNCHANGED loop
      BY <1>6 DEF Configure, Exit
    <2>2. running' \in BOOLEAN /\ exitCode' \in Code \cup {0}
      BY <1>1, <2>1, RanTypes
    <2>3. QED
      BY <1>1, <2>1, <2>2, ArgsStay, OutsideKeeps
  <1>7. CASE TakeScript
    <2>1. /\ phase = "script" /\ phase' = "files"
          /\ UNCHANGED <<running, exitCode, status, quitInLoop>> /\ UNCHANGED loop
          /\ Look("script") \/ (UNCHANGED option /\ files' = files)
      BY <1>7 DEF TakeScript
    <2>2. CASE Look("script")
      <3>1. "script" \in AnyArg
        BY DEF AnyArg
      <3>2. /\ args' \in Seq(AnyArg) /\ Len(args') = Len(args) + 1
            /\ interactive' = Wanted' /\ interactive' \in BOOLEAN
            /\ interactiveSet' = Insisted' /\ interactiveSet' \in BOOLEAN
        BY <1>1, <2>2, <3>1, LookFacts
      <3>3. files' \in Seq(Listed)
        BY <1>1, <2>2, <3>1, LookFiles
      <3>4. Len(args') <= MaxArgs + 1
        BY <1>1, <2>1, <3>2 DEF ArgsFit
      <3>5. ArgsFit'
        BY <2>1, <3>2 DEF ArgsFit
      <3>6. QED
        BY <1>1, <2>1, <3>2, <3>3, <3>4, <3>5, OutsideKeeps
    <2>3. CASE UNCHANGED option /\ files' = files
      BY <1>1, <2>1, <2>3, ArgsStay, OutsideKeeps
    <2>4. QED
      BY <2>1, <2>2, <2>3
  <1>8. CASE RunFile
    <2>1. /\ phase = "files" /\ phase' \in {"exited", phase} /\ status' \in {1, status}
          /\ files # <<>> /\ files' = Tail(files)
          /\ \E code \in Code \cup {NoQuit} : Ran(code)
          /\ UNCHANGED quitInLoop /\ UNCHANGED option /\ UNCHANGED loop
      BY <1>8 DEF RunFile, Exit
    <2>2. running' \in BOOLEAN /\ exitCode' \in Code \cup {0}
      BY <1>1, <2>1, RanTypes
    <2>3. files' \in Seq(Listed)
      BY <1>1, <2>1
    <2>4. QED
      BY <1>1, <2>1, <2>2, <2>3, ArgsStay, OutsideKeeps
  <1>9. CASE NotInteractive \/ EnterLoop
    <2>1. /\ phase = "files" /\ phase' \in {"exited", "loop"} /\ status' \in {1, exitCode, status}
          /\ running' \in {running, TRUE}
          /\ UNCHANGED <<files, exitCode, quitInLoop>> /\ UNCHANGED option /\ UNCHANGED loop
      BY <1>9 DEF NotInteractive, EnterLoop, Exit
    <2>2. QED
      BY <1>1, <2>1, ArgsStay, OutsideKeeps
  <1>10. ASSUME phase = "loop", phase' \in {"loop", "exited"},
                UNCHANGED option, files' = files
         PROVE  /\ ArgsFit'
                /\ args' \in Seq(AnyArg) /\ Len(args') <= MaxArgs + 1
                /\ interactive' \in BOOLEAN /\ interactiveSet' \in BOOLEAN
                /\ files' \in Seq(Listed)
    BY <1>1, <1>10, ArgsStay
  <1>11. CASE FirstLine
    <2>1. /\ phase = "loop" /\ phase' = "loop" /\ running = TRUE /\ unit = 0 /\ Line(0)
          /\ line' = line + 1 /\ startline' = line + 1 /\ unit' = 1
          /\ UNCHANGED <<files, running, exitCode, status, quitInLoop>> /\ UNCHANGED option
      BY <1>1, <1>11 DEF FirstLine
    <2>2. /\ read' = read + 1 /\ read' \in 1 .. MaxLines
          /\ eof = FALSE /\ eof' = eof
          /\ nest' \in -1 .. unit + 1 /\ line = read /\ read \in Nat
      <3>1. 0 \in 0 .. MaxLines /\ 0 <= unit
        BY <2>1, BoundAssumption
      <3>2. ReplInv /\ Line(0)
        BY <1>1, <2>1
      <3>3. QED
        BY <2>1, <3>1, <3>2, LineFacts
    <2>3. quitInLoop = FALSE
      BY <1>1, <2>1 DEF QuitFits, ReplTypeOK
    <2>4. LinesFit' /\ QuitFits'
      BY <2>1, <2>2, <2>3 DEF LinesFit, QuitFits
    <2>5. ReplTypeOK'
      BY <1>1, <1>10, <2>1, <2>2, <2>3 DEF ReplTypeOK, AnyArg
    <2>6. QED
      BY <1>10, <2>1, <2>4, <2>5 DEF ReplInv
  <1>12. CASE NextLine
    <2>1. /\ phase = "loop" /\ phase' = "loop" /\ unit > 0 /\ nest > 0 /\ Line(nest)
          /\ line' = line + 1 /\ unit' = unit + 1
          /\ UNCHANGED <<files, running, exitCode, status, startline, quitInLoop>>
          /\ UNCHANGED option
      BY <1>12 DEF NextLine
    <2>2. nest \in 0 .. MaxLines /\ nest <= unit
      BY <1>1, <2>1 DEF ReplTypeOK, LinesFit
    <2>3. /\ read' = read + 1 /\ read' \in 1 .. MaxLines
          /\ eof = FALSE /\ eof' = eof
          /\ nest' \in -1 .. unit + 1 /\ unit + 1 <= read' /\ unit \in Nat
          /\ line = read /\ startline = read - unit + 1
          /\ read \in Nat /\ startline \in Nat
      BY <2>1, <2>2, LineFacts
    <2>4. quitInLoop = FALSE
      BY <1>1, <2>1 DEF QuitFits, ReplTypeOK
    <2>5. LinesFit' /\ QuitFits'
      BY <2>1, <2>3, <2>4 DEF LinesFit, QuitFits
    <2>6. ReplTypeOK'
      BY <1>1, <1>10, <2>1, <2>3, <2>4 DEF ReplTypeOK, AnyArg
    <2>7. QED
      BY <1>10, <2>1, <2>5, <2>6 DEF ReplInv
  <1>13. CASE EndOfInput
    <2>1. /\ phase = "loop" /\ phase' = "exited" /\ running = TRUE /\ unit = 0 /\ eof' = TRUE
          /\ status' = exitCode
          /\ UNCHANGED <<files, running, exitCode, line, startline, unit, nest, read, quitInLoop>>
          /\ UNCHANGED option
      BY <1>1, <1>13 DEF EndOfInput, Exit
    <2>2. quitInLoop = FALSE
      BY <1>1, <2>1 DEF QuitFits, ReplTypeOK
    <2>3. LinesFit' /\ QuitFits'
      BY <1>1, <2>1, <2>2 DEF LinesFit, QuitFits
    <2>4. ReplTypeOK'
      BY <1>1, <1>10, <2>1, <2>2 DEF ReplTypeOK, AnyArg
    <2>5. QED
      BY <1>10, <2>1, <2>3, <2>4 DEF ReplInv
  <1>14. CASE NoNextLine
    <2>1. /\ phase = "loop" /\ phase' = "loop" /\ unit > 0 /\ eof' = TRUE
          /\ line' = IF line > MaxLines THEN line ELSE line + 1
          /\ UNCHANGED <<files, running, exitCode, status, startline, unit, nest, read, quitInLoop>>
          /\ UNCHANGED option
      BY <1>14 DEF NoNextLine
    <2>2. quitInLoop = FALSE
      BY <1>1, <2>1 DEF QuitFits, ReplTypeOK
    <2>3. LinesFit' /\ QuitFits'
      BY <1>1, <2>1, <2>2 DEF LinesFit, QuitFits
    <2>4. ReplTypeOK'
      BY <1>1, <1>10, <2>1, <2>2 DEF ReplTypeOK, AnyArg
    <2>5. QED
      BY <1>10, <2>1, <2>3, <2>4 DEF ReplInv
  <1>15. CASE Evaluate
    <2>1. PICK code \in Code \cup {NoQuit} : Ran(code) /\ quitInLoop' = (code # NoQuit)
      BY <1>15 DEF Evaluate
    <2>2. /\ phase = "loop" /\ phase' = "loop" /\ unit' = 0 /\ nest' = 0
          /\ UNCHANGED <<files, status, line, startline, read, eof>> /\ UNCHANGED option
      BY <1>15 DEF Evaluate
    <2>3. running' \in BOOLEAN /\ exitCode' \in Code \cup {0}
      BY <1>1, <2>1, RanTypes
    <2>4. LinesFit'
      BY <1>1, <2>2 DEF LinesFit
    <2>5. QuitFits'
      BY <2>1, <2>2 DEF QuitFits, Ran
    <2>6. ReplTypeOK'
      BY <1>1, <1>10, <2>1, <2>2, <2>3 DEF ReplTypeOK, AnyArg
    <2>7. QED
      BY <1>10, <2>2, <2>4, <2>5, <2>6 DEF ReplInv
  <1>16. CASE LoopDone
    <2>1. /\ phase = "loop" /\ phase' = "exited" /\ running = FALSE /\ unit = 0
          /\ status' = exitCode
          /\ UNCHANGED <<files, running, exitCode, quitInLoop>>
          /\ UNCHANGED option /\ UNCHANGED loop
      BY <1>1, <1>16 DEF LoopDone, Exit
    <2>2. LinesFit' /\ QuitFits'
      BY <1>1, <2>1 DEF LinesFit, QuitFits, loop
    <2>3. ReplTypeOK'
      BY <1>1, <1>10, <2>1 DEF ReplTypeOK, AnyArg, loop
    <2>4. QED
      BY <1>10, <2>1, <2>2, <2>3 DEF ReplInv
  <1>17. QED
    BY <1>2, <1>3, <1>4, <1>5, <1>6, <1>7, <1>8, <1>9, <1>11, <1>12, <1>13, <1>14, <1>15, <1>16
    DEF ReplNext, LoadConfig, LoadPrelude, SetArgs

LEMMA ReplInvHolds == ReplSpec => []ReplInv
  <1>1. ReplInit => ReplInv
    <2> SUFFICES ASSUME ReplInit PROVE ReplInv
      OBVIOUS
    <2>1. args = <<>> /\ args \in Seq(AnyArg) /\ files \in Seq(Listed) /\ DOMAIN args = {} /\ Len(args) = 0
      BY DEF ReplInit
    <2>2. ReplTypeOK
      <3>1. 0 \in 0 .. MaxLines + 1 /\ 0 \in 0 .. MaxLines /\ 0 \in -1 .. MaxLines /\ 0 \in 0 .. 0 /\ 0 <= MaxArgs + 1
        BY BoundAssumption
      <3>2. /\ phase = "options" /\ interactive = TRUE /\ interactiveSet = FALSE /\ running = FALSE
            /\ exitCode = 0 /\ status = 0 /\ line = 0 /\ startline = 0 /\ unit = 0 /\ nest = 0
            /\ read = 0 /\ eof = FALSE /\ quitInLoop = FALSE
        BY DEF ReplInit
      <3>3. QED
        BY <2>1, <3>1, <3>2 DEF ReplTypeOK, AnyArg
    <2>3. ArgsFit
      <3>1. Wanted = TRUE /\ Insisted = FALSE
        BY <2>1 DEF Wanted, Insisted
      <3>2. phase = "options" /\ interactive = TRUE /\ interactiveSet = FALSE
        BY DEF ReplInit
      <3>3. Len(args) <= MaxArgs
        BY <2>1, BoundAssumption
      <3>4. interactive = Wanted /\ interactiveSet = Insisted
        BY ONLY <3>1, <3>2
      <3>5. QED
        BY ONLY <3>3, <3>4 DEF ArgsFit
    <2>4. LinesFit /\ QuitFits
      BY DEF ReplInit, LinesFit, QuitFits
    <2>5. QED
      BY <2>2, <2>3, <2>4 DEF ReplInv
  <1>2. ReplInv /\ [ReplNext]_replVars => ReplInv'
    BY ReplStep
  <1>3. QED
    BY <1>1, <1>2, PTL DEF ReplSpec

\* The loop is entered exactly when the command line asks for it, wherever
\* the options stand, and a unit is evaluated with the number of its first
\* line, however many lines it takes.
THEOREM LoopSoundHolds == ReplSpec => []LoopSound
  <1>1. ReplInv => LoopSound
    <2> SUFFICES ASSUME ReplInv PROVE LoopSound
      OBVIOUS
    <2>1. ReplTypeOK /\ InteractiveAsAsked
      BY DEF ReplInv, ArgsFit, InteractiveAsAsked
    <2>2. LineNumbers
      BY DEF ReplInv, LinesFit, LineNumbers
    <2>3. QED
      BY <2>1, <2>2 DEF LoopSound
  <1>2. QED
    BY <1>1, ReplInvHolds, PTL

\* Once a unit of the loop has called quit(), no line is read and no unit
\* evaluated, and the process ends with the code that was given.
THEOREM QuitEndsLoopHolds == ReplSpec => QuitEndsLoop
  <1>1. ASSUME ReplInv, [ReplNext]_replVars, quitInLoop
        PROVE  UNCHANGED <<read, unit>> /\ (phase' = "exited" => status' = exitCode)
    <2>1. /\ phase \in {"loop", "exited"} /\ running = FALSE /\ unit = 0
          /\ phase = "exited" => status = exitCode
      BY <1>1 DEF ReplInv, QuitFits
    <2>2. \/ UNCHANGED replVars
          \/ LoopDone
      <3>1. ASSUME NEW arg \in Option, TakeOption(arg) PROVE FALSE
        BY <2>1, <3>1 DEF TakeOption
      <3>2. ~StopAtOption /\ ~OptionsDone /\ ~LoadConfig /\ ~LoadPrelude /\ ~SetArgs /\ ~TakeScript
        BY <2>1
        DEF StopAtOption, OptionsDone, LoadConfig, LoadPrelude, SetArgs, Configure, TakeScript
      <3>3. ~RunFile /\ ~NotInteractive /\ ~EnterLoop
        BY <2>1 DEF RunFile, NotInteractive, EnterLoop
      <3>4. ~FirstLine /\ ~EndOfInput
        BY <2>1 DEF FirstLine, EndOfInput
      <3>5. ~NextLine /\ ~NoNextLine /\ ~Evaluate
        BY <2>1 DEF NextLine, NoNextLine, Evaluate
      <3>6. QED
        BY <1>1, <3>1, <3>2, <3>3, <3>4, <3>5 DEF ReplNext
    <2>3. QED
      BY <2>1, <2>2 DEF replVars, loop, LoopDone, Exit
  <1>2. ReplInv /\ [ReplNext]_replVars =>
          [quitInLoop => /\ UNCHANGED <<read, unit>>
                         /\ phase' = "exited" => status' = exitCode]_replVars
    BY <1>1
  <1>3. QED
    BY <1>2, ReplInvHolds, PTL DEF ReplSpec, QuitEndsLoop
=============================================================================
