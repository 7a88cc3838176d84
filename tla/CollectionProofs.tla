-------------------------- MODULE CollectionProofs --------------------------
(***************************************************************************)
(* Theorems about what the collector finalizes, for every set of objects   *)
(* and every depth of nesting.  NativeObject: script objects and C++       *)
(* objects belong to each other, and no C++ object is deleted while        *)
(* something can still call it.  XmlTree: the trees of XML nodes, whose    *)
(* memory the finalizers of their wrappers give back, stay trees.          *)
(***************************************************************************)
EXTENDS NativeObject, XmlTree, Integers, StackLemmas, SequenceTheorems, TLAPS

-----------------------------------------------------------------------------
(* What the steps do to the stack of frames, innermost first. *)

LEMMA PushFacts ==
  ASSUME NEW S, NEW s \in Seq(S), NEW f \in S
  PROVE  /\ Len(s) \in Nat /\ DOMAIN s = 1 .. Len(s)
         /\ <<f>> \o s \in Seq(S)
         /\ Len(<<f>> \o s) = Len(s) + 1
         /\ DOMAIN (<<f>> \o s) = 1 .. Len(s) + 1
         /\ (<<f>> \o s)[1] = f
         /\ \A i \in 2 .. Len(s) + 1 : (<<f>> \o s)[i] = s[i - 1]
  <1>1. <<f>> \in Seq(S) /\ Len(<<f>>) = 1 /\ <<f>>[1] = f
    OBVIOUS
  <1>2. /\ <<f>> \o s \in Seq(S)
        /\ Len(<<f>> \o s) = 1 + Len(s)
        /\ \A i \in 1 .. 1 + Len(s) :
             (<<f>> \o s)[i] = IF i <= 1 THEN <<f>>[i] ELSE s[i - 1]
    BY <1>1, ConcatProperties
  <1>3. QED
    BY <1>1, <1>2

LEMMA PopFacts ==
  ASSUME NEW S, NEW s \in Seq(S), s # <<>>
  PROVE  /\ Len(s) \in Nat /\ Len(s) > 0 /\ 1 \in DOMAIN s
         /\ DOMAIN s = 1 .. Len(s) /\ s[1] \in S
         /\ Tail(s) \in Seq(S)
         /\ Len(Tail(s)) = Len(s) - 1
         /\ DOMAIN Tail(s) = 1 .. Len(s) - 1
         /\ \A i \in 1 .. Len(s) - 1 : Tail(s)[i] = s[i + 1]
  BY HeadTailProperties

LEMMA TopFacts ==
  ASSUME TypeOK, NEW at, at # "script", Top(at)
  PROVE  /\ frames \in Seq(Frame) /\ frames # <<>>
         /\ Len(frames) \in Nat /\ Len(frames) > 0 /\ 1 \in DOMAIN frames
         /\ DOMAIN frames = 1 .. Len(frames)
         /\ frames[1] \in Frame /\ frames[1].at = at
  <1>1. frames \in Seq(Frame) /\ frames # <<>>
    BY DEF TypeOK, Top, At
  <1>2. QED
    BY <1>1, PopFacts DEF Top, At

\* A frame that changes in place.
LEMMA AtFacts ==
  ASSUME NEW s \in Seq(Frame), s # <<>>, NEW f \in Frame, NEW t, t = [s EXCEPT ![1] = f]
  PROVE  /\ t \in Seq(Frame) /\ Len(t) = Len(s) /\ DOMAIN t = DOMAIN s
         /\ t[1] = f
         /\ \A i \in DOMAIN s : i # 1 => t[i] = s[i]
  <1>1. 1 \in DOMAIN s /\ DOMAIN s = 1 .. Len(s) /\ Len(s) \in Nat
    BY PopFacts
  <1>2. t \in Seq(Frame) /\ Len(t) = Len(s)
    BY <1>1, ExceptSeq
  <1>3. QED
    BY <1>1, <1>2

\* An object whose creation is over, and which no collection has given up:
\* the C++ object behind it, if it has to have one, is there and complete.
Usable(o) ==
  /\ o \in Objs /\ class[o] # "free" /\ o \notin sweeping
  /\ class[o] \in {"object", "function"} => priv[o] # None
  /\ priv[o] # None => life[priv[o]] = "live" /\ handle[priv[o]] = o

\* Frames whose object nobody else knows yet.
Making == {"args", "body", "parent"}

FrameSound(f) ==
  /\ f.arg # None => Usable(f.arg)
  /\ f.at \in {"ctor", "proto", "augment"} => f.obj = None
  /\ f.at \in Making => f.obj \in Objs /\ f.obj \notin sweeping
  /\ f.at = "args" => class[f.obj] = "object" /\ priv[f.obj] = None
  /\ f.at = "body" =>
       /\ f.native \in Natives /\ class[f.obj] = "object" /\ priv[f.obj] = f.native
       /\ life[f.native] = "building" /\ handle[f.native] = f.obj
  /\ f.at = "parent" =>
       /\ f.native \in Natives /\ class[f.obj] = "function" /\ priv[f.obj] = f.native
       /\ life[f.native] = "live" /\ handle[f.native] = None /\ member[f.native] = None
  /\ f.at = "hook" =>
       f.native \in Natives /\ Usable(f.obj) /\ priv[f.obj] = f.native

FramesSound == \A i \in DOMAIN frames : FrameSound(frames[i])

FramesApart ==
  /\ \A i, j \in DOMAIN frames :
       frames[i].at \in Making /\ frames[j].at \in Making /\ frames[i].obj = frames[j].obj
         => i = j
  /\ \A i \in DOMAIN frames : frames[i].at = "parent" => i = 1

\* What C++ code and script may name is usable, and so is what a usable
\* object traces.
Public == held \cup rooted \cup ({ctor, proto} \ {None})
MemberOf(o) == IF priv[o] = None THEN None ELSE member[priv[o]]
PublicUsable ==
  /\ \A o \in Public : Usable(o)
  /\ \A o \in Objs : Usable(o) /\ MemberOf(o) # None => Usable(MemberOf(o))

ObjectSound(o) ==
  /\ class[o] = "function" => priv[o] # None /\ member[priv[o]] = None
  /\ priv[o] # None =>
       /\ class[o] \in {"object", "function"}
       /\ priv[o] \in spoilt => class[o] = "function"
       /\ priv[o] \notin spoilt =>
            /\ life[priv[o]] \in {"building", "live"}
            /\ handle[priv[o]] = o \/ BeingMade(o)

NativeSound(n) ==
  /\ handle[n] # None => priv[handle[n]] = n /\ life[n] \in {"building", "live"}
  /\ life[n] \in {"unborn", "building"} => member[n] = None
  /\ n \in spoilt => life[n] = "deleted" /\ member[n] = None
  /\ n \in twice => n \in spoilt

PairsSound ==
  /\ \A o \in Objs : ObjectSound(o)
  /\ \A n \in Natives : NativeSound(n)

NativeInv ==
  /\ TypeOK /\ FramesSound /\ FramesApart /\ PublicUsable /\ PairsSound
  /\ EscapesOnlyEarly
LEMMA Pushed ==
  ASSUME TypeOK, MayCall, NEW f \in Frame, Push(f)
  PROVE  /\ frames' \in Seq(Frame) /\ Len(frames') <= MaxDepth
         /\ 1 \in DOMAIN frames' /\ frames'[1] = f
         /\ \A i \in DOMAIN frames' :
              i \in Int /\ (i # 1 => i - 1 \in DOMAIN frames /\ frames'[i] = frames[i - 1])
  <1>1. frames \in Seq(Frame) /\ frames' = <<f>> \o frames
    BY DEF TypeOK, Push
  <1>2. Len(frames) < MaxDepth /\ MaxDepth \in Nat
    BY DepthAssumption DEF MayCall
  <1>3. QED
    BY <1>1, <1>2, PushFacts

LEMMA Popped ==
  ASSUME TypeOK, frames # <<>>, Pop
  PROVE  /\ frames' \in Seq(Frame) /\ Len(frames') <= MaxDepth
         /\ 1 \in DOMAIN frames
         /\ \A i \in DOMAIN frames' :
              i \in Nat \ {0} /\ i + 1 \in DOMAIN frames /\ frames'[i] = frames[i + 1]
  <1>1. frames \in Seq(Frame) /\ frames' = Tail(frames) /\ Len(frames) <= MaxDepth
    BY DEF TypeOK, Pop
  <1>2. MaxDepth \in Nat
    BY DepthAssumption
  <1>3. QED
    BY <1>1, <1>2, PopFacts

\* The two frames of load_class: its own, and that of the constructor.
LoadFrame == [kind |-> "load", obj |-> None, native |-> None, arg |-> None, at |-> "ctor"]

LEMMA PushedTwo ==
  ASSUME TypeOK, MayCall, Len(frames) + 1 < MaxDepth,
         NEW f \in Frame, frames' = <<f, LoadFrame>> \o frames
  PROVE  /\ frames' \in Seq(Frame) /\ Len(frames') <= MaxDepth
         /\ 1 \in DOMAIN frames' /\ frames'[1] = f /\ frames'[2] = LoadFrame
         /\ \A i \in DOMAIN frames' :
              i \in Int /\ (i \notin {1, 2} => i - 2 \in DOMAIN frames /\ frames'[i] = frames[i - 2])
  <1>1. LoadFrame \in Frame
    BY DEF LoadFrame, Frame
  <1>2. frames \in Seq(Frame) /\ MaxDepth \in Nat
    BY DepthAssumption DEF TypeOK
  <1> DEFINE two == <<f, LoadFrame>>
  <1>3. two \in Seq(Frame) /\ Len(two) = 2 /\ two[1] = f /\ two[2] = LoadFrame
    BY <1>1
  <1>4. frames' = two \o frames
    OBVIOUS
  <1> HIDE DEF two
  <1>5. /\ two \o frames \in Seq(Frame)
        /\ Len(two \o frames) = Len(two) + Len(frames)
        /\ \A i \in 1 .. Len(two) + Len(frames) :
             (two \o frames)[i] = IF i <= Len(two) THEN two[i] ELSE frames[i - Len(two)]
    BY ONLY <1>2, <1>3, ConcatProperties
  <1>6. Len(frames) \in Nat /\ DOMAIN frames = 1 .. Len(frames)
    BY <1>2
  <1>7. QED
    BY <1>2, <1>3, <1>4, <1>5, <1>6

\* load_class ends with its constructor: both frames go.
LEMMA PoppedTwo ==
  ASSUME TypeOK, Len(frames) > 1, frames' = Tail(Tail(frames))
  PROVE  /\ frames' \in Seq(Frame) /\ Len(frames') <= MaxDepth
         /\ \A i \in DOMAIN frames' :
              i \in Nat \ {0} /\ i + 2 \in DOMAIN frames /\ frames'[i] = frames[i + 2]
  <1>1. frames \in Seq(Frame) /\ frames # <<>> /\ Len(frames) <= MaxDepth /\ MaxDepth \in Nat
    BY DepthAssumption DEF TypeOK
  <1> DEFINE t == Tail(frames)
  <1>2. /\ t \in Seq(Frame) /\ Len(t) = Len(frames) - 1 /\ Len(frames) \in Nat
        /\ DOMAIN frames = 1 .. Len(frames)
        /\ \A i \in 1 .. Len(frames) - 1 : t[i] = frames[i + 1]
    BY <1>1, PopFacts
  <1>3. t # <<>>
    BY <1>2
  <1>4. frames' = Tail(t)
    OBVIOUS
  <1> HIDE DEF t
  <1>5. /\ frames' \in Seq(Frame) /\ Len(frames') = Len(t) - 1
        /\ DOMAIN frames' = 1 .. Len(t) - 1
        /\ \A i \in 1 .. Len(t) - 1 : frames'[i] = t[i + 1]
    BY <1>2, <1>3, <1>4, PopFacts
  <1>6. QED
    BY <1>1, <1>2, <1>5

\* The constructor is made: its frame goes, that of load_class moves on.
LEMMA PoppedOnto ==
  ASSUME TypeOK, Len(frames) > 1, frames' = [Tail(frames) EXCEPT ![1].at = "proto"]
  PROVE  /\ frames' \in Seq(Frame) /\ Len(frames') <= MaxDepth
         /\ frames'[1] = [frames[2] EXCEPT !.at = "proto"]
         /\ frames[2] \in Frame /\ 2 \in DOMAIN frames
         /\ \A i \in DOMAIN frames' :
              /\ i \in Nat \ {0} /\ i + 1 \in DOMAIN frames
              /\ i # 1 => frames'[i] = frames[i + 1]
  <1>1. frames \in Seq(Frame) /\ frames # <<>> /\ Len(frames) <= MaxDepth /\ MaxDepth \in Nat
    BY DepthAssumption DEF TypeOK
  <1> DEFINE t == Tail(frames)
  <1>2. /\ t \in Seq(Frame) /\ Len(t) = Len(frames) - 1 /\ Len(frames) \in Nat
        /\ DOMAIN frames = 1 .. Len(frames) /\ DOMAIN t = 1 .. Len(frames) - 1
        /\ \A i \in 1 .. Len(frames) - 1 : t[i] = frames[i + 1]
    BY <1>1, PopFacts
  <1>3. t # <<>> /\ 1 \in 1 .. Len(frames) - 1
    BY <1>2
  <1>4. frames' = [t EXCEPT ![1].at = "proto"]
    OBVIOUS
  <1> HIDE DEF t
  <1>5. t[1] = frames[2] /\ t[1] \in Frame
    BY <1>2, <1>3
  <1>6. frames' = [t EXCEPT ![1] = [t[1] EXCEPT !.at = "proto"]]
    BY <1>2, <1>3, <1>4
  <1>7. [t[1] EXCEPT !.at = "proto"] \in Frame
    BY <1>5 DEF Frame
  <1> DEFINE p == [t[1] EXCEPT !.at = "proto"]
  <1>8. p \in Frame /\ frames' = [t EXCEPT ![1] = p]
    BY <1>6, <1>7
  <1>9. p = [frames[2] EXCEPT !.at = "proto"]
    BY <1>5
  <1> HIDE DEF p
  <1>10. /\ frames' \in Seq(Frame) /\ Len(frames') = Len(t) /\ DOMAIN frames' = DOMAIN t
         /\ frames'[1] = p
         /\ \A i \in DOMAIN t : i # 1 => frames'[i] = t[i]
    BY ONLY <1>2, <1>3, <1>8, AtFacts
  <1>11. QED
    BY <1>1, <1>2, <1>5, <1>9, <1>10

\* The innermost frame goes on to another place, with a C++ object or not.
LEMMA Moved ==
  ASSUME TypeOK, frames # <<>>, NEW n \in Natives \cup {None},
         NEW a \in {"args", "body", "parent", "ctor", "proto", "augment", "hook"},
         frames' \in {[frames EXCEPT ![1].at = a], [frames EXCEPT ![1].at = a, ![1].native = n]}
  PROVE  /\ frames' \in Seq(Frame) /\ Len(frames') <= MaxDepth
         /\ DOMAIN frames' = DOMAIN frames
         /\ 1 \in DOMAIN frames
         /\ frames'[1].kind = frames[1].kind /\ frames'[1].obj = frames[1].obj
         /\ frames'[1].arg = frames[1].arg /\ frames'[1].at = a
         /\ frames' = [frames EXCEPT ![1].at = a, ![1].native = n] => frames'[1].native = n
         /\ \A i \in DOMAIN frames : i # 1 => frames'[i] = frames[i]
  <1>1. frames \in Seq(Frame) /\ Len(frames) <= MaxDepth
    BY DEF TypeOK
  <1>2. frames[1] \in Frame /\ 1 \in DOMAIN frames /\ DOMAIN frames = 1 .. Len(frames)
        /\ Len(frames) \in Nat
    BY <1>1, PopFacts
  <1> DEFINE one == [frames[1] EXCEPT !.at = a]
             two == [frames[1] EXCEPT !.at = a, !.native = n]
  <1>3. one \in Frame /\ two \in Frame
    BY <1>2 DEF Frame
  <1>4. /\ one.kind = frames[1].kind /\ one.obj = frames[1].obj
        /\ one.arg = frames[1].arg /\ one.at = a
        /\ two.kind = frames[1].kind /\ two.obj = frames[1].obj
        /\ two.arg = frames[1].arg /\ two.at = a /\ two.native = n
    BY <1>2 DEF Frame
  <1>5. /\ [frames EXCEPT ![1].at = a] = [frames EXCEPT ![1] = one]
        /\ [frames EXCEPT ![1].at = a, ![1].native = n] = [frames EXCEPT ![1] = two]
    BY <1>2 DEF Frame
  <1> HIDE DEF one, two
  <1>6. PICK f \in {one, two} :
          /\ frames' = [frames EXCEPT ![1] = f]
          /\ frames' = [frames EXCEPT ![1].at = a, ![1].native = n] => f.native = n
    <2>1. CASE frames' = [frames EXCEPT ![1].at = a, ![1].native = n]
      BY <1>4, <1>5, <2>1
    <2>2. CASE frames' # [frames EXCEPT ![1].at = a, ![1].native = n]
      BY <1>4, <1>5, <2>2
    <2>3. QED
      BY <2>1, <2>2
  <1>7. /\ frames' \in Seq(Frame) /\ Len(frames') = Len(frames)
        /\ DOMAIN frames' = DOMAIN frames
        /\ frames'[1] = f
        /\ \A i \in DOMAIN frames : i # 1 => frames'[i] = frames[i]
    BY <1>1, <1>3, <1>6, AtFacts
  <1>8. QED
    BY <1>1, <1>2, <1>4, <1>6, <1>7

-----------------------------------------------------------------------------
(* Types. *)

LEMMA MakeParentTypes ==
  ASSUME TypeOK, NEW o \in Objs, NEW n \in Natives, MakeParent(o, n)
  PROVE  /\ class' \in [Objs -> {"free", "object", "function", "plain"}]
         /\ priv' \in [Objs -> Natives \cup {None}]
         /\ life' \in [Natives -> {"unborn", "building", "live", "deleted"}]
         /\ ParentFrame(o, n) \in Frame
  BY DEF TypeOK, MakeParent, ParentFrame, Frame

LEMMA HookType ==
  ASSUME TypeOK, NEW o \in Objs, NEW n \in Natives \cup {None}, HookOn(o, n)
  PROVE  TypeOK'
  <1>1. n \in Natives
    BY DEF HookOn
  <1>2. HookFrame(o, n) \in Frame /\ HookFrame(o, n).native \in Natives
    BY <1>1 DEF HookFrame, Frame
  <1>3. MayCall /\ Push(HookFrame(o, n))
    BY DEF HookOn
  <1>4. /\ frames' \in Seq(Frame) /\ Len(frames') <= MaxDepth
        /\ frames'[1] = HookFrame(o, n)
        /\ \A i \in DOMAIN frames' :
             i # 1 => i - 1 \in DOMAIN frames /\ frames'[i] = frames[i - 1]
    BY <1>2, <1>3, Pushed
  <1>5. \A i \in DOMAIN frames' : frames'[i].at = "hook" => frames'[i].native \in Natives
    BY <1>2, <1>4 DEF TypeOK
  <1>6. QED
    BY <1>4, <1>5 DEF TypeOK, HookOn, bodies, registry, rest

LEMMA PrivTypes ==
  ASSUME TypeOK, NEW o \in Objs
  PROVE  priv[o] \in Natives \cup {None} /\ GetNative(o) \in Natives \cup {None}
  BY DEF TypeOK, GetNative

LEMMA HooksAre ==
  ASSUME TypeOK,
         \/ \E o \in held : property_op(o) \/ new_resolve(o) \/ new_enumerate(o) \/ CallFunction(o)
         \/ \E o, f \in held : call_helper(o, f) \/ CallMember(f, o)
  PROVE  \E o \in held, n \in Natives :
           HookOn(o, n) /\ priv[o] = n /\ class[o] \in {"object", "function"}
  <1>1. held \subseteq Objs
    BY DEF TypeOK
  <1>2. ASSUME NEW o \in held, HookOn(o, GetNative(o))
        PROVE  HookOn(o, priv[o]) /\ priv[o] \in Natives /\ class[o] = "object"
    BY <1>1, <1>2, PrivTypes DEF HookOn, GetNative
  <1>3. ASSUME NEW o \in held, class[o] = "function", HookOn(o, priv[o])
        PROVE  priv[o] \in Natives
    BY <1>1, <1>3, PrivTypes DEF HookOn
  <1>4. QED
    BY <1>2, <1>3 DEF property_op, new_resolve, new_enumerate, CallFunction, call_helper, CallMember

LEMMA TypeStep ==
  ASSUME TypeOK, FramesSound, PairsSound, [Next]_vars
  PROVE  TypeOK'
  <1>1. CASE UNCHANGED vars
    BY <1>1 DEF vars, TypeOK
  <1>2. ASSUME NEW o \in Objs, NEW a \in held \cup {None}, CreateNativeObject(o, a)
        PROVE  TypeOK'
    <2>1. NewFrame(o, a) \in Frame /\ NewFrame(o, a).at # "hook"
      BY DEF NewFrame, Frame, TypeOK
    <2>2. MayCall /\ Push(NewFrame(o, a))
      BY <1>2 DEF CreateNativeObject
    <2>3. /\ frames' \in Seq(Frame) /\ Len(frames') <= MaxDepth
          /\ frames'[1] = NewFrame(o, a)
          /\ \A i \in DOMAIN frames' :
               i # 1 => i - 1 \in DOMAIN frames /\ frames'[i] = frames[i - 1]
      BY <2>1, <2>2, Pushed
    <2>4. \A i \in DOMAIN frames' : frames'[i].at = "hook" => frames'[i].native \in Natives
      BY <2>1, <2>3 DEF TypeOK
    <2>5. QED
      BY <1>2, <2>3, <2>4 DEF CreateNativeObject, do_create_object, TypeOK, registry, rest
  <1>3. CASE ArgsThrow \/ LoadThrows \/ HookReturns
    <2>1. frames # <<>> /\ Pop /\ UNCHANGED <<bodies, held, registry, rest>>
      BY <1>3 DEF ArgsThrow, LoadThrows, HookReturns, Top, At
    <2>2. \A i \in DOMAIN frames' : frames'[i].at = "hook" => frames'[i].native \in Natives
      BY <2>1, Popped DEF TypeOK
    <2>3. QED
      BY <2>1, <2>2, Popped DEF TypeOK, bodies, registry, rest
  <1>4. ASSUME NEW n \in Natives, LoadInto(n)
        PROVE  TypeOK'
    <2>1. frames[1] \in Frame /\ frames # <<>> /\ Top("args")
      BY <1>4, TopFacts DEF LoadInto
    <2>2. /\ frames' \in Seq(Frame) /\ Len(frames') <= MaxDepth
          /\ DOMAIN frames' = DOMAIN frames
          /\ frames'[1].at = "body"
          /\ \A i \in DOMAIN frames : i # 1 => frames'[i] = frames[i]
      BY <1>4, <2>1, Moved DEF LoadInto
    <2>3. frames[1].obj \in Objs \cup {None}
      BY <2>1 DEF Frame
    <2>4. QED
      BY <1>4, <2>2, <2>3 DEF LoadInto, TypeOK, registry, rest
  <1>5. CASE BodyThrows
    <2>1. Top("body") /\ frames # <<>> /\ frames[1] \in Frame /\ Pop
      BY <1>5, TopFacts DEF BodyThrows
    <2>2. \A i \in DOMAIN frames' : frames'[i].at = "hook" => frames'[i].native \in Natives
      BY <2>1, Popped DEF TypeOK
    <2>3. frames[1].native \in Natives
      BY <2>1, TopFacts DEF FramesSound, FrameSound
    <2>4. QED
      BY <1>5, <2>1, <2>2, <2>3, Popped
         DEF BodyThrows, Destroyed, Deleted, TypeOK, registry, rest
  <1>6. CASE Created
    <2>1. Top("body") /\ frames # <<>> /\ frames[1] \in Frame /\ Pop
      BY <1>6, TopFacts DEF Created
    <2>2. \A i \in DOMAIN frames' : frames'[i].at = "hook" => frames'[i].native \in Natives
      BY <2>1, Popped DEF TypeOK
    <2>3. frames[1].arg \in Objs \cup {None} /\ frames[1].obj \in Objs
      BY <2>1, TopFacts DEF Frame, FramesSound, FrameSound, Making
    <2>4. QED
      BY <1>6, <2>1, <2>2, <2>3, Popped DEF Created, TypeOK, registry, rest
  <1>7. ASSUME NEW o \in Objs, NEW n \in Natives, CreateFunction(o, n)
        PROVE  TypeOK'
    <2>1. MakeParent(o, n) /\ MayCall /\ Push(ParentFrame(o, n))
      BY <1>7 DEF CreateFunction
    <2>2. ParentFrame(o, n) \in Frame /\ ParentFrame(o, n).at # "hook"
      BY <2>1, MakeParentTypes DEF ParentFrame
    <2>3. /\ frames' \in Seq(Frame) /\ Len(frames') <= MaxDepth
          /\ frames'[1] = ParentFrame(o, n)
          /\ \A i \in DOMAIN frames' :
               i # 1 => i - 1 \in DOMAIN frames /\ frames'[i] = frames[i - 1]
      BY <2>1, <2>2, Pushed
    <2>4. \A i \in DOMAIN frames' : frames'[i].at = "hook" => frames'[i].native \in Natives
      BY <2>2, <2>3 DEF TypeOK
    <2>5. QED
      BY <1>7, <2>1, <2>3, <2>4, MakeParentTypes
         DEF CreateFunction, MakeParent, TypeOK, registry, rest
  <1>8. CASE FunctionFails
    <2>1. Top("parent") /\ frames # <<>> /\ frames[1] \in Frame
      BY <1>8, TopFacts DEF FunctionFails
    <2>2. /\ frames' \in Seq(Frame) /\ Len(frames') <= MaxDepth
          /\ \A i \in DOMAIN frames' : \E j \in DOMAIN frames : frames'[i] = frames[j]
      <3>1. CASE ForClass
        <4>1. Len(frames) > 1 /\ frames' = Tail(Tail(frames))
          BY <1>8, <3>1 DEF ForClass, FunctionFails
        <4>2. QED
          BY <4>1, PoppedTwo
      <3>2. CASE ~ForClass
        <4>1. Pop
          BY <1>8, <3>2 DEF FunctionFails, Pop
        <4>2. QED
          BY <2>1, <4>1, Popped
      <3>3. QED
        BY <3>1, <3>2
    <2>3. \A i \in DOMAIN frames' : frames'[i].at = "hook" => frames'[i].native \in Natives
      BY <2>2 DEF TypeOK
    <2>4. frames[1].native \in Natives
      BY <2>1, TopFacts DEF FramesSound, FrameSound
    <2>5. QED
      BY <1>8, <2>2, <2>3, <2>4 DEF FunctionFails, Deleted, TypeOK, registry, rest
  <1>9. CASE FunctionMade
    <2>1. Top("parent") /\ frames # <<>> /\ frames[1] \in Frame /\ Pop
      BY <1>9, TopFacts DEF FunctionMade
    <2>2. \A i \in DOMAIN frames' : frames'[i].at = "hook" => frames'[i].native \in Natives
      BY <2>1, Popped DEF TypeOK
    <2>3. frames[1].obj \in Objs
      BY <2>1, TopFacts DEF FramesSound, FrameSound, Making
    <2>4. QED
      BY <1>9, <2>1, <2>2, <2>3, Popped
         DEF FunctionMade, Connected, TypeOK, registry, rest
  <1>10. ASSUME NEW o \in Objs, NEW n \in Natives, LoadClass(o, n)
         PROVE  TypeOK'
    <2>1. /\ MakeParent(o, n) /\ MayCall /\ Len(frames) + 1 < MaxDepth
          /\ frames' = <<ParentFrame(o, n), LoadFrame>> \o frames
      BY <1>10 DEF LoadClass, LoadFrame
    <2>2. ParentFrame(o, n) \in Frame /\ ParentFrame(o, n).at # "hook" /\ LoadFrame.at # "hook"
      BY <2>1, MakeParentTypes DEF ParentFrame, LoadFrame
    <2>3. /\ frames' \in Seq(Frame) /\ Len(frames') <= MaxDepth
          /\ frames'[1] = ParentFrame(o, n) /\ frames'[2] = LoadFrame
          /\ \A i \in DOMAIN frames' :
               i \notin {1, 2} => i - 2 \in DOMAIN frames /\ frames'[i] = frames[i - 2]
      BY <2>1, <2>2, PushedTwo
    <2>4. \A i \in DOMAIN frames' : frames'[i].at = "hook" => frames'[i].native \in Natives
      BY <2>2, <2>3 DEF TypeOK
    <2>5. QED
      BY <1>10, <2>1, <2>3, <2>4, MakeParentTypes
         DEF LoadClass, MakeParent, TypeOK, registry, rest
  <1>11. CASE AddConstructor
    <2>1. Top("parent") /\ frames # <<>> /\ frames[1] \in Frame
      BY <1>11, TopFacts DEF AddConstructor
    <2>2. Len(frames) > 1 /\ frames' = [Tail(frames) EXCEPT ![1].at = "proto"]
      BY <1>11 DEF AddConstructor, ForClass
    <2>3. /\ frames' \in Seq(Frame) /\ Len(frames') <= MaxDepth
          /\ frames'[1] = [frames[2] EXCEPT !.at = "proto"] /\ frames[2] \in Frame
          /\ \A i \in DOMAIN frames' :
               i # 1 => i + 1 \in DOMAIN frames /\ frames'[i] = frames[i + 1]
      BY <2>2, PoppedOnto
    <2>4. frames'[1].at # "hook"
      BY <2>3 DEF Frame
    <2>5. \A i \in DOMAIN frames' : frames'[i].at = "hook" => frames'[i].native \in Natives
      BY <2>3, <2>4 DEF TypeOK
    <2>6. frames[1].obj \in Objs
      BY <2>1, TopFacts DEF FramesSound, FrameSound, Making
    <2>7. QED
      BY <1>11, <2>3, <2>5, <2>6 DEF AddConstructor, Connected, TypeOK, rest
  <1>12. ASSUME NEW p \in Objs, AddPrototype(p)
         PROVE  TypeOK'
    <2>1. Top("proto") /\ frames # <<>> /\ frames' = [frames EXCEPT ![1].at = "augment"]
      BY <1>12, TopFacts DEF AddPrototype, GoTo
    <2>2. /\ frames' \in Seq(Frame) /\ Len(frames') <= MaxDepth
          /\ DOMAIN frames' = DOMAIN frames
          /\ frames'[1].at = "augment"
          /\ \A i \in DOMAIN frames : i # 1 => frames'[i] = frames[i]
      BY <2>1, Moved
    <2>3. \A i \in DOMAIN frames' : frames'[i].at = "hook" => frames'[i].native \in Natives
      BY <2>2 DEF TypeOK
    <2>4. QED
      BY <1>12, <2>2, <2>3 DEF AddPrototype, TypeOK, rest
  <1>13. CASE ClassLoaded
    <2>1. frames # <<>> /\ Pop /\ UNCHANGED <<bodies, held, ctor, proto, rest>> /\ exported' = TRUE
      BY <1>13 DEF ClassLoaded, Top, At
    <2>2. \A i \in DOMAIN frames' : frames'[i].at = "hook" => frames'[i].native \in Natives
      BY <2>1, Popped DEF TypeOK
    <2>3. QED
      BY <2>1, <2>2, Popped DEF TypeOK, bodies, rest
  <1>14. CASE \/ \E o \in held : property_op(o) \/ new_resolve(o) \/ new_enumerate(o) \/ CallFunction(o)
              \/ \E o, f \in held : call_helper(o, f) \/ CallMember(f, o)
    <2>1. held \subseteq Objs
      BY DEF TypeOK
    <2>2. QED
      BY <1>14, <2>1, HooksAre, HookType
  <1>15. CASE \/ LoadKnown \/ Unexport \/ TraceThrows
              \/ \E o \in held : Drop(o) \/ AddRoot(o)
              \/ \E o \in rooted : RemoveRoot(o)
    BY <1>15 DEF LoadKnown, Unexport, TraceThrows, Drop, AddRoot, RemoveRoot, TypeOK,
                 bodies, registry, rest
  <1>16. CASE Collect \/ DestroyContext
    BY <1>16 DEF Collect, DestroyContext, Closed, Allocated, TypeOK, bodies, registry, rest
  <1>17. ASSUME NEW o \in sweeping, Finalize(o)
         PROVE  TypeOK'
    <2>1. o \in Objs /\ priv[o] \in Natives \cup {None}
      BY <1>17 DEF TypeOK
    <2>2. CASE class[o] = "object" /\ priv[o] # None
      BY <1>17, <2>1, <2>2 DEF Finalize, Destroyed, Deleted, TypeOK, registry
    <2>3. CASE class[o] = "function" /\ priv[o] # None
      BY <1>17, <2>1, <2>3 DEF Finalize, Deleted, TypeOK, registry
    <2>4. CASE class[o] \notin {"object", "function"} \/ (class[o] = "object" /\ priv[o] = None)
      BY <1>17, <2>1, <2>4 DEF Finalize, TypeOK, registry
    <2>5. class[o] = "function" => priv[o] # None
      BY <2>1 DEF PairsSound, ObjectSound
    <2>6. QED
      BY <2>2, <2>3, <2>4, <2>5
  <1>20. QED
    BY <1>1, <1>2, <1>3, <1>4, <1>5, <1>6, <1>7, <1>8, <1>9, <1>10, <1>11, <1>12, <1>13,
       <1>14, <1>15, <1>16, <1>17 DEF Next

-----------------------------------------------------------------------------
(* What a collection reaches. *)

LEMMA TracedType ==
  ASSUME TypeOK, NEW o \in Objs
  PROVE  Traced(o) \subseteq Objs
  BY PrivTypes DEF Traced, TypeOK

\* Reached is the least set of objects that has from and is closed.
LEMMA ReachedFacts ==
  ASSUME TypeOK, NEW from \in SUBSET Objs
  PROVE  /\ Reached(from) \subseteq Objs /\ from \subseteq Reached(from)
         /\ \A p \in Reached(from) : Traced(p) \subseteq Reached(from)
         /\ \A s \in SUBSET Objs :
              from \subseteq s /\ (\A p \in s : Traced(p) \subseteq s) => Reached(from) \subseteq s
  <1>1. Reached(from) \subseteq Objs /\ from \subseteq Reached(from)
    BY DEF Reached
  <1>2. \A s \in SUBSET Objs :
          from \subseteq s /\ (\A p \in s : Traced(p) \subseteq s) => Reached(from) \subseteq s
    BY DEF Reached
  <1>3. ASSUME NEW p \in Reached(from), NEW q \in Traced(p)
        PROVE  q \in Reached(from)
    <2>1. p \in Objs /\ q \in Objs
      BY <1>1, TracedType
    <2>2. ASSUME NEW s \in SUBSET Objs, from \subseteq s, \A r \in s : Traced(r) \subseteq s
          PROVE  q \in s
      BY <1>2, <2>2
    <2>3. QED
      BY <2>1, <2>2 DEF Reached
  <1>4. QED
    BY <1>1, <1>2, <1>3

\* Whatever is marked is usable or under construction.
InMaking == {frames[i].obj : i \in {j \in DOMAIN frames : frames[j].at \in Making}}

LEMMA RootsKnown ==
  ASSUME NativeInv
  PROVE  /\ Roots \in SUBSET Objs
         /\ \A o \in Roots : Usable(o) \/ o \in InMaking
  <1>1. \A i \in DOMAIN frames : frames[i] \in Frame
    BY DEF NativeInv, TypeOK
  <1>2. \A i \in DOMAIN frames : frames[i].arg = None \/ Usable(frames[i].arg)
    BY DEF NativeInv, FramesSound, FrameSound
  <1>3. \A i \in DOMAIN frames :
          frames[i].obj = None \/ Usable(frames[i].obj) \/ frames[i].obj \in InMaking
    BY <1>1 DEF NativeInv, FramesSound, FrameSound, InMaking, Making, Frame
  <1>4. \A o \in Scoped : o = None \/ Usable(o) \/ o \in InMaking
    BY <1>2, <1>3 DEF Scoped
  <1>5. \A o \in InMaking : o \in Objs
    BY DEF NativeInv, FramesSound, FrameSound, InMaking
  <1>6. \A o \in Roots : Usable(o) \/ o \in InMaking
    BY <1>4 DEF Roots, NativeInv, PublicUsable, Public
  <1>7. QED
    BY <1>5, <1>6 DEF Usable

LEMMA MarkedKnown ==
  ASSUME NativeInv
  PROVE  \A o \in Marked : o \in Objs /\ (Usable(o) \/ o \in InMaking)
  <1> DEFINE s == {o \in Objs : Usable(o) \/ o \in InMaking}
  <1>1. Roots \in SUBSET Objs /\ Roots \subseteq s
    BY RootsKnown
  <1>2. ASSUME NEW p \in s, NEW q \in Traced(p)
        PROVE  q \in s
    <2>1. CASE Usable(p)
      <3>1. q = MemberOf(p) /\ q # None
        BY <1>2 DEF Traced, GetNative, MemberOf
      <3>2. Usable(q)
        BY <2>1, <3>1, <1>2 DEF NativeInv, PublicUsable
      <3>3. QED
        BY <3>2 DEF Usable
    <2>2. CASE p \in InMaking
      <3>1. PICK i \in DOMAIN frames : frames[i].at \in Making /\ frames[i].obj = p
        BY <2>2 DEF InMaking
      <3>2. GetNative(p) = None \/ life[GetNative(p)] # "live"
        BY <3>1 DEF NativeInv, FramesSound, FrameSound, Making, GetNative
      <3>3. QED
        BY <1>2, <3>2 DEF Traced
    <2>3. QED
      BY <2>1, <2>2
  <1>3. s \in SUBSET Objs
    OBVIOUS
  <1> HIDE DEF s
  <1>4. \A p \in s : Traced(p) \subseteq s
    BY <1>2
  <1>5. Marked \subseteq s
    BY <1>1, <1>3, <1>4, ReachedFacts DEF Marked, NativeInv
  <1>6. QED
    BY <1>5 DEF s

\* A trace finds no C++ object only where a constructor's arguments are
\* still awaited.
LEMMA UnloadedEarly ==
  ASSUME NativeInv, Unloaded # {}
  PROVE  \E i \in DOMAIN frames : frames[i].at = "args"
  <1>1. PICK o \in Marked : class[o] = "object" /\ priv[o] = None
    BY DEF Unloaded
  <1>2. ~Usable(o)
    BY <1>1 DEF Usable
  <1>3. o \in InMaking
    BY <1>1, <1>2, MarkedKnown
  <1>4. PICK i \in DOMAIN frames : frames[i].at \in Making /\ frames[i].obj = o
    BY <1>3 DEF InMaking
  <1>5. /\ frames[i].at = "body" => priv[o] # None
        /\ frames[i].at = "parent" => class[o] = "function"
    BY <1>4, NoneAssumption DEF NativeInv, FramesSound, FrameSound
  <1>6. QED
    BY <1>1, <1>4, <1>5 DEF Making

-----------------------------------------------------------------------------
(* Steps that leave the objects alone. *)

\* Nothing is under construction but in the innermost frame.
LEMMA OnlyOnTop ==
  ASSUME FramesApart, At # "parent"
  PROVE  /\ \A i \in DOMAIN frames : frames[i].at # "parent"
         /\ \A o : ~BeingMade(o)
  <1>1. \A i \in DOMAIN frames : frames[i].at # "parent"
    BY DEF FramesApart, At
  <1>2. QED
    BY <1>1 DEF BeingMade

LEMMA QuietStep ==
  ASSUME NativeInv, TypeOK', UNCHANGED <<bodies, sweeping>>,
         \A i \in DOMAIN frames' : FrameSound(frames'[i]),
         FramesApart',
         \A o \in Public' : Usable(o),
         \A o \in Objs : BeingMade(o) => BeingMade(o)',
         escaped' => \E i \in DOMAIN frames' : frames'[i].at = "args"
  PROVE  NativeInv'
  <1>1. /\ UNCHANGED <<class, priv, life, handle, member, twice, spoilt, sweeping>>
    BY DEF bodies
  <1>2. \A o : Usable(o)' <=> Usable(o)
    BY <1>1 DEF Usable
  <1>3. FramesSound'
    BY <1>1 DEF FramesSound, FrameSound, Usable, Making
  <1>4. PublicUsable'
    <2>1. \A o \in Public' : Usable(o)'
      BY <1>2
    <2>2. \A o \in Objs : MemberOf(o)' = MemberOf(o)
      BY <1>1 DEF MemberOf
    <2>3. QED
      BY <1>2, <2>1, <2>2 DEF NativeInv, PublicUsable
  <1>5. PairsSound'
    <2>1. \A n \in Natives : NativeSound(n)'
      BY <1>1 DEF NativeInv, PairsSound, NativeSound
    <2>2. \A o \in Objs : ObjectSound(o)'
      BY <1>1 DEF NativeInv, PairsSound, ObjectSound
    <2>3. QED
      BY <2>1, <2>2 DEF PairsSound
  <1>6. EscapesOnlyEarly'
    BY DEF EscapesOnlyEarly
  <1>7. QED
    BY <1>3, <1>4, <1>5, <1>6 DEF NativeInv

LEMMA PopStep ==
  ASSUME NativeInv, frames # <<>>, Pop
  PROVE  /\ \A i \in DOMAIN frames' : FrameSound(frames'[i])
         /\ FramesApart'
         /\ \A i \in DOMAIN frames' : frames'[i].at # "parent"
         /\ \A i \in DOMAIN frames' :
              frames'[i].at \in Making /\ frames[1].at \in Making => frames'[i].obj # frames[1].obj
  <1>1. /\ 1 \in DOMAIN frames
        /\ \A i \in DOMAIN frames' :
             i \in Nat \ {0} /\ i + 1 \in DOMAIN frames /\ frames'[i] = frames[i + 1]
    BY Popped DEF NativeInv
  <1>2. \A i \in DOMAIN frames' : FrameSound(frames'[i])
    BY <1>1 DEF NativeInv, FramesSound
  <1>3. \A i \in DOMAIN frames' : frames'[i].at # "parent"
    <2> SUFFICES ASSUME NEW i \in DOMAIN frames', frames'[i].at = "parent"
                 PROVE  FALSE
      OBVIOUS
    <2>1. i + 1 \in DOMAIN frames /\ frames[i + 1].at = "parent" /\ i + 1 # 1
      BY <1>1
    <2>2. QED
      BY <2>1 DEF NativeInv, FramesApart
  <1>4. ASSUME NEW i \in DOMAIN frames', NEW j \in DOMAIN frames',
               frames'[i].at \in Making, frames'[j].at \in Making,
               frames'[i].obj = frames'[j].obj
        PROVE  i = j
    <2>1. /\ i + 1 \in DOMAIN frames /\ j + 1 \in DOMAIN frames
          /\ frames'[i] = frames[i + 1] /\ frames'[j] = frames[j + 1]
      BY <1>1
    <2>2. i + 1 = j + 1
      BY <1>4, <2>1 DEF NativeInv, FramesApart
    <2>3. QED
      BY <1>1, <2>2
  <1>5. ASSUME NEW i \in DOMAIN frames', frames'[i].at \in Making, frames[1].at \in Making
        PROVE  frames'[i].obj # frames[1].obj
    <2>1. i + 1 \in DOMAIN frames /\ frames'[i] = frames[i + 1] /\ i + 1 # 1
      BY <1>1
    <2>2. QED
      BY <1>1, <1>5, <2>1 DEF NativeInv, FramesApart
  <1>6. QED
    BY <1>2, <1>3, <1>4, <1>5 DEF FramesApart

LEMMA PushStep ==
  ASSUME NativeInv, MayCall, NEW f \in Frame, Push(f),
         f.at \in Making => \A i \in DOMAIN frames : frames[i].at \in Making => frames[i].obj # f.obj
  PROVE  /\ 1 \in DOMAIN frames' /\ frames'[1] = f
         /\ \A i \in DOMAIN frames' : i # 1 =>
              FrameSound(frames'[i]) /\ frames'[i].at # "parent"
                /\ \E j \in DOMAIN frames : frames'[i] = frames[j]
         /\ FramesApart'
         /\ \A o : ~BeingMade(o)
  <1>1. /\ 1 \in DOMAIN frames' /\ frames'[1] = f
        /\ \A i \in DOMAIN frames' :
             i \in Int /\ (i # 1 => i - 1 \in DOMAIN frames /\ frames'[i] = frames[i - 1])
    BY Pushed DEF NativeInv
  <1>2. /\ \A i \in DOMAIN frames : frames[i].at # "parent"
        /\ \A o : ~BeingMade(o)
    BY OnlyOnTop DEF NativeInv, MayCall
  <1>3. \A i \in DOMAIN frames' : i # 1 =>
          FrameSound(frames'[i]) /\ frames'[i].at # "parent"
            /\ \E j \in DOMAIN frames : frames'[i] = frames[j]
    BY <1>1, <1>2 DEF NativeInv, FramesSound
  <1>4. ASSUME NEW i \in DOMAIN frames', NEW j \in DOMAIN frames',
               frames'[i].at \in Making, frames'[j].at \in Making,
               frames'[i].obj = frames'[j].obj
        PROVE  i = j
    <2>1. CASE i = 1 \/ j = 1
      BY <1>1, <1>4, <2>1
    <2>2. CASE i # 1 /\ j # 1
      <3>1. /\ i - 1 \in DOMAIN frames /\ j - 1 \in DOMAIN frames
            /\ frames'[i] = frames[i - 1] /\ frames'[j] = frames[j - 1]
        BY <1>1, <2>2
      <3>2. i - 1 = j - 1
        BY <1>4, <3>1 DEF NativeInv, FramesApart
      <3>3. QED
        BY <1>1, <3>2
    <2>3. QED
      BY <2>1, <2>2
  <1>5. QED
    BY <1>1, <1>2, <1>3, <1>4 DEF FramesApart

LEMMA HookStep ==
  ASSUME NativeInv, TypeOK', NEW o \in held, NEW n \in Natives,
         HookOn(o, n), priv[o] = n, class[o] \in {"object", "function"}
  PROVE  NativeInv'
  <1>1. o \in Objs /\ Usable(o)
    BY DEF NativeInv, TypeOK, PublicUsable, Public
  <1>2. HookFrame(o, n) \in Frame /\ HookFrame(o, n).at = "hook"
    BY <1>1 DEF HookFrame, Frame
  <1>3. MayCall /\ Push(HookFrame(o, n)) /\ UNCHANGED <<bodies, held, registry, rest>>
    BY DEF HookOn
  <1>4. "hook" \notin Making
    BY DEF Making
  <1>5. /\ 1 \in DOMAIN frames' /\ frames'[1] = HookFrame(o, n)
        /\ \A i \in DOMAIN frames' : i # 1 => FrameSound(frames'[i])
        /\ FramesApart'
        /\ \A p : ~BeingMade(p)
    BY <1>2, <1>3, <1>4, PushStep
  <1>6. FrameSound(HookFrame(o, n))
    BY <1>1 DEF FrameSound, HookFrame, Making
  <1>7. \A i \in DOMAIN frames' : FrameSound(frames'[i])
    BY <1>5, <1>6
  <1>8. Public' = Public /\ ~escaped' /\ UNCHANGED <<bodies, sweeping>>
    BY <1>3 DEF Public, registry, rest, MayCall, Running
  <1>9. \A p \in Public' : Usable(p)
    BY <1>8 DEF NativeInv, PublicUsable
  <1>10. QED
    BY <1>5, <1>7, <1>8, <1>9, QuietStep

LEMMA QuietSteps ==
  ASSUME NativeInv, TypeOK',
         \/ ArgsThrow \/ LoadThrows \/ HookReturns \/ ClassLoaded
         \/ LoadKnown \/ Unexport \/ TraceThrows
         \/ \E o \in held : Drop(o) \/ AddRoot(o)
         \/ \E o \in rooted : RemoveRoot(o)
         \/ UNCHANGED vars
  PROVE  NativeInv'
  <1>1. CASE ArgsThrow \/ LoadThrows \/ HookReturns \/ ClassLoaded
    <2>1. /\ frames # <<>> /\ Pop /\ At # "parent" /\ ~escaped'
          /\ UNCHANGED <<bodies, sweeping>> /\ Public' = Public
      BY <1>1 DEF ArgsThrow, LoadThrows, HookReturns, ClassLoaded, Top, At, Running,
                  Public, registry, rest
    <2>2. \A o : ~BeingMade(o)
      BY <2>1, OnlyOnTop DEF NativeInv
    <2>3. \A o \in Public' : Usable(o)
      BY <2>1 DEF NativeInv, PublicUsable
    <2>4. QED
      BY <2>1, <2>2, <2>3, PopStep, QuietStep
  <1>2. CASE \/ LoadKnown \/ Unexport \/ UNCHANGED vars
             \/ \E o \in held : Drop(o) \/ AddRoot(o)
             \/ \E o \in rooted : RemoveRoot(o)
    <2>1. UNCHANGED <<bodies, sweeping, frames>> /\ Public' \subseteq Public /\ escaped' = escaped
      BY <1>2 DEF LoadKnown, Unexport, vars, Drop, AddRoot, RemoveRoot,
                  Public, bodies, registry, rest
    <2>2. \A o \in Public' : Usable(o)
      BY <2>1 DEF NativeInv, PublicUsable
    <2>3. \A i \in DOMAIN frames' : FrameSound(frames'[i])
      BY <2>1 DEF NativeInv, FramesSound
    <2>4. FramesApart' /\ \A o \in Objs : BeingMade(o) => BeingMade(o)'
      BY <2>1 DEF NativeInv, FramesApart, BeingMade
    <2>5. escaped' => \E i \in DOMAIN frames' : frames'[i].at = "args"
      BY <2>1 DEF NativeInv, EscapesOnlyEarly
    <2>6. QED
      BY <2>1, <2>2, <2>3, <2>4, <2>5, QuietStep
  <1>3. CASE TraceThrows
    <2>1. /\ UNCHANGED <<bodies, sweeping, frames>> /\ Public' = Public
          /\ Unloaded # {}
      BY <1>3 DEF TraceThrows, Public, registry
    <2>2. \A o \in Public' : Usable(o)
      BY <2>1 DEF NativeInv, PublicUsable
    <2>3. \A i \in DOMAIN frames' : FrameSound(frames'[i])
      BY <2>1 DEF NativeInv, FramesSound
    <2>4. FramesApart' /\ \A o \in Objs : BeingMade(o) => BeingMade(o)'
      BY <2>1 DEF NativeInv, FramesApart, BeingMade
    <2>5. escaped' => \E i \in DOMAIN frames' : frames'[i].at = "args"
      BY <2>1, UnloadedEarly
    <2>6. QED
      BY <2>1, <2>2, <2>3, <2>4, <2>5, QuietStep
  <1>20. QED
    BY <1>1, <1>2, <1>3

-----------------------------------------------------------------------------
(* Making a native object. *)

\* A frame other than those that a step is about.
LEMMA FrameKept ==
  ASSUME \A o : Usable(o) => Usable(o)'
  PROVE  \A f \in Frame :
           /\ FrameSound(f)
           /\ f.at \in Making =>
                /\ f.obj \notin sweeping'
                /\ class'[f.obj] = class[f.obj] /\ priv'[f.obj] = priv[f.obj]
                /\ f.native \in Natives =>
                     /\ life'[f.native] = life[f.native] /\ handle'[f.native] = handle[f.native]
                     /\ member'[f.native] = member[f.native]
           /\ f.at = "hook" => priv'[f.obj] = priv[f.obj]
           => FrameSound(f)'
  <1> SUFFICES ASSUME NEW f \in Frame, FrameSound(f),
                      f.at \in Making =>
                        /\ f.obj \notin sweeping'
                        /\ class'[f.obj] = class[f.obj] /\ priv'[f.obj] = priv[f.obj]
                        /\ f.native \in Natives =>
                             /\ life'[f.native] = life[f.native]
                             /\ handle'[f.native] = handle[f.native]
                             /\ member'[f.native] = member[f.native],
                      f.at = "hook" => priv'[f.obj] = priv[f.obj]
               PROVE  FrameSound(f)'
    OBVIOUS
  <1>1. f.arg # None => Usable(f.arg)'
    BY DEF FrameSound
  <1>2. f.at = "hook" => f.native \in Natives /\ Usable(f.obj)' /\ priv'[f.obj] = f.native
    BY DEF FrameSound
  <1>3. QED
    BY <1>1, <1>2 DEF FrameSound, Making

LEMMA CreateStep ==
  ASSUME NativeInv, TypeOK', NEW o \in Objs, NEW a \in held \cup {None}, CreateNativeObject(o, a)
  PROVE  NativeInv'
  <1>1. /\ MayCall /\ Push(NewFrame(o, a)) /\ class[o] = "free"
        /\ class' = [class EXCEPT ![o] = "object"]
        /\ UNCHANGED <<priv, life, handle, member, twice, spoilt, held, rooted, ctor, proto,
                       sweeping, escaped>>
    BY DEF CreateNativeObject, do_create_object, registry, rest
  <1>2. class \in [Objs -> {"free", "object", "function", "plain"}] /\ priv[o] = None
    BY <1>1 DEF NativeInv, TypeOK, PairsSound, ObjectSound
  <1>3. \A p : Usable(p)' <=> Usable(p)
    BY <1>1, <1>2 DEF Usable
  <1>4. /\ \A i \in DOMAIN frames : frames[i].at \in Making => frames[i].obj # o
        /\ ~Usable(o)
    BY <1>1 DEF NativeInv, FramesSound, FrameSound, Making, Usable
  <1>5. NewFrame(o, a) \in Frame
    BY DEF NewFrame, Frame, NativeInv, TypeOK
  <1>6. /\ 1 \in DOMAIN frames' /\ frames'[1] = NewFrame(o, a)
        /\ \A i \in DOMAIN frames' : i # 1 =>
             FrameSound(frames'[i]) /\ frames'[i].at # "parent"
               /\ \E j \in DOMAIN frames : frames'[i] = frames[j]
        /\ FramesApart'
        /\ \A p : ~BeingMade(p)
    BY <1>1, <1>4, <1>5, PushStep DEF NewFrame
  <1>7. FramesSound'
    <2>1. a = None \/ Usable(a)'
      BY <1>3 DEF NativeInv, PublicUsable, Public
    <2>2. sweeping = {}
      BY <1>1 DEF MayCall, Running
    <2>3. FrameSound(NewFrame(o, a))'
      BY <1>1, <1>2, <2>1, <2>2 DEF FrameSound, NewFrame, Making
    <2>4. \A i \in DOMAIN frames' : frames'[i] \in Frame
      BY DEF TypeOK
    <2>5. ASSUME NEW f \in Frame, FrameSound(f), \E j \in DOMAIN frames : f = frames[j]
          PROVE  FrameSound(f)'
      <3>1. f.at \in Making => f.obj # o /\ f.obj \in Objs
        BY <1>4, <2>5 DEF FrameSound
      <3>2. QED
        BY <1>1, <1>2, <1>3, <2>2, <2>5, <3>1, FrameKept
    <2>6. ASSUME NEW i \in DOMAIN frames', i # 1
          PROVE  FrameSound(frames[i])'
      BY <1>6, <2>4, <2>5, <2>6 DEF FrameSound, Usable, Making
    <2>7. QED
      BY <1>6, <2>3, <2>6 DEF FramesSound, FrameSound, Usable, Making
  <1>8. PublicUsable'
    BY <1>1, <1>3 DEF NativeInv, PublicUsable, Public, MemberOf
  <1>9. PairsSound'
    <2>1. \A n \in Natives : NativeSound(n)'
      BY <1>1 DEF NativeInv, PairsSound, NativeSound
    <2>2. \A p \in Objs : ObjectSound(p)'
      BY <1>1, <1>2, <1>6 DEF NativeInv, PairsSound, ObjectSound
    <2>3. QED
      BY <2>1, <2>2 DEF PairsSound
  <1>10. EscapesOnlyEarly'
    BY <1>1 DEF EscapesOnlyEarly, MayCall, Running
  <1>11. QED
    BY <1>6, <1>7, <1>8, <1>9, <1>10 DEF NativeInv

\* What is known of the innermost frame while an object is made.
LEMMA TopSound ==
  ASSUME NativeInv, NEW at, at # "script", Top(at)
  PROVE  /\ frames \in Seq(Frame) /\ frames # <<>> /\ 1 \in DOMAIN frames
         /\ frames[1] \in Frame /\ frames[1].at = at /\ FrameSound(frames[1])
         /\ sweeping = {} /\ ~escaped /\ open
         /\ \A i \in DOMAIN frames : i # 1 =>
              frames[i].at # "parent" /\
              (frames[i].at \in Making /\ at \in Making => frames[i].obj # frames[1].obj)
  <1>1. /\ frames \in Seq(Frame) /\ frames # <<>> /\ 1 \in DOMAIN frames
        /\ frames[1] \in Frame /\ frames[1].at = at
    BY TopFacts DEF NativeInv
  <1>2. sweeping = {} /\ ~escaped /\ open
    BY DEF Top, Running
  <1>3. QED
    BY <1>1, <1>2 DEF NativeInv, FramesSound, FramesApart

LEMMA LoadIntoStep ==
  ASSUME NativeInv, TypeOK', NEW n \in Natives, LoadInto(n)
  PROVE  NativeInv'
  <1> DEFINE o == frames[1].obj
  <1>1. /\ Top("args") /\ life[n] = "unborn"
        /\ life' = [life EXCEPT ![n] = "building"]
        /\ handle' = [handle EXCEPT ![n] = o]
        /\ priv' = [priv EXCEPT ![o] = n]
        /\ frames' = [frames EXCEPT ![1].at = "body", ![1].native = n]
        /\ UNCHANGED <<class, member, twice, spoilt, held, rooted, ctor, proto,
                       sweeping, open, escaped>>
    BY DEF LoadInto, registry, rest
  <1>2. /\ frames # <<>> /\ 1 \in DOMAIN frames /\ frames[1] \in Frame
        /\ o \in Objs /\ class[o] = "object" /\ priv[o] = None
        /\ sweeping = {} /\ ~escaped
        /\ frames[1].arg # None => Usable(frames[1].arg)
        /\ \A i \in DOMAIN frames : i # 1 => frames[i].at # "parent" /\
             (frames[i].at \in Making => frames[i].obj # o)
    BY <1>1, TopSound DEF FrameSound, Making
  <1> HIDE DEF o
  <1>3. /\ priv \in [Objs -> Natives \cup {None}] /\ handle \in [Natives -> Objs \cup {None}]
        /\ life \in [Natives -> {"unborn", "building", "live", "deleted"}]
    BY DEF NativeInv, TypeOK
  <1>4. /\ DOMAIN frames' = DOMAIN frames
        /\ frames'[1].obj = o /\ frames'[1].arg = frames[1].arg
        /\ frames'[1].at = "body" /\ frames'[1].native = n
        /\ \A i \in DOMAIN frames : i # 1 => frames'[i] = frames[i]
    BY <1>1, <1>2, Moved DEF NativeInv, o
  <1>5. \A p \in Objs : priv[p] # n
    BY <1>1, <1>3, NoneAssumption DEF NativeInv, PairsSound, ObjectSound, NativeSound
  <1>6. \A p : Usable(p)' <=> Usable(p)
    BY <1>1, <1>2, <1>3, <1>5 DEF Usable
  <1>7. handle[n] = None /\ n \notin spoilt /\ member[n] = None
    BY <1>1 DEF NativeInv, PairsSound, NativeSound
  <1>8. FramesSound'
    <2>1. FrameSound(frames[1])'
      BY <1>1, <1>2, <1>3, <1>4, <1>6 DEF FrameSound, Usable, Making
    <2>2. ASSUME NEW i \in DOMAIN frames, i # 1
          PROVE  FrameSound(frames[i])'
      <3> DEFINE f == frames[i]
      <3>1. f \in Frame /\ FrameSound(f)
        BY DEF NativeInv, TypeOK, FramesSound
      <3>2. f.at \in Making => f.obj # o /\ f.obj \in Objs
        BY <1>2, <2>2, <3>1 DEF FrameSound
      <3>3. f.at = "hook" => f.obj # o
        BY <3>1, <1>2 DEF FrameSound, Usable
      <3>4. f.native \in Natives /\ f.at \in Making \ {"args"} => f.native # n
        BY <1>1, <3>1 DEF FrameSound, Making
      <3>5. f = frames'[i]
        BY <1>4, <2>2
      <3>6. FrameSound(f) /\ f \in Frame
        BY <3>1
      <3> HIDE DEF f
      <3>7. f.obj \in Objs /\ f.at \in Making \cup {"hook"} => priv'[f.obj] = priv[f.obj]
        BY <1>1, <1>3, <3>2, <3>3
      <3>8. f.native \in Natives /\ f.at \in Making \ {"args"} =>
              life'[f.native] = life[f.native] /\ handle'[f.native] = handle[f.native]
        BY <1>1, <1>3, <3>4
      <3>9. QED
        BY <1>1, <1>6, <3>2, <3>5, <3>6, <3>7, <3>8 DEF FrameSound, Usable, Making
    <2>3. QED
      BY <1>4, <2>1, <2>2 DEF FramesSound
  <1>9. FramesApart'
    BY <1>2, <1>4 DEF NativeInv, FramesApart, Making
  <1>10. PublicUsable'
    <2>1. \A p \in Objs : Usable(p) => p # o /\ MemberOf(p)' = MemberOf(p)
      BY <1>1, <1>2, <1>3 DEF Usable, MemberOf
    <2>2. QED
      BY <1>1, <1>6, <2>1 DEF NativeInv, PublicUsable, Public
  <1>11. PairsSound'
    <2>1. ASSUME NEW m \in Natives
          PROVE  NativeSound(m)'
      <3>1. CASE m = n
        BY <1>1, <1>2, <1>3, <1>7, <3>1 DEF NativeInv, PairsSound, NativeSound
      <3>2. CASE m # n
        <4>1. handle[m] # None => handle[m] # o
          BY <1>2, NoneAssumption DEF NativeInv, PairsSound, NativeSound
        <4>2. QED
          BY <1>1, <1>3, <3>2, <4>1 DEF NativeInv, PairsSound, NativeSound
      <3>3. QED
        BY <3>1, <3>2
    <2>2. ASSUME NEW p \in Objs
          PROVE  ObjectSound(p)'
      <3>1. ~BeingMade(p)
        BY <1>1, OnlyOnTop DEF NativeInv, Top
      <3>2. CASE p = o
        BY <1>1, <1>2, <1>3, <1>7, <3>2 DEF ObjectSound
      <3>3. CASE p # o
        BY <1>1, <1>3, <1>5, <3>1, <3>3 DEF NativeInv, PairsSound, ObjectSound
      <3>4. QED
        BY <3>2, <3>3
    <2>3. QED
      BY <2>1, <2>2 DEF PairsSound
  <1>12. EscapesOnlyEarly'
    BY <1>1, <1>2 DEF EscapesOnlyEarly
  <1>13. QED
    BY <1>8, <1>9, <1>10, <1>11, <1>12 DEF NativeInv

\* The frames under one that ends keep what they rely on, if the step only
\* touches the object and the C++ object of that one.
LEMMA UnderKept ==
  ASSUME NativeInv, TypeOK', NEW at \in {"body", "parent"}, Top(at), Pop,
         \A p : Usable(p) => Usable(p)',
         UNCHANGED <<class, sweeping>>,
         \A p \in Objs : p # frames[1].obj => priv'[p] = priv[p],
         \A m \in Natives : m # frames[1].native =>
           life'[m] = life[m] /\ handle'[m] = handle[m] /\ member'[m] = member[m]
  PROVE  FramesSound'
  <1>1. /\ frames # <<>> /\ 1 \in DOMAIN frames /\ frames[1] \in Frame
        /\ frames[1].at = at /\ FrameSound(frames[1]) /\ sweeping = {}
    BY TopSound
  <1>2. frames[1].obj \in Objs /\ frames[1].native \in Natives /\ ~Usable(frames[1].obj)
    BY <1>1, NoneAssumption DEF FrameSound, Usable, Making
  <1>3. /\ \A i \in DOMAIN frames' : FrameSound(frames'[i])
        /\ \A i \in DOMAIN frames' : frames'[i].at # "parent"
        /\ \A i \in DOMAIN frames' :
             frames'[i].at \in Making /\ frames[1].at \in Making => frames'[i].obj # frames[1].obj
    BY <1>1, PopStep
  <1>4. ASSUME NEW i \in DOMAIN frames'
        PROVE  FrameSound(frames[i])'
    <2> DEFINE f == frames'[i]
    <2>1. f \in Frame /\ FrameSound(f) /\ f.at # "parent"
      BY <1>3 DEF TypeOK
    <2>2. f.at \in Making => f.obj # frames[1].obj /\ f.obj \in Objs
      BY <1>1, <1>3, <2>1 DEF FrameSound, Making
    <2>3. f.at = "hook" => f.obj # frames[1].obj /\ f.obj \in Objs
      BY <2>1, <1>2 DEF FrameSound, Usable
    <2>4. f.at = "body" => f.native \in Natives /\ f.native # frames[1].native
      BY <2>1, <2>2, <1>1, <1>2, NoneAssumption DEF FrameSound, Making
    <2> HIDE DEF f
    <2>5. f.at \in Making \cup {"hook"} => priv'[f.obj] = priv[f.obj]
      BY <2>2, <2>3
    <2>6. f.at = "body" => life'[f.native] = life[f.native] /\ handle'[f.native] = handle[f.native]
      BY <2>4
    <2>7. QED
      BY <2>1, <2>2, <2>5, <2>6, <1>1 DEF FrameSound, Usable, Making, f
  <1>5. QED
    BY <1>4 DEF FramesSound

LEMMA BodyThrowsStep ==
  ASSUME NativeInv, TypeOK', BodyThrows
  PROVE  NativeInv'
  <1>0. PICK o, n : frames[1].obj = o /\ frames[1].native = n
    OBVIOUS
  <1>1. /\ Top("body") /\ Pop
        /\ life' = [life EXCEPT ![n] = "deleted"]
        /\ twice' = IF life[n] = "deleted" THEN twice \cup {n} ELSE twice
        /\ handle' = [handle EXCEPT ![n] = None]
        /\ priv' = IF handle[n] = None THEN priv ELSE [priv EXCEPT ![handle[n]] = None]
        /\ UNCHANGED <<class, member, spoilt, held, rooted, ctor, proto, sweeping, open, escaped>>
    BY <1>0 DEF BodyThrows, Destroyed, Deleted, registry, rest
  <1>2. /\ frames # <<>> /\ n \in Natives /\ o \in Objs
        /\ class[o] = "object" /\ priv[o] = n /\ life[n] = "building" /\ handle[n] = o
        /\ sweeping = {} /\ ~escaped /\ At = "body"
    BY <1>0, <1>1, TopSound DEF FrameSound, Making, Top
  <1>3. /\ priv \in [Objs -> Natives \cup {None}] /\ handle \in [Natives -> Objs \cup {None}]
        /\ life \in [Natives -> {"unborn", "building", "live", "deleted"}]
    BY DEF NativeInv, TypeOK
  <1>4. priv' = [priv EXCEPT ![o] = None] /\ twice' = twice
    BY <1>1, <1>2, NoneAssumption
  <1>5. \A p \in Objs : p # o => priv[p] # n
    <2>1. \A p : ~BeingMade(p)
      BY <1>2, OnlyOnTop DEF NativeInv
    <2>2. QED
      BY <1>2, <2>1, NoneAssumption DEF NativeInv, PairsSound, ObjectSound, NativeSound
  <1>6. \A p : Usable(p)' <=> Usable(p)
    <2>1. ASSUME NEW p, p # o
          PROVE  Usable(p)' <=> Usable(p)
      BY <1>1, <1>3, <1>4, <1>5, <2>1 DEF Usable
    <2>2. ~Usable(o) /\ ~Usable(o)'
      BY <1>1, <1>2, <1>3, <1>4, NoneAssumption DEF Usable
    <2>3. QED
      BY <2>1, <2>2
  <1>7. FramesSound'
    <2>1. /\ \A p \in Objs : p # o => priv'[p] = priv[p]
          /\ \A m \in Natives : m # n =>
               life'[m] = life[m] /\ handle'[m] = handle[m] /\ member'[m] = member[m]
      BY <1>1, <1>3, <1>4
    <2>2. UNCHANGED <<class, sweeping>> /\ Top("body") /\ Pop
      BY <1>1
    <2>3. QED
      BY <1>0, <1>6, <2>1, <2>2, UnderKept
  <1>8. FramesApart' /\ \A p : ~BeingMade(p)
    BY <1>1, <1>2, PopStep, OnlyOnTop DEF NativeInv
  <1>9. PublicUsable'
    <2>1. \A p \in Objs : Usable(p) => MemberOf(p)' = MemberOf(p)
      BY <1>1, <1>2, <1>3, <1>4 DEF Usable, MemberOf
    <2>2. QED
      BY <1>1, <1>6, <2>1 DEF NativeInv, PublicUsable, Public
  <1>10. PairsSound'
    <2>1. ASSUME NEW m \in Natives
          PROVE  NativeSound(m)'
      <3>1. m = n => m \notin spoilt /\ m \notin twice
        BY <1>2 DEF NativeInv, PairsSound, NativeSound
      <3>2. m # n => handle[m] # o
        BY <1>2, NoneAssumption DEF NativeInv, PairsSound, NativeSound
      <3>3. CASE m = n
        BY <1>1, <1>2, <1>3, <1>4, <3>1, <3>3 DEF NativeInv, PairsSound, NativeSound
      <3>4. CASE m # n
        BY <1>1, <1>3, <1>4, <3>2, <3>4 DEF NativeInv, PairsSound, NativeSound
      <3>5. QED
        BY <3>3, <3>4
    <2>2. ASSUME NEW p \in Objs
          PROVE  ObjectSound(p)'
      <3>1. CASE p = o
        BY <1>1, <1>2, <1>3, <1>4, <3>1 DEF ObjectSound
      <3>2. CASE p # o
        BY <1>1, <1>3, <1>4, <1>5, <1>8, <3>2 DEF NativeInv, PairsSound, ObjectSound
      <3>3. QED
        BY <3>1, <3>2
    <2>3. QED
      BY <2>1, <2>2 DEF PairsSound
  <1>11. EscapesOnlyEarly'
    BY <1>1, <1>2 DEF EscapesOnlyEarly
  <1>12. QED
    BY <1>7, <1>8, <1>9, <1>10, <1>11 DEF NativeInv

LEMMA CreatedStep ==
  ASSUME NativeInv, TypeOK', Created
  PROVE  NativeInv'
  <1>0. PICK o, n, a : frames[1].obj = o /\ frames[1].native = n /\ frames[1].arg = a
    OBVIOUS
  <1>1. /\ Top("body") /\ Pop
        /\ life' = [life EXCEPT ![n] = "live"]
        /\ member' = [member EXCEPT ![n] = a]
        /\ held' \in {held, held \cup {o}}
        /\ UNCHANGED <<class, priv, handle, twice, spoilt, rooted, ctor, proto,
                       sweeping, open, escaped>>
    BY <1>0 DEF Created, registry, rest
  <1>2. /\ frames # <<>> /\ n \in Natives /\ o \in Objs
        /\ class[o] = "object" /\ priv[o] = n /\ life[n] = "building" /\ handle[n] = o
        /\ sweeping = {} /\ ~escaped /\ At = "body" /\ (a # None => Usable(a))
    BY <1>0, <1>1, TopSound DEF FrameSound, Making, Top
  <1>3. /\ member \in [Natives -> Objs \cup {None}]
        /\ life \in [Natives -> {"unborn", "building", "live", "deleted"}]
    BY DEF NativeInv, TypeOK
  <1>4. \A p : ~BeingMade(p)
    BY <1>2, OnlyOnTop DEF NativeInv
  <1>5. \A p \in Objs : p # o => priv[p] # n
    BY <1>2, <1>4, NoneAssumption DEF NativeInv, PairsSound, ObjectSound, NativeSound
  <1>6. \A p : Usable(p)' <=> Usable(p) \/ p = o
    <2>1. ASSUME NEW p, p # o
          PROVE  Usable(p)' <=> Usable(p)
      BY <1>1, <1>3, <1>5, <2>1 DEF Usable
    <2>2. Usable(o)'
      BY <1>1, <1>2, <1>3, NoneAssumption DEF Usable
    <2>3. QED
      BY <2>1, <2>2
  <1>7. FramesSound'
    <2>1. /\ \A p \in Objs : p # o => priv'[p] = priv[p]
          /\ \A m \in Natives : m # n =>
               life'[m] = life[m] /\ handle'[m] = handle[m] /\ member'[m] = member[m]
      BY <1>1, <1>3
    <2>2. UNCHANGED <<class, sweeping>> /\ Top("body") /\ Pop
      BY <1>1
    <2>3. \A p : Usable(p) => Usable(p)'
      BY <1>6
    <2>4. QED
      BY <1>0, <2>1, <2>2, <2>3, UnderKept
  <1>8. FramesApart'
    BY <1>1, <1>2, PopStep
  <1>9. PublicUsable'
    <2>1. \A p \in Objs : p # o => MemberOf(p)' = MemberOf(p)
      BY <1>1, <1>3, <1>5 DEF MemberOf
    <2>2. MemberOf(o)' = a
      BY <1>1, <1>2, <1>3, NoneAssumption DEF MemberOf
    <2>3. Public' \subseteq Public \cup {o}
      BY <1>1 DEF Public
    <2>4. QED
      BY <1>2, <1>6, <2>1, <2>2, <2>3 DEF NativeInv, PublicUsable
  <1>10. PairsSound'
    <2>1. ASSUME NEW m \in Natives
          PROVE  NativeSound(m)'
      BY <1>1, <1>2, <1>3 DEF NativeInv, PairsSound, NativeSound
    <2>2. ASSUME NEW p \in Objs
          PROVE  ObjectSound(p)'
      BY <1>1, <1>2, <1>3, <1>4 DEF NativeInv, PairsSound, ObjectSound
    <2>3. QED
      BY <2>1, <2>2 DEF PairsSound
  <1>11. EscapesOnlyEarly'
    BY <1>1, <1>2 DEF EscapesOnlyEarly
  <1>12. QED
    BY <1>7, <1>8, <1>9, <1>10, <1>11 DEF NativeInv

-----------------------------------------------------------------------------
(* Making a native function. *)

\* MakeParent, by whatever frames the new one is followed.
LEMMA MakeParentStep ==
  ASSUME NativeInv, TypeOK', NEW o \in Objs, NEW n \in Natives,
         MakeParent(o, n), MayCall,
         UNCHANGED <<held, registry, rest>>,
         frames'[1] = ParentFrame(o, n), 1 \in DOMAIN frames',
         \A i \in DOMAIN frames' : i # 1 =>
           \/ frames'[i] = LoadFrame
           \/ \E j \in DOMAIN frames : frames'[i] = frames[j],
         \A i, j \in DOMAIN frames' :
           i # 1 /\ j # 1 /\ frames'[i].at \in Making /\ frames'[j].at \in Making
             /\ frames'[i].obj = frames'[j].obj => i = j
  PROVE  NativeInv'
  <1>1. /\ class[o] = "free" /\ life[n] = "unborn"
        /\ class' = [class EXCEPT ![o] = "function"]
        /\ priv' = [priv EXCEPT ![o] = n]
        /\ life' = [life EXCEPT ![n] = "live"]
        /\ UNCHANGED <<handle, member, twice, spoilt, held, rooted, ctor, proto,
                       sweeping, open, escaped>>
        /\ sweeping = {} /\ ~escaped /\ At # "parent"
    BY DEF MakeParent, registry, rest, MayCall, Running
  <1>2. /\ class \in [Objs -> {"free", "object", "function", "plain"}]
        /\ priv \in [Objs -> Natives \cup {None}]
        /\ life \in [Natives -> {"unborn", "building", "live", "deleted"}]
    BY DEF NativeInv, TypeOK
  <1>3. priv[o] = None /\ handle[n] = None /\ member[n] = None /\ n \notin spoilt /\ n \notin twice
    BY <1>1, <1>2 DEF NativeInv, PairsSound, ObjectSound, NativeSound
  <1>4. \A p : ~BeingMade(p)
    BY <1>1, OnlyOnTop DEF NativeInv
  <1>5. \A p \in Objs : priv[p] # n
    BY <1>1, <1>2, <1>3, NoneAssumption DEF NativeInv, PairsSound, ObjectSound, NativeSound
  <1>6. \A p : Usable(p)' <=> Usable(p)
    <2>1. ASSUME NEW p, p # o
          PROVE  Usable(p)' <=> Usable(p)
      BY <1>1, <1>2, <1>5, <2>1 DEF Usable
    <2>2. ~Usable(o) /\ ~Usable(o)'
      BY <1>1, <1>2, <1>3, NoneAssumption DEF Usable
    <2>3. QED
      BY <2>1, <2>2
  <1>7. ~Usable(o) /\ ~Usable(o)'
    BY <1>1, <1>6 DEF Usable
  <1>8. ASSUME NEW j \in DOMAIN frames
        PROVE  /\ frames[j].at # "parent" /\ frames[j] \in Frame /\ FrameSound(frames[j])
               /\ frames[j].at \in Making \cup {"hook"} => frames[j].obj # o /\ frames[j].obj \in Objs
               /\ frames[j].at = "body" => frames[j].native # n /\ frames[j].native \in Natives
    <2>1. frames[j].at # "parent" /\ frames[j] \in Frame /\ FrameSound(frames[j])
      BY <1>1, OnlyOnTop DEF NativeInv, TypeOK, FramesSound
    <2>2. QED
      BY <1>1, <1>7, <2>1 DEF FrameSound, Making, Usable
  <1>9. FramesSound'
    <2>1. ASSUME NEW f \in Frame, f = ParentFrame(o, n)
          PROVE  FrameSound(f)'
      BY <1>1, <1>2, <1>3, <2>1 DEF FrameSound, ParentFrame, Making
    <2>2. ASSUME NEW f, f = LoadFrame
          PROVE  FrameSound(f)'
      BY <2>2 DEF FrameSound, LoadFrame, Making
    <2>3. ASSUME NEW f \in Frame, NEW j \in DOMAIN frames, f = frames[j]
          PROVE  FrameSound(f)'
      <3>1. /\ FrameSound(f) /\ f.at # "parent"
            /\ f.at \in Making \cup {"hook"} => priv'[f.obj] = priv[f.obj] /\ class'[f.obj] = class[f.obj]
            /\ f.at = "body" => f.native \in Natives /\ life'[f.native] = life[f.native]
        BY <1>1, <1>2, <1>8, <2>3
      <3>2. QED
        BY <1>1, <1>6, <3>1 DEF FrameSound, Making, Usable
    <2>4. \A i \in DOMAIN frames' : frames'[i] \in Frame
      BY DEF TypeOK
    <2>5. \A i \in DOMAIN frames' : FrameSound(frames[i])'
      BY <2>1, <2>2, <2>3, <2>4 DEF FrameSound, Usable, Making
    <2>6. QED
      BY <2>5 DEF FramesSound
  <1>10. FramesApart'
    <2>1. ASSUME NEW i \in DOMAIN frames', i # 1
          PROVE  /\ frames'[i].at # "parent"
                 /\ frames'[i].at \in Making => frames'[i].obj # o
      BY <1>8, <2>1 DEF LoadFrame, Making
    <2>2. frames'[1].obj = o
      BY DEF ParentFrame
    <2>3. QED
      BY <2>1, <2>2 DEF FramesApart
  <1>11. PublicUsable'
    <2>1. \A p \in Objs : Usable(p) => MemberOf(p)' = MemberOf(p)
      BY <1>1, <1>2, <1>7 DEF MemberOf
    <2>2. QED
      BY <1>1, <1>6, <2>1 DEF NativeInv, PublicUsable, Public
  <1>12. PairsSound'
    <2>1. ASSUME NEW m \in Natives
          PROVE  NativeSound(m)'
      <3>1. handle[m] # None => handle[m] # o
        BY <1>3, NoneAssumption DEF NativeInv, PairsSound, NativeSound
      <3>2. CASE m = n
        BY <1>1, <1>2, <1>3, <3>2 DEF NativeInv, PairsSound, NativeSound
      <3>3. CASE m # n
        BY <1>1, <1>2, <3>1, <3>3 DEF NativeInv, PairsSound, NativeSound
      <3>4. QED
        BY <3>2, <3>3
    <2>2. ASSUME NEW p \in Objs
          PROVE  ObjectSound(p)'
      <3>1. p = o => BeingMade(p)'
        BY DEF BeingMade, ParentFrame
      <3>2. CASE p = o
        BY <1>1, <1>2, <1>3, <3>1, <3>2, NoneAssumption DEF ObjectSound
      <3>3. CASE p # o
        BY <1>1, <1>2, <1>4, <1>5, <3>3 DEF NativeInv, PairsSound, ObjectSound
      <3>4. QED
        BY <3>2, <3>3
    <2>3. QED
      BY <2>1, <2>2 DEF PairsSound
  <1>13. EscapesOnlyEarly'
    BY <1>1 DEF EscapesOnlyEarly
  <1>14. QED
    BY <1>9, <1>10, <1>11, <1>12, <1>13 DEF NativeInv

LEMMA CreateFunctionStep ==
  ASSUME NativeInv, TypeOK', NEW o \in Objs, NEW n \in Natives, CreateFunction(o, n)
  PROVE  NativeInv'
  <1>1. MakeParent(o, n) /\ MayCall /\ Push(ParentFrame(o, n)) /\ UNCHANGED <<held, registry, rest>>
    BY DEF CreateFunction
  <1>2. ParentFrame(o, n) \in Frame
    BY <1>1, MakeParentTypes DEF NativeInv
  <1>3. /\ 1 \in DOMAIN frames' /\ frames'[1] = ParentFrame(o, n)
        /\ \A i \in DOMAIN frames' :
             i \in Int /\ (i # 1 => i - 1 \in DOMAIN frames /\ frames'[i] = frames[i - 1])
    BY <1>1, <1>2, Pushed DEF NativeInv
  <1>4. ASSUME NEW i \in DOMAIN frames', NEW j \in DOMAIN frames',
               i # 1, j # 1, frames'[i].at \in Making, frames'[j].at \in Making,
               frames'[i].obj = frames'[j].obj
        PROVE  i = j
    <2>1. /\ i - 1 \in DOMAIN frames /\ j - 1 \in DOMAIN frames
          /\ frames'[i] = frames[i - 1] /\ frames'[j] = frames[j - 1]
      BY <1>3, <1>4
    <2>2. i - 1 = j - 1
      BY <1>4, <2>1 DEF NativeInv, FramesApart
    <2>3. QED
      BY <1>3, <2>2
  <1>5. QED
    BY <1>1, <1>3, <1>4, MakeParentStep

LEMMA LoadClassStep ==
  ASSUME NativeInv, TypeOK', NEW o \in Objs, NEW n \in Natives, LoadClass(o, n)
  PROVE  NativeInv'
  <1>1. /\ MakeParent(o, n) /\ MayCall /\ UNCHANGED <<held, registry, rest>>
        /\ Len(frames) + 1 < MaxDepth /\ frames' = <<ParentFrame(o, n), LoadFrame>> \o frames
    BY DEF LoadClass, LoadFrame
  <1>2. ParentFrame(o, n) \in Frame
    BY <1>1, MakeParentTypes DEF NativeInv
  <1>3. /\ 1 \in DOMAIN frames' /\ frames'[1] = ParentFrame(o, n) /\ frames'[2] = LoadFrame
        /\ \A i \in DOMAIN frames' :
             i \in Int /\ (i \notin {1, 2} => i - 2 \in DOMAIN frames /\ frames'[i] = frames[i - 2])
    BY <1>1, <1>2, PushedTwo DEF NativeInv
  <1>4. LoadFrame.at \notin Making
    BY DEF LoadFrame, Making
  <1>5. ASSUME NEW i \in DOMAIN frames', NEW j \in DOMAIN frames',
               i # 1, j # 1, frames'[i].at \in Making, frames'[j].at \in Making,
               frames'[i].obj = frames'[j].obj
        PROVE  i = j
    <2>1. /\ i - 2 \in DOMAIN frames /\ j - 2 \in DOMAIN frames
          /\ frames'[i] = frames[i - 2] /\ frames'[j] = frames[j - 2]
      BY <1>3, <1>4, <1>5
    <2>2. i - 2 = j - 2
      BY <1>5, <2>1 DEF NativeInv, FramesApart
    <2>3. QED
      BY <1>3, <2>2
  <1>6. \A i \in DOMAIN frames' : i # 1 =>
          frames'[i] = LoadFrame \/ \E j \in DOMAIN frames : frames'[i] = frames[j]
    BY <1>3
  <1>7. QED
    BY <1>1, <1>3, <1>5, <1>6, MakeParentStep

\* The function could not be made: the C++ object is deleted, the parent
\* object keeps its pointer, and nobody can reach it.
LEMMA FunctionFailsStep ==
  ASSUME NativeInv, TypeOK', FunctionFails
  PROVE  NativeInv'
  <1>0. PICK o, n : frames[1].obj = o /\ frames[1].native = n
    OBVIOUS
  <1>1. /\ Top("parent")
        /\ life' = [life EXCEPT ![n] = "deleted"]
        /\ twice' = IF life[n] = "deleted" THEN twice \cup {n} ELSE twice
        /\ spoilt' = spoilt \cup {n}
        /\ UNCHANGED <<class, priv, handle, member, held, rooted, ctor, proto,
                       sweeping, open, escaped>>
    BY <1>0 DEF FunctionFails, Deleted, registry, rest
  <1>2. /\ frames # <<>> /\ n \in Natives /\ o \in Objs
        /\ class[o] = "function" /\ priv[o] = n /\ life[n] = "live"
        /\ handle[n] = None /\ member[n] = None
        /\ sweeping = {} /\ ~escaped
        /\ \A i \in DOMAIN frames : i # 1 => frames[i].at # "parent"
    BY <1>0, <1>1, TopSound DEF FrameSound, Making
  <1>3. life \in [Natives -> {"unborn", "building", "live", "deleted"}] /\ twice' = twice
    BY <1>1, <1>2 DEF NativeInv, TypeOK
  <1>4. \A p \in Objs : p # o => priv[p] # n
    <2>1. \A p : BeingMade(p) => p = o
      BY <1>0, <1>2 DEF BeingMade
    <2>2. n \notin spoilt
      BY <1>2 DEF NativeInv, PairsSound, NativeSound
    <2>3. QED
      BY <1>2, <2>1, <2>2, NoneAssumption DEF NativeInv, PairsSound, ObjectSound
  <1>5. \A p : Usable(p)' <=> Usable(p)
    <2>1. ASSUME NEW p, p # o
          PROVE  Usable(p)' <=> Usable(p)
      BY <1>1, <1>3, <1>4, <2>1 DEF Usable
    <2>2. ~Usable(o) /\ ~Usable(o)'
      BY <1>1, <1>2, <1>3, NoneAssumption DEF Usable
    <2>3. QED
      BY <2>1, <2>2
  <1>6. PICK k \in {1, 2} :
          \A i \in DOMAIN frames' :
            i \in Nat \ {0} /\ i + k \in DOMAIN frames /\ frames'[i] = frames[i + k]
    <2>1. CASE ForClass
      <3>1. Len(frames) > 1 /\ frames' = Tail(Tail(frames))
        BY <2>1 DEF ForClass, FunctionFails
      <3>2. QED
        BY <3>1, PoppedTwo DEF NativeInv
    <2>2. CASE ~ForClass
      <3>1. Pop
        BY <2>2 DEF FunctionFails, Pop
      <3>2. QED
        BY <1>2, <3>1, Popped DEF NativeInv
    <2>3. QED
      BY <2>1, <2>2
  <1>7. \A i \in DOMAIN frames' : frames'[i].at # "parent"
    BY <1>2, <1>6
  <1>8. FramesSound'
    <2>1. ASSUME NEW i \in DOMAIN frames'
          PROVE  FrameSound(frames[i])'
      <3> DEFINE f == frames'[i]
      <3>1. f \in Frame /\ FrameSound(f) /\ f.at # "parent"
        BY <1>6, <1>7 DEF TypeOK, NativeInv, FramesSound
      <3>2. f.at = "body" => f.native \in Natives /\ f.native # n
        BY <1>2, <3>1 DEF FrameSound
      <3> HIDE DEF f
      <3>3. f.at = "body" => life'[f.native] = life[f.native]
        BY <1>1, <1>3, <3>2
      <3>4. QED
        BY <1>1, <1>5, <3>1, <3>3 DEF FrameSound, Usable, Making, f
    <2>2. QED
      BY <2>1 DEF FramesSound
  <1>9. FramesApart'
    <2>1. ASSUME NEW i \in DOMAIN frames', NEW j \in DOMAIN frames',
                 frames'[i].at \in Making, frames'[j].at \in Making,
                 frames'[i].obj = frames'[j].obj
          PROVE  i = j
      <3>1. i + k = j + k
        BY <1>6, <2>1 DEF NativeInv, FramesApart
      <3>2. QED
        BY <1>6, <3>1
    <2>2. QED
      BY <1>7, <2>1 DEF FramesApart
  <1>10. PublicUsable'
    BY <1>1, <1>5 DEF NativeInv, PublicUsable, Public, MemberOf
  <1>11. PairsSound'
    <2>1. ASSUME NEW m \in Natives
          PROVE  NativeSound(m)'
      BY <1>1, <1>2, <1>3 DEF NativeInv, PairsSound, NativeSound
    <2>2. ASSUME NEW p \in Objs
          PROVE  ObjectSound(p)'
      <3>1. BeingMade(p) => p = o
        BY <1>0, <1>2 DEF BeingMade
      <3>2. CASE p = o
        BY <1>1, <1>2, <3>2, NoneAssumption DEF ObjectSound
      <3>3. CASE p # o
        BY <1>1, <1>3, <1>4, <3>1, <3>3 DEF NativeInv, PairsSound, ObjectSound
      <3>4. QED
        BY <3>2, <3>3
    <2>3. QED
      BY <2>1, <2>2 DEF PairsSound
  <1>12. EscapesOnlyEarly'
    BY <1>1, <1>2 DEF EscapesOnlyEarly
  <1>13. QED
    BY <1>8, <1>9, <1>10, <1>11, <1>12 DEF NativeInv

\* The function is made: parent object and C++ object point to each other.
LEMMA ConnectedStep ==
  ASSUME NativeInv, TypeOK', Top("parent"), Connected,
         UNCHANGED <<class, priv, life, member, twice, spoilt, sweeping, escaped>>,
         Public' \subseteq Public \cup {frames[1].obj},
         FramesApart',
         \A i \in DOMAIN frames' :
           \/ /\ frames'[i].at = "proto" /\ frames'[i].obj = None
              /\ frames'[i].arg = None \/ Usable(frames'[i].arg)
           \/ \E j \in DOMAIN frames : j # 1 /\ frames'[i] = frames[j]
  PROVE  NativeInv'
  <1>0. PICK o, n : frames[1].obj = o /\ frames[1].native = n
    OBVIOUS
  <1>1. handle' = [handle EXCEPT ![n] = o]
    BY <1>0 DEF Connected
  <1>2. /\ frames # <<>> /\ n \in Natives /\ o \in Objs
        /\ class[o] = "function" /\ priv[o] = n /\ life[n] = "live"
        /\ handle[n] = None /\ member[n] = None
        /\ sweeping = {} /\ ~escaped
        /\ \A i \in DOMAIN frames : i # 1 => frames[i].at # "parent"
    BY <1>0, TopSound DEF FrameSound, Making
  <1>3. handle \in [Natives -> Objs \cup {None}] /\ n \notin spoilt
    BY <1>2 DEF NativeInv, TypeOK, PairsSound, NativeSound
  <1>4. \A p : BeingMade(p) => p = o
    BY <1>0, <1>2 DEF BeingMade
  <1>5. \A p \in Objs : p # o => priv[p] # n
    BY <1>2, <1>3, <1>4, NoneAssumption DEF NativeInv, PairsSound, ObjectSound
  <1>6. \A p : Usable(p)' <=> Usable(p) \/ p = o
    <2>1. ASSUME NEW p, p # o
          PROVE  Usable(p)' <=> Usable(p)
      BY <1>1, <1>3, <1>5, <2>1 DEF Usable
    <2>2. Usable(o)'
      BY <1>1, <1>2, <1>3, NoneAssumption DEF Usable
    <2>3. QED
      BY <2>1, <2>2
  <1>7. FramesSound'
    <2>1. ASSUME NEW i \in DOMAIN frames'
          PROVE  FrameSound(frames[i])'
      <3> DEFINE f == frames'[i]
      <3>1. CASE f.at = "proto" /\ f.obj = None /\ (f.arg = None \/ Usable(f.arg))
        BY <1>6, <3>1 DEF FrameSound, Making
      <3>2. CASE \E j \in DOMAIN frames : j # 1 /\ f = frames[j]
        <4>1. f \in Frame /\ FrameSound(f) /\ f.at # "parent"
          BY <1>2, <3>2 DEF TypeOK, NativeInv, FramesSound
        <4>2. f.at = "body" => f.native \in Natives /\ f.native # n
          BY <1>2, <4>1 DEF FrameSound
        <4> HIDE DEF f
        <4>3. f.at = "body" => handle'[f.native] = handle[f.native]
          BY <1>1, <1>3, <4>2
        <4>4. QED
          BY <1>6, <4>1, <4>3 DEF FrameSound, Usable, Making, f
      <3>3. QED
        BY <3>1, <3>2
    <2>2. QED
      BY <2>1 DEF FramesSound
  <1>8. PublicUsable'
    <2>1. \A p \in Objs : MemberOf(p)' = MemberOf(p)
      BY DEF MemberOf
    <2>2. MemberOf(o) = None
      BY <1>2 DEF MemberOf
    <2>3. QED
      BY <1>0, <1>6, <2>1, <2>2 DEF NativeInv, PublicUsable
  <1>9. PairsSound'
    <2>1. ASSUME NEW m \in Natives
          PROVE  NativeSound(m)'
      BY <1>1, <1>2, <1>3 DEF NativeInv, PairsSound, NativeSound
    <2>2. ASSUME NEW p \in Objs
          PROVE  ObjectSound(p)'
      BY <1>1, <1>2, <1>3, <1>4, <1>5 DEF NativeInv, PairsSound, ObjectSound
    <2>3. QED
      BY <2>1, <2>2 DEF PairsSound
  <1>10. EscapesOnlyEarly'
    BY <1>2 DEF EscapesOnlyEarly
  <1>11. QED
    BY <1>7, <1>8, <1>9, <1>10 DEF NativeInv

LEMMA FunctionMadeStep ==
  ASSUME NativeInv, TypeOK', FunctionMade
  PROVE  NativeInv'
  <1>1. /\ Top("parent") /\ Connected /\ Pop
        /\ held' \in {held, held \cup {frames[1].obj}}
        /\ UNCHANGED <<class, priv, life, member, twice, spoilt, rooted, ctor, proto,
                       sweeping, open, escaped>>
    BY DEF FunctionMade, registry, rest
  <1>2. frames # <<>>
    BY <1>1, TopSound
  <1>3. /\ \A i \in DOMAIN frames' :
             i \in Nat \ {0} /\ i + 1 \in DOMAIN frames /\ frames'[i] = frames[i + 1]
    BY <1>1, <1>2, Popped DEF NativeInv
  <1>4. \A i \in DOMAIN frames' : \E j \in DOMAIN frames : j # 1 /\ frames'[i] = frames[j]
    BY <1>3
  <1>5. FramesApart'
    BY <1>1, <1>2, PopStep
  <1>6. Public' \subseteq Public \cup {frames[1].obj}
    BY <1>1 DEF Public
  <1>7. QED
    BY <1>1, <1>4, <1>5, <1>6, ConnectedStep

LEMMA AddConstructorStep ==
  ASSUME NativeInv, TypeOK', AddConstructor
  PROVE  NativeInv'
  <1>1. /\ Top("parent") /\ Connected /\ ForClass
        /\ frames' = [Tail(frames) EXCEPT ![1].at = "proto"]
        /\ ctor' = frames[1].obj
        /\ UNCHANGED <<class, priv, life, member, twice, spoilt, held, rooted, proto,
                       sweeping, open, escaped>>
    BY DEF AddConstructor, rest
  <1>2. Len(frames) > 1 /\ frames[2].at = "ctor"
    BY <1>1 DEF ForClass
  <1>3. /\ frames'[1] = [frames[2] EXCEPT !.at = "proto"]
        /\ frames[2] \in Frame /\ 2 \in DOMAIN frames
        /\ \A i \in DOMAIN frames' :
             /\ i \in Nat \ {0} /\ i + 1 \in DOMAIN frames
             /\ i # 1 => frames'[i] = frames[i + 1]
    BY <1>1, <1>2, PoppedOnto DEF NativeInv
  <1>4. /\ frames'[1].at = "proto" /\ frames'[1].obj = None
        /\ frames'[1].arg = None \/ Usable(frames'[1].arg)
    <2>1. frames[2].obj = None /\ (frames[2].arg = None \/ Usable(frames[2].arg))
      BY <1>2, <1>3 DEF NativeInv, FramesSound, FrameSound
    <2>2. QED
      BY <1>3, <2>1 DEF Frame
  <1>5. ASSUME NEW i \in DOMAIN frames', i # 1
        PROVE  i + 1 \in DOMAIN frames /\ i + 1 # 1 /\ frames'[i] = frames[i + 1]
    BY <1>3, <1>5
  <1>6. FramesApart'
    <2>1. \A i \in DOMAIN frames' : frames'[i].at # "parent"
      BY <1>4, <1>5 DEF NativeInv, FramesApart
    <2>2. ASSUME NEW i \in DOMAIN frames', NEW j \in DOMAIN frames',
                 frames'[i].at \in Making, frames'[j].at \in Making,
                 frames'[i].obj = frames'[j].obj
          PROVE  i = j
      <3>1. i # 1 /\ j # 1
        BY <1>4, <2>2 DEF Making
      <3>2. i + 1 = j + 1
        BY <1>5, <2>2, <3>1 DEF NativeInv, FramesApart
      <3>3. QED
        BY <1>3, <3>2
    <2>3. QED
      BY <2>1, <2>2 DEF FramesApart
  <1>7. Public' \subseteq Public \cup {frames[1].obj}
    BY <1>1 DEF Public
  <1>8. \A i \in DOMAIN frames' :
          \/ /\ frames'[i].at = "proto" /\ frames'[i].obj = None
             /\ frames'[i].arg = None \/ Usable(frames'[i].arg)
          \/ \E j \in DOMAIN frames : j # 1 /\ frames'[i] = frames[j]
    BY <1>4, <1>5
  <1>9. QED
    BY <1>1, <1>6, <1>7, <1>8, ConnectedStep

LEMMA AddPrototypeStep ==
  ASSUME NativeInv, TypeOK', NEW p \in Objs, AddPrototype(p)
  PROVE  NativeInv'
  <1>1. /\ Top("proto") /\ class[p] = "free"
        /\ class' = [class EXCEPT ![p] = "plain"] /\ proto' = p
        /\ frames' = [frames EXCEPT ![1].at = "augment"]
        /\ UNCHANGED <<priv, life, handle, member, twice, spoilt, held, rooted, ctor,
                       sweeping, open, escaped>>
    BY DEF AddPrototype, GoTo, rest
  <1>2. /\ frames # <<>> /\ 1 \in DOMAIN frames /\ FrameSound(frames[1])
        /\ frames[1].at = "proto" /\ sweeping = {} /\ ~escaped /\ At = "proto"
    BY <1>1, TopSound DEF Top
  <1>3. class \in [Objs -> {"free", "object", "function", "plain"}] /\ priv[p] = None
    BY <1>1 DEF NativeInv, TypeOK, PairsSound, ObjectSound
  <1>4. /\ DOMAIN frames' = DOMAIN frames
        /\ frames'[1].obj = frames[1].obj /\ frames'[1].arg = frames[1].arg
        /\ frames'[1].at = "augment"
        /\ \A i \in DOMAIN frames : i # 1 => frames'[i] = frames[i]
    BY <1>1, <1>2, Moved DEF NativeInv
  <1>5. \A o : Usable(o)' <=> Usable(o) \/ o = p
    <2>1. ASSUME NEW o, o # p
          PROVE  Usable(o)' <=> Usable(o)
      BY <1>1, <1>3, <2>1 DEF Usable
    <2>2. Usable(p)'
      BY <1>1, <1>2, <1>3 DEF Usable
    <2>3. QED
      BY <2>1, <2>2
  <1>6. \A o : ~BeingMade(o)
    BY <1>2, OnlyOnTop DEF NativeInv
  <1>7. FramesSound'
    <2>1. FrameSound(frames[1])'
      BY <1>2, <1>4, <1>5 DEF FrameSound, Making
    <2>2. ASSUME NEW i \in DOMAIN frames, i # 1
          PROVE  FrameSound(frames[i])'
      <3> DEFINE f == frames[i]
      <3>1. FrameSound(f) /\ f = frames'[i]
        BY <1>4, <2>2 DEF NativeInv, FramesSound
      <3>2. f.at \in Making => f.obj # p /\ f.obj \in Objs
        BY <1>1, <3>1 DEF FrameSound, Making
      <3> HIDE DEF f
      <3>3. f.at \in Making => class'[f.obj] = class[f.obj]
        BY <1>1, <1>3, <3>2
      <3>4. QED
        BY <1>1, <1>5, <3>1, <3>3 DEF FrameSound, Usable, Making
    <2>3. QED
      BY <1>4, <2>1, <2>2 DEF FramesSound
  <1>8. FramesApart'
    BY <1>2, <1>4 DEF NativeInv, FramesApart, Making
  <1>9. PublicUsable'
    <2>1. Public' \subseteq Public \cup {p}
      BY <1>1 DEF Public
    <2>2. MemberOf(p) = None /\ \A o \in Objs : MemberOf(o)' = MemberOf(o)
      BY <1>1, <1>3 DEF MemberOf
    <2>3. QED
      BY <1>5, <2>1, <2>2 DEF NativeInv, PublicUsable
  <1>10. PairsSound'
    <2>1. \A m \in Natives : NativeSound(m)'
      BY <1>1 DEF NativeInv, PairsSound, NativeSound
    <2>2. \A o \in Objs : ObjectSound(o)'
      BY <1>1, <1>3, <1>6 DEF NativeInv, PairsSound, ObjectSound
    <2>3. QED
      BY <2>1, <2>2 DEF PairsSound
  <1>11. EscapesOnlyEarly'
    BY <1>1, <1>2 DEF EscapesOnlyEarly
  <1>12. QED
    BY <1>7, <1>8, <1>9, <1>10, <1>11 DEF NativeInv

-----------------------------------------------------------------------------
(* Collections. *)

\* A collection that spares what it has reached, where that is all that is
\* usable and referred to, and closed.
LEMMA SweepStep ==
  ASSUME NativeInv, TypeOK', NEW live \in SUBSET Objs,
         sweeping = {}, sweeping' = Allocated \ live, escaped' = escaped, ~escaped,
         UNCHANGED <<bodies, frames>>,
         Public' \subseteq Public \cap live,
         \A i \in DOMAIN frames : {frames[i].obj, frames[i].arg} \ {None} \subseteq live,
         \A p \in live : Traced(p) \subseteq live
  PROVE  NativeInv'
  <1>1. UNCHANGED <<class, priv, life, handle, member, twice, spoilt, frames>>
    BY DEF bodies
  <1>2. \A o : Usable(o)' <=> Usable(o) /\ o \in live
    BY <1>1 DEF Usable, Allocated
  <1>3. FramesSound'
    <2>1. ASSUME NEW i \in DOMAIN frames
          PROVE  FrameSound(frames[i])'
      <3> DEFINE f == frames[i]
      <3>1. /\ FrameSound(f) /\ f' = f
            /\ f.obj = None \/ f.obj \in live
            /\ f.arg = None \/ f.arg \in live
        BY <1>1 DEF NativeInv, FramesSound
      <3>2. f.at \in Making => f.obj # None /\ f.obj \notin sweeping'
        BY <3>1, NoneAssumption DEF FrameSound
      <3>3. f.at = "hook" => Usable(f.obj)'
        <4>1. f.at = "hook" => Usable(f.obj) /\ f.obj # None
          BY <3>1, NoneAssumption DEF FrameSound, Usable
        <4>2. f.at = "hook" => Usable(f.obj) /\ f.obj \in live
          BY <3>1, <4>1
        <4>3. QED
          BY <1>1, <4>2 DEF Usable, Allocated
      <3>4. f.arg # None => Usable(f.arg)'
        <4>1. f.arg # None => Usable(f.arg) /\ f.arg \in live
          BY <3>1 DEF FrameSound
        <4>2. QED
          BY <1>1, <4>1 DEF Usable, Allocated
      <3>5. QED
        BY <1>1, <3>1, <3>2, <3>3, <3>4 DEF FrameSound, Making
    <2>2. QED
      BY <1>1, <2>1 DEF FramesSound
  <1>4. FramesApart'
    BY <1>1 DEF NativeInv, FramesApart
  <1>5. PublicUsable'
    <2>1. \A o \in Public' : Usable(o)'
      BY <1>2 DEF NativeInv, PublicUsable
    <2>2. ASSUME NEW o \in Objs, Usable(o)', MemberOf(o)' # None
          PROVE  Usable(MemberOf(o))'
      <3>1. Usable(o) /\ o \in live /\ MemberOf(o)' = MemberOf(o)
        BY <1>1, <1>2, <2>2 DEF MemberOf
      <3>2. Usable(MemberOf(o))
        BY <2>2, <3>1 DEF NativeInv, PublicUsable
      <3>3. priv[o] # None /\ life[priv[o]] = "live"
        BY <2>2, <3>1 DEF MemberOf, Usable
      <3>4. class[o] = "object"
        BY <2>2, <3>1, <3>3 DEF NativeInv, PairsSound, ObjectSound, MemberOf
      <3>5. MemberOf(o) \in Traced(o)
        BY <2>2, <3>1, <3>3, <3>4, NoneAssumption DEF Traced, GetNative, MemberOf
      <3>6. MemberOf(o) \in live
        BY <3>1, <3>5
      <3>7. QED
        BY <1>1, <3>1, <3>2, <3>6 DEF Usable, Allocated
    <2>3. QED
      BY <2>1, <2>2 DEF PublicUsable
  <1>6. PairsSound'
    <2>1. \A n \in Natives : NativeSound(n)'
      BY <1>1 DEF NativeInv, PairsSound, NativeSound
    <2>2. \A o \in Objs : BeingMade(o)' <=> BeingMade(o)
      BY <1>1 DEF BeingMade
    <2>3. \A o \in Objs : ObjectSound(o)'
      BY <1>1, <2>2 DEF NativeInv, PairsSound, ObjectSound
    <2>4. QED
      BY <2>1, <2>3 DEF PairsSound
  <1>7. EscapesOnlyEarly'
    BY DEF EscapesOnlyEarly
  <1>8. QED
    BY <1>3, <1>4, <1>5, <1>6, <1>7 DEF NativeInv

LEMMA CollectStep ==
  ASSUME NativeInv, TypeOK', Collect
  PROVE  NativeInv'
  <1>1. /\ sweeping = {} /\ ~escaped /\ sweeping' = Allocated \ Marked /\ Public' = Public
        /\ escaped' = escaped /\ UNCHANGED <<bodies, frames>>
    BY DEF Collect, Running, Public, registry
  <1>2. Roots \in SUBSET Objs
    BY RootsKnown
  <1>3. /\ Marked \in SUBSET Objs /\ Roots \subseteq Marked
        /\ \A p \in Marked : Traced(p) \subseteq Marked
    BY <1>2, ReachedFacts DEF Marked, NativeInv
  <1>4. Public \subseteq Roots
    BY NoneAssumption DEF Public, Roots, NativeInv, TypeOK
  <1>5. \A i \in DOMAIN frames : {frames[i].obj, frames[i].arg} \ {None} \subseteq Roots
    BY DEF Roots, Scoped
  <1>6. QED
    BY <1>1, <1>3, <1>4, <1>5, SweepStep

LEMMA DestroyStep ==
  ASSUME NativeInv, TypeOK', DestroyContext
  PROVE  NativeInv'
  <1>1. /\ sweeping = {} /\ ~escaped /\ sweeping' = Allocated \ Reached(rooted)
        /\ escaped' = escaped /\ frames = <<>> /\ UNCHANGED <<bodies, frames>>
        /\ Public' = rooted /\ rooted \subseteq Public
    BY DEF DestroyContext, Closed, Running, Public
  <1>2. rooted \in SUBSET Objs
    BY DEF NativeInv, TypeOK
  <1>3. /\ Reached(rooted) \in SUBSET Objs /\ rooted \subseteq Reached(rooted)
        /\ \A p \in Reached(rooted) : Traced(p) \subseteq Reached(rooted)
    BY <1>2, ReachedFacts DEF NativeInv
  <1>4. DOMAIN frames = {}
    BY <1>1
  <1>5. QED
    BY <1>1, <1>3, <1>4, SweepStep

\* What a finalizer deletes is what its object had to itself.
LEMMA FinalizeFacts ==
  ASSUME NativeInv, NEW o \in sweeping, Finalize(o), NEW n \in Natives, priv[o] = n
  PROVE  /\ life' = [life EXCEPT ![n] = "deleted"]
         /\ handle' = [handle EXCEPT ![n] = None]
         /\ priv' = [priv EXCEPT ![o] = None]
         /\ n \notin spoilt => life[n] \in {"building", "live"} /\ handle[n] = o /\ twice' = twice
         /\ n \in spoilt => twice' \subseteq twice \cup {n}
  <1>1. o \in Objs /\ n # None /\ class[o] \in {"object", "function"}
    BY NoneAssumption DEF NativeInv, TypeOK, PairsSound, ObjectSound
  <1>2. ~BeingMade(o)
    BY DEF BeingMade, NativeInv, FramesSound, FrameSound, Making
  <1>3. n \notin spoilt => life[n] \in {"building", "live"} /\ handle[n] = o
    BY <1>1, <1>2 DEF NativeInv, PairsSound, ObjectSound
  <1>4. class[o] = "object" => n \notin spoilt
    BY <1>1 DEF NativeInv, PairsSound, ObjectSound
  <1>5. Deleted(n)
    BY <1>1 DEF Finalize, Destroyed
  <1>6. QED
    BY <1>1, <1>3, <1>4, <1>5, NoneAssumption DEF Finalize, Destroyed, Deleted

LEMMA FinalizeStep ==
  ASSUME NativeInv, TypeOK', NEW o \in sweeping, Finalize(o)
  PROVE  NativeInv'
  <1>1. /\ class' = [class EXCEPT ![o] = "free"] /\ sweeping' = sweeping \ {o}
        /\ UNCHANGED <<member, spoilt, frames, held, rooted, ctor, proto, exported, open, escaped>>
        /\ o \in Objs
    BY DEF Finalize, registry, NativeInv, TypeOK
  <1>2. /\ class \in [Objs -> {"free", "object", "function", "plain"}]
        /\ priv \in [Objs -> Natives \cup {None}]
        /\ handle \in [Natives -> Objs \cup {None}]
        /\ life \in [Natives -> {"unborn", "building", "live", "deleted"}]
    BY DEF NativeInv, TypeOK
  <1>3. priv[o] = None => UNCHANGED <<priv, life, handle, twice>>
    <2>1. priv[o] = None => class[o] # "function"
      BY <1>1 DEF NativeInv, PairsSound, ObjectSound
    <2>2. QED
      BY <2>1 DEF Finalize
  <1>4. priv' = [priv EXCEPT ![o] = None]
    BY <1>1, <1>2, <1>3, FinalizeFacts
  <1>5. ASSUME NEW m \in Natives, m # priv[o]
        PROVE  life'[m] = life[m] /\ handle'[m] = handle[m] /\ member'[m] = member[m]
               /\ (m \in twice' => m \in twice)
    BY <1>1, <1>2, <1>3, <1>5, FinalizeFacts
  <1>6. ASSUME NEW p \in Objs, p # o, priv[p] # None, priv[p] = priv[o]
        PROVE  priv[p] \in spoilt
    <2>1. priv[o] \notin spoilt => handle[priv[o]] = o
      BY <1>1, <1>2, <1>6, FinalizeFacts
    <2>2. ~BeingMade(p) \/ priv[o] \in spoilt
      <3>1. ASSUME NEW i \in DOMAIN frames, frames[i].at = "parent", frames[i].obj = p
            PROVE  handle[priv[p]] = None
        BY <3>1 DEF NativeInv, FramesSound, FrameSound
      <3>2. QED
        BY <1>1, <1>6, <2>1, <3>1, NoneAssumption DEF BeingMade
    <2>3. QED
      BY <1>6, <2>1, <2>2 DEF NativeInv, PairsSound, ObjectSound
  <1>7. \A p : Usable(p) => p # o /\ (priv[p] # None => priv[p] # priv[o])
    <2>1. \A n \in Natives : n \in spoilt => life[n] = "deleted"
      BY DEF NativeInv, PairsSound, NativeSound
    <2>2. QED
      BY <1>2, <1>6, <2>1 DEF Usable
  <1>8. \A p : Usable(p) => Usable(p)'
    BY <1>1, <1>2, <1>4, <1>5, <1>7 DEF Usable
  <1>9. \A p : Usable(p)' => Usable(p)
    <2>1. ASSUME NEW p, Usable(p)'
          PROVE  Usable(p)
      <3>1. p # o /\ p \in Objs /\ priv'[p] = priv[p] /\ class'[p] = class[p]
        BY <1>1, <1>2, <1>4, <2>1 DEF Usable
      <3>2. priv[p] # None => life'[priv[p]] = "live" /\ handle'[priv[p]] = p
        BY <2>1, <3>1 DEF Usable
      <3>3. priv[p] # None => priv[p] # priv[o]
        BY <1>1, <1>2, <3>1, <3>2, NoneAssumption, FinalizeFacts
      <3>4. priv[p] # None => life[priv[p]] = "live" /\ handle[priv[p]] = p
        BY <1>2, <1>5, <3>1, <3>2, <3>3
      <3>5. QED
        BY <1>1, <2>1, <3>1, <3>4 DEF Usable
    <2>2. QED
      BY <2>1
  <1>10. FramesSound'
    <2>1. ASSUME NEW i \in DOMAIN frames
          PROVE  FrameSound(frames[i])'
      <3>1. frames[i] \in Frame /\ FrameSound(frames[i]) /\ frames' = frames
        BY <1>1 DEF NativeInv, TypeOK, FramesSound
      <3> DEFINE f == frames[i]
      <3>2. f.at \in Making => f.obj # o /\ f.obj \in Objs
        BY <3>1 DEF FrameSound
      <3>3. f.at \in {"body", "parent"} => f.native \in Natives /\ priv[f.obj] = f.native
                                           /\ life[f.native] \in {"building", "live"}
                                           /\ (handle[f.native] = None \/ handle[f.native] = f.obj)
        BY <3>1 DEF FrameSound
      <3>4. f.at \in {"body", "parent"} => f.native \notin spoilt /\ f.native # priv[o]
        <4>1. f.at \in {"body", "parent"} => f.native \notin spoilt
          BY <3>3 DEF NativeInv, PairsSound, NativeSound
        <4>2. QED
          BY <1>6, <3>2, <3>3, <4>1, NoneAssumption DEF Making
      <3>5. f.at = "hook" => f.obj \in Objs /\ f.obj # o
        BY <3>1, <1>7 DEF FrameSound, Usable
      <3>6. f.at \in Making \cup {"hook"} => priv'[f.obj] = priv[f.obj] /\ class'[f.obj] = class[f.obj]
        BY <1>1, <1>2, <1>4, <3>2, <3>5
      <3>7. f.at \in {"body", "parent"} =>
              life'[f.native] = life[f.native] /\ handle'[f.native] = handle[f.native]
        BY <1>5, <3>3, <3>4
      <3> HIDE DEF f
      <3>8. FrameSound(f) /\ f \in Frame
        BY <3>1 DEF f
      <3>9. \A g \in Frame : g = f => FrameSound(g)'
        BY <1>1, <1>8, <3>2, <3>3, <3>6, <3>7, <3>8 DEF FrameSound, Making
      <3>10. QED
        BY <3>1, <3>8, <3>9 DEF FrameSound, Usable, Making, f
    <2>2. QED
      BY <1>1, <2>1 DEF FramesSound
  <1>11. FramesApart'
    BY <1>1 DEF NativeInv, FramesApart
  <1>12. PublicUsable'
    <2>1. Public' = Public
      BY <1>1 DEF Public
    <2>2. \A p \in Objs : Usable(p) => MemberOf(p)' = MemberOf(p)
      BY <1>1, <1>2, <1>4, <1>7 DEF MemberOf
    <2>3. QED
      BY <1>8, <1>9, <2>1, <2>2 DEF NativeInv, PublicUsable
  <1>13. PairsSound'
    <2>1. ASSUME NEW m \in Natives
          PROVE  NativeSound(m)'
      <3>1. CASE m = priv[o]
        BY <1>1, <1>2, <3>1, FinalizeFacts DEF NativeInv, PairsSound, NativeSound
      <3>2. CASE m # priv[o]
        <4>1. handle[m] # None => handle[m] # o
          BY <3>2 DEF NativeInv, PairsSound, NativeSound
        <4>2. QED
          BY <1>1, <1>2, <1>4, <1>5, <3>2, <4>1 DEF NativeInv, PairsSound, NativeSound
      <3>3. QED
        BY <3>1, <3>2
    <2>2. ASSUME NEW p \in Objs
          PROVE  ObjectSound(p)'
      <3>1. CASE p = o
        BY <1>1, <1>2, <1>4, <3>1 DEF ObjectSound
      <3>2. CASE p # o
        <4>1. class'[p] = class[p] /\ priv'[p] = priv[p] /\ (BeingMade(p) => BeingMade(p)')
          BY <1>1, <1>2, <1>4, <3>2 DEF BeingMade
        <4>2. CASE priv[p] = None
          BY <4>1, <4>2 DEF NativeInv, PairsSound, ObjectSound
        <4>3. CASE priv[p] # None /\ priv[p] # priv[o]
          BY <1>1, <1>2, <1>5, <4>1, <4>3 DEF NativeInv, PairsSound, ObjectSound
        <4>4. CASE priv[p] # None /\ priv[p] = priv[o]
          BY <1>1, <1>2, <1>6, <3>2, <4>1, <4>4 DEF NativeInv, PairsSound, ObjectSound
        <4>5. QED
          BY <4>2, <4>3, <4>4
      <3>3. QED
        BY <3>1, <3>2
    <2>3. QED
      BY <2>1, <2>2 DEF PairsSound
  <1>14. EscapesOnlyEarly'
    BY <1>1 DEF EscapesOnlyEarly, NativeInv
  <1>15. QED
    BY <1>10, <1>11, <1>12, <1>13, <1>14 DEF NativeInv

-----------------------------------------------------------------------------
LEMMA NativeInit == Init => NativeInv
  <1> SUFFICES ASSUME Init PROVE NativeInv
    OBVIOUS
  <1>1. frames = <<>> /\ frames \in Seq(Frame) /\ DOMAIN frames = {} /\ Len(frames) = 0
    BY DEF Init
  <1>2. TypeOK
    <2>1. /\ class \in [Objs -> {"free", "object", "function", "plain"}]
          /\ priv \in [Objs -> Natives \cup {None}]
          /\ life \in [Natives -> {"unborn", "building", "live", "deleted"}]
          /\ handle \in [Natives -> Objs \cup {None}]
          /\ member \in [Natives -> Objs \cup {None}]
      BY DEF Init
    <2>2. /\ held \subseteq Objs /\ rooted \subseteq Objs /\ sweeping \subseteq Objs
          /\ ctor \in Objs \cup {None} /\ proto \in Objs \cup {None}
          /\ exported \in BOOLEAN /\ open \in BOOLEAN /\ escaped \in BOOLEAN
          /\ twice \subseteq Natives /\ spoilt \subseteq Natives
      BY DEF Init
    <2>3. Len(frames) <= MaxDepth
      BY <1>1, DepthAssumption
    <2>4. QED
      BY ONLY <1>1, <2>1, <2>2, <2>3 DEF TypeOK
  <1>3. FramesSound /\ FramesApart
    BY <1>1 DEF FramesSound, FramesApart
  <1>4. PublicUsable
    BY DEF Init, PublicUsable, Public, Usable
  <1>5. PairsSound
    BY DEF Init, PairsSound, ObjectSound, NativeSound
  <1>6. EscapesOnlyEarly
    BY DEF Init, EscapesOnlyEarly
  <1>7. QED
    BY <1>2, <1>3, <1>4, <1>5, <1>6 DEF NativeInv

LEMMA NativeStep ==
  ASSUME NativeInv, [Next]_vars
  PROVE  NativeInv'
  <1>1. TypeOK'
    BY TypeStep DEF NativeInv
  <1>2. held \subseteq Objs
    BY DEF NativeInv, TypeOK
  <1>3. CASE \/ \E o \in held : property_op(o) \/ new_resolve(o) \/ new_enumerate(o) \/ CallFunction(o)
             \/ \E o, f \in held : call_helper(o, f) \/ CallMember(f, o)
    BY <1>1, <1>3, HooksAre, HookStep DEF NativeInv
  <1>4. CASE \/ ArgsThrow \/ LoadThrows \/ HookReturns \/ ClassLoaded
             \/ LoadKnown \/ Unexport \/ TraceThrows
             \/ \E o \in held : Drop(o) \/ AddRoot(o)
             \/ \E o \in rooted : RemoveRoot(o)
             \/ UNCHANGED vars
    BY <1>1, <1>4, QuietSteps
  <1>5. CASE \/ \E o \in Objs, a \in held \cup {None} : CreateNativeObject(o, a)
             \/ \E n \in Natives : LoadInto(n)
             \/ BodyThrows \/ Created
    BY <1>1, <1>5, CreateStep, LoadIntoStep, BodyThrowsStep, CreatedStep
  <1>6. CASE \/ \E o \in Objs, n \in Natives : CreateFunction(o, n) \/ LoadClass(o, n)
             \/ FunctionFails \/ FunctionMade \/ AddConstructor
             \/ \E p \in Objs : AddPrototype(p)
    BY <1>1, <1>6, CreateFunctionStep, LoadClassStep, FunctionFailsStep, FunctionMadeStep,
       AddConstructorStep, AddPrototypeStep
  <1>7. CASE Collect \/ DestroyContext \/ \E o \in sweeping : Finalize(o)
    BY <1>1, <1>7, CollectStep, DestroyStep, FinalizeStep
  <1>8. QED
    BY <1>3, <1>4, <1>5, <1>6, <1>7 DEF Next

\* The pointers of the objects that a collection has spared.
LEMMA PairsHold ==
  ASSUME NativeInv
  PROVE  Paired /\ NotCollected
  <1>1. Paired
    BY DEF NativeInv, PairsSound, ObjectSound, NativeSound, Paired, TypeOK
  <1>2. \A i \in DOMAIN frames :
          frames[i].at = "hook" => life[frames[i].native] \in {"building", "live"}
    BY NoneAssumption DEF NativeInv, FramesSound, FrameSound, Usable
  <1>3. {ctor, proto} \cup rooted \subseteq Spared
    BY DEF NativeInv, PublicUsable, Public, Usable, Spared, Allocated
  <1>4. ASSUME NEW o \in Spared \ {None}, priv[o] # None
        PROVE  member[priv[o]] \in Spared
    <2>1. o \in Objs /\ o \notin sweeping /\ class[o] # "free" /\ priv[o] \in Natives
      BY <1>4 DEF Spared, Allocated, NativeInv, TypeOK
    <2>2. CASE Usable(o)
      BY <1>4, <2>1, <2>2 DEF NativeInv, PublicUsable, MemberOf, Usable, Spared, Allocated
    <2>3. CASE ~Usable(o)
      <3>1. priv[o] \in spoilt \/ life[priv[o]] = "building" \/ BeingMade(o)
        BY <1>4, <2>1, <2>3 DEF NativeInv, PairsSound, ObjectSound, Usable
      <3>2. BeingMade(o) => member[priv[o]] = None
        BY <2>1 DEF BeingMade, NativeInv, FramesSound, FrameSound
      <3>3. member[priv[o]] = None
        BY <2>1, <3>1, <3>2 DEF NativeInv, PairsSound, NativeSound
      <3>4. QED
        BY <3>3 DEF Spared
    <2>4. QED
      BY <2>2, <2>3
  <1>5. QED
    BY <1>1, <1>2, <1>3, <1>4 DEF NotCollected

LEMMA NativeInvHolds == Spec => []NativeInv
  <1>1. NativeInv /\ [Next]_vars => NativeInv'
    BY NativeStep
  <1>2. QED
    BY <1>1, NativeInit, PTL DEF Spec

\* Script objects and C++ objects belong to each other: a private pointer
\* names an object that is there and points back, hooks, roots and the
\* registry of classes never see one that has been collected, and a trace
\* throws only for an object whose constructor still awaits its arguments.
THEOREM ObjectsSoundHolds == Spec => []ObjectsSound
  <1>1. NativeInv => ObjectsSound
    BY PairsHold DEF NativeInv, ObjectsSound
  <1>2. QED
    BY <1>1, NativeInvHolds, PTL

-----------------------------------------------------------------------------
(* The C++ objects implement Ownership. *)

Owner == [n \in Natives |-> OwnerOf(n)]

\* Only functions whose creation failed are spoilt, and only those are
\* deleted twice: of the others the owner is told from life and handle alone.
LEMMA OwnerIs ==
  ASSUME NativeInv, NEW n \in Natives
  PROVE  /\ life[n] = "unborn" => OwnerOf(n) = "unborn"
         /\ life[n] = "building" => OwnerOf(n) = "cpp"
         /\ life[n] = "live" /\ handle[n] = None => OwnerOf(n) = "shared"
         /\ life[n] = "live" /\ handle[n] # None => OwnerOf(n) = "script"
         /\ life[n] = "deleted" /\ n \notin spoilt => OwnerOf(n) = "deleted"
         /\ n \in spoilt /\ n \notin twice => OwnerOf(n) = "abandoned"
         /\ n \in twice => OwnerOf(n) = "twice"
  BY DEF NativeInv, PairsSound, NativeSound, OwnerOf

LEMMA OwnerOther ==
  ASSUME NativeInv, NativeInv', NEW n \in Natives,
         life'[n] = life[n], (handle'[n] = None) <=> (handle[n] = None),
         (n \in twice') <=> (n \in twice), (n \in spoilt') <=> (n \in spoilt)
  PROVE  OwnerOf(n)' = OwnerOf(n)
  <1>1. life[n] \in {"unborn", "building", "live", "deleted"}
    BY DEF NativeInv, TypeOK
  <1>2. n \in twice => n \in spoilt
    BY DEF NativeInv, PairsSound, NativeSound
  <1>3. n \in spoilt => life[n] = "deleted"
    BY DEF NativeInv, PairsSound, NativeSound
  <1>4. QED
    BY <1>1, <1>2, <1>3 DEF OwnerOf

\* A step that takes one C++ object from one stage of its life to a later one.
LEMMA OneGoes ==
  ASSUME NativeInv, NativeInv', NEW n \in Natives, NEW from, NEW to,
         \A m \in Natives : m # n => /\ life'[m] = life[m] /\ handle'[m] = handle[m]
                                     /\ (m \in twice') <=> (m \in twice)
                                     /\ (m \in spoilt') <=> (m \in spoilt),
         OwnerOf(n) = from, OwnerOf(n)' = to,
         \/ from = "unborn" /\ to \in {"cpp", "shared"}
         \/ from \in {"cpp", "shared"} /\ to = "script"
         \/ from \in {"cpp", "script"} /\ to = "deleted"
         \/ from = "shared" /\ to = "abandoned"
         \/ from = "abandoned" /\ to = "twice"
  PROVE  [O!Next]_Owner
  <1>1. \A m \in Natives : m # n => OwnerOf(m)' = OwnerOf(m)
    BY OwnerOther
  <1>2. Owner[n] = from /\ Owner' = [Owner EXCEPT ![n] = to]
    BY <1>1 DEF Owner
  <1>3. O!Goes(n, from, to)
    BY <1>2 DEF O!Goes, Owner
  <1>4. \/ O!Make(n) \/ O!Load(n) \/ O!Delete(n)
        \/ O!Share(n) \/ O!Connect(n) \/ O!Abandon(n) \/ O!DeleteAgain(n)
    BY <1>3 DEF O!Make, O!Load, O!Delete, O!Share, O!Connect, O!Abandon, O!DeleteAgain
  <1>5. QED
    BY <1>4 DEF O!Next

\* What life and handle are after the step says who the owner is then.
LEMMA OwnerThen ==
  ASSUME NativeInv', NEW n \in Natives
  PROVE  /\ life'[n] = "building" => OwnerOf(n)' = "cpp"
         /\ life'[n] = "live" /\ handle'[n] = None => OwnerOf(n)' = "shared"
         /\ life'[n] = "live" /\ handle'[n] # None => OwnerOf(n)' = "script"
         /\ life'[n] = "deleted" /\ n \notin spoilt' => OwnerOf(n)' = "deleted"
         /\ n \in spoilt' /\ n \notin twice' => OwnerOf(n)' = "abandoned"
         /\ n \in twice' => OwnerOf(n)' = "twice"
  BY DEF NativeInv, PairsSound, NativeSound, OwnerOf

LEMMA FinalizedTwice ==
  ASSUME NativeInv, NEW o \in sweeping, Finalize(o), NEW n \in Natives, priv[o] = n
  PROVE  twice' = (IF life[n] = "deleted" THEN twice \cup {n} ELSE twice) /\ spoilt' = spoilt
  <1>1. o \in Objs /\ n # None
    BY NoneAssumption DEF NativeInv, TypeOK
  <1>2. class[o] \in {"object", "function"}
    BY <1>1 DEF NativeInv, PairsSound, ObjectSound
  <1>3. QED
    BY <1>1, <1>2 DEF Finalize, Destroyed, Deleted

\* Each step of native objects is one of Ownership, or none.
LEMMA OwnershipStep ==
  ASSUME NativeInv, NativeInv', [Next]_vars
  PROVE  [O!Next]_Owner
  <1> DEFINE Typed == /\ life \in [Natives -> {"unborn", "building", "live", "deleted"}]
                      /\ handle \in [Natives -> Objs \cup {None}]
  <1>1. Typed
    BY DEF NativeInv, TypeOK
  <1>2. CASE UNCHANGED <<life, handle, twice, spoilt>>
    <2>1. \A n \in Natives : OwnerOf(n)' = OwnerOf(n)
      BY <1>2, OwnerOther
    <2>2. QED
      BY <2>1 DEF Owner
  <1>3. ASSUME NEW n \in Natives, LoadInto(n)
        PROVE  [O!Next]_Owner
    <2>1. /\ life[n] = "unborn" /\ life' = [life EXCEPT ![n] = "building"]
          /\ handle' = [handle EXCEPT ![n] = frames[1].obj] /\ UNCHANGED <<twice, spoilt>>
      BY <1>3 DEF LoadInto
    <2>2. OwnerOf(n) = "unborn"
      BY <2>1, OwnerIs
    <2>3. /\ life'[n] = "building"
          /\ \A m \in Natives : m # n => life'[m] = life[m] /\ handle'[m] = handle[m]
      BY <1>1, <2>1
    <2>4. OwnerOf(n)' = "cpp"
      BY <2>3, OwnerThen
    <2>5. QED
      BY <2>1, <2>2, <2>3, <2>4, OneGoes
  <1>4. ASSUME NEW o \in Objs, NEW n \in Natives, MakeParent(o, n)
        PROVE  [O!Next]_Owner
    <2>1. /\ life[n] = "unborn" /\ life' = [life EXCEPT ![n] = "live"]
          /\ UNCHANGED <<handle, twice, spoilt>>
      BY <1>4 DEF MakeParent
    <2>2. OwnerOf(n) = "unborn" /\ handle[n] = None
      BY <2>1, OwnerIs DEF NativeInv, PairsSound, NativeSound
    <2>3. /\ life'[n] = "live" /\ handle'[n] = None
          /\ \A m \in Natives : m # n => life'[m] = life[m] /\ handle'[m] = handle[m]
      BY <1>1, <2>1, <2>2
    <2>4. OwnerOf(n)' = "shared"
      BY <2>3, OwnerThen
    <2>5. QED
      BY <2>1, <2>2, <2>3, <2>4, OneGoes
  <1>5. CASE BodyThrows
    <2>1. PICK n : n = frames[1].native
      OBVIOUS
    <2>2. Top("body") /\ Destroyed(n) /\ spoilt' = spoilt
      BY <1>5, <2>1 DEF BodyThrows
    <2>3. n \in Natives /\ life[n] = "building" /\ n \notin spoilt
      BY <2>1, <2>2, TopSound DEF FrameSound, NativeInv, PairsSound, NativeSound
    <2>4. /\ life' = [life EXCEPT ![n] = "deleted"] /\ handle' = [handle EXCEPT ![n] = None]
          /\ twice' = twice
      BY <2>2, <2>3 DEF Destroyed, Deleted
    <2>5. OwnerOf(n) = "cpp" /\ OwnerOf(n)' = "deleted"
      BY <1>1, <2>2, <2>3, <2>4, OwnerIs, OwnerThen
    <2>6. QED
      BY <1>1, <2>2, <2>3, <2>4, <2>5, OneGoes
  <1>6. CASE Created
    <2>1. PICK n : n = frames[1].native
      OBVIOUS
    <2>2. /\ Top("body") /\ life' = [life EXCEPT ![n] = "live"]
          /\ UNCHANGED <<handle, twice, spoilt>>
      BY <1>6, <2>1 DEF Created
    <2>3. n \in Natives /\ life[n] = "building" /\ handle[n] # None
      BY <2>1, <2>2, TopSound, NoneAssumption DEF FrameSound, Making
    <2>4. OwnerOf(n) = "cpp"
      BY <2>3, OwnerIs
    <2>5. /\ life'[n] = "live" /\ handle'[n] # None
          /\ \A m \in Natives : m # n => life'[m] = life[m] /\ handle'[m] = handle[m]
      BY <1>1, <2>2, <2>3
    <2>6. OwnerOf(n)' = "script"
      BY <2>3, <2>5, OwnerThen
    <2>7. QED
      BY <2>2, <2>3, <2>4, <2>5, <2>6, OneGoes
  <1>7. CASE FunctionFails
    <2>1. PICK n : n = frames[1].native
      OBVIOUS
    <2>2. Top("parent") /\ Deleted(n) /\ spoilt' = spoilt \cup {n} /\ handle' = handle
      BY <1>7, <2>1 DEF FunctionFails
    <2>3. n \in Natives /\ life[n] = "live" /\ handle[n] = None /\ n \notin twice
      BY <2>1, <2>2, TopSound DEF FrameSound, NativeInv, PairsSound, NativeSound
    <2>4. life' = [life EXCEPT ![n] = "deleted"] /\ twice' = twice
      BY <2>2, <2>3 DEF Deleted
    <2>5. OwnerOf(n) = "shared" /\ OwnerOf(n)' = "abandoned"
      BY <2>2, <2>3, <2>4, OwnerIs, OwnerThen
    <2>6. QED
      BY <1>1, <2>2, <2>3, <2>4, <2>5, OneGoes
  <1>8. CASE FunctionMade \/ AddConstructor
    <2>1. PICK n, o : n = frames[1].native /\ o = frames[1].obj
      OBVIOUS
    <2>2. /\ Top("parent") /\ life' = life /\ handle' = [handle EXCEPT ![n] = o]
          /\ UNCHANGED <<twice, spoilt>>
      BY <1>8, <2>1 DEF FunctionMade, AddConstructor, Connected
    <2>3. n \in Natives /\ life[n] = "live" /\ handle[n] = None /\ o # None
      BY <2>1, <2>2, TopSound, NoneAssumption DEF FrameSound, Making
    <2>4. OwnerOf(n) = "shared"
      BY <2>3, OwnerIs
    <2>5. /\ life'[n] = "live" /\ handle'[n] # None
          /\ \A m \in Natives : m # n => life'[m] = life[m] /\ handle'[m] = handle[m]
      BY <1>1, <2>2, <2>3
    <2>6. OwnerOf(n)' = "script"
      BY <2>3, <2>5, OwnerThen
    <2>7. QED
      BY <2>2, <2>3, <2>4, <2>5, <2>6, OneGoes
  <1>9. ASSUME NEW o \in sweeping, Finalize(o)
        PROVE  [O!Next]_Owner
    <2>1. o \in Objs /\ priv[o] \in Natives \cup {None}
      BY DEF NativeInv, TypeOK
    <2>2. CASE priv[o] = None
      <3>1. class[o] # "function"
        BY <2>1, <2>2 DEF NativeInv, PairsSound, ObjectSound
      <3>2. UNCHANGED <<life, handle, twice, spoilt>>
        BY <1>9, <2>2, <3>1 DEF Finalize
      <3>3. QED
        BY <1>2, <3>2
    <2>3. CASE priv[o] # None
      <3>1. PICK n \in Natives : n = priv[o]
        BY <2>1, <2>3
      <3>2. /\ life' = [life EXCEPT ![n] = "deleted"] /\ handle' = [handle EXCEPT ![n] = None]
            /\ n \notin spoilt => life[n] \in {"building", "live"} /\ handle[n] = o
            /\ twice' = (IF life[n] = "deleted" THEN twice \cup {n} ELSE twice) /\ spoilt' = spoilt
        BY <1>9, <3>1, FinalizeFacts, FinalizedTwice
      <3>3. CASE n \in spoilt
        <4>1. life[n] = "deleted" /\ handle[n] = None
          BY <3>3 DEF NativeInv, PairsSound, NativeSound
        <4>2. UNCHANGED <<life, handle, spoilt>> /\ twice' = twice \cup {n}
          BY <1>1, <3>2, <4>1
        <4>3. CASE n \in twice
          BY <1>2, <4>2, <4>3
        <4>4. CASE n \notin twice
          <5>1. OwnerOf(n) = "abandoned" /\ OwnerOf(n)' = "twice"
            BY <3>3, <4>2, <4>4, OwnerIs, OwnerThen
          <5>2. \A m \in Natives : m # n => /\ life'[m] = life[m] /\ handle'[m] = handle[m]
                                            /\ (m \in twice') <=> (m \in twice)
                                            /\ (m \in spoilt') <=> (m \in spoilt)
            BY <4>2
          <5>3. QED
            BY <5>1, <5>2, OneGoes
        <4>5. QED
          BY <4>3, <4>4
      <3>4. CASE n \notin spoilt
        <4>1. life[n] = "building" \/ handle[n] # None
          BY <2>1, <3>2, <3>4, NoneAssumption
        <4>2. OwnerOf(n) \in {"cpp", "script"}
          BY <3>2, <3>4, <4>1, OwnerIs
        <4>3. life'[n] = "deleted" /\ twice' = twice
          BY <1>1, <3>2, <3>4
        <4>4. OwnerOf(n)' = "deleted"
          BY <3>2, <3>4, <4>3, OwnerThen
        <4>5. QED
          BY <1>1, <3>2, <4>2, <4>3, <4>4, OneGoes
      <3>5. QED
        BY <3>3, <3>4
    <2>4. QED
      BY <2>1, <2>2, <2>3
  <1>10. CASE \/ \E o \in Objs, a \in held \cup {None} : CreateNativeObject(o, a)
              \/ ArgsThrow \/ LoadKnown \/ LoadThrows \/ ClassLoaded \/ Unexport
              \/ \E p \in Objs : AddPrototype(p)
              \/ HookReturns \/ Collect \/ TraceThrows \/ DestroyContext
              \/ \E o \in held : Drop(o) \/ AddRoot(o)
              \/ \E o \in rooted : RemoveRoot(o)
              \/ UNCHANGED vars
    <2>1. UNCHANGED <<life, handle, twice, spoilt>>
      BY <1>10 DEF CreateNativeObject, do_create_object, ArgsThrow, LoadKnown, LoadThrows,
           ClassLoaded, Unexport, AddPrototype, HookReturns, Collect, TraceThrows,
           DestroyContext, Closed, Drop, AddRoot, RemoveRoot, vars, bodies
    <2>2. QED
      BY <1>2, <2>1
  <1>11. CASE \/ \E o \in held : property_op(o) \/ new_resolve(o) \/ new_enumerate(o) \/ CallFunction(o)
              \/ \E o, f \in held : call_helper(o, f) \/ CallMember(f, o)
    <2>1. UNCHANGED <<life, handle, twice, spoilt>>
      BY <1>11, HooksAre DEF HookOn, bodies, NativeInv
    <2>2. QED
      BY <1>2, <2>1
  <1>12. CASE \E o \in Objs, n \in Natives : CreateFunction(o, n) \/ LoadClass(o, n)
    BY <1>4, <1>12 DEF CreateFunction, LoadClass
  <1>13. QED
    BY <1>3, <1>5, <1>6, <1>7, <1>8, <1>9, <1>10, <1>11, <1>12 DEF Next

\* Each C++ object is made, handed to script or given up, and deleted once,
\* whatever constructors and class loaders throw; a native function is shared
\* by the C++ code and its parent object while it is made, and one whose
\* creation fails, and no other C++ object, may be deleted a second time
\* (native_function_base.cpp:79-89).
THEOREM ImplementsOwnershipHolds == Spec => ImplementsOwnership
  <1>1. Init => O!Init
    <2>1. Init => \A n \in Natives : OwnerOf(n) = "unborn"
      BY NativeInit, OwnerIs DEF Init
    <2>2. QED
      BY <2>1 DEF O!Init
  <1>2. NativeInv /\ NativeInv' /\ [Next]_vars => [O!Next]_Owner
    BY OwnershipStep
  <1>3. QED
    BY <1>1, <1>2, NativeInvHolds, PTL DEF Spec, ImplementsOwnership, O!Spec, Owner

-----------------------------------------------------------------------------
(* The trees of XmlTree: walks by their pointers. *)

Pointers == [Node -> Node \cup {Nil}]

\* What follows n by the pointers r, n included.
Walk(r, n) ==
  LET at[i \in 0 .. Cardinality(Node)] ==
        IF i = 0 THEN n
        ELSE LET before == at[i - 1] IN IF before = Nil THEN Nil ELSE r[before]
  IN  {at[i] : i \in DOMAIN at} \ {Nil}

Walks(a, r, n, k) ==
  a = [i \in 0 .. k |-> IF i = 0 THEN n ELSE IF a[i - 1] = Nil THEN Nil ELSE r[a[i - 1]]]

\* The places a[0], a[1], ... of the walk, to the k-th.
Goes(a, r, n, k) ==
  /\ a \in [0 .. k -> Node \cup {Nil}] /\ a[0] = n
  /\ \A i \in 0 .. k : i # 0 => a[i] = IF a[i - 1] = Nil THEN Nil ELSE r[a[i - 1]]
  /\ Walk(r, n) = {a[i] : i \in 0 .. k} \ {Nil}

LEMMA NodesCounted == Counts(Cardinality(Node), Node) /\ Cardinality(Node) \in Nat /\ Nil \notin Node
  BY NodeAssumption, FS_CardinalityType DEF Counts

\* A walk visits what it begins with and what its places lead to.
LEMMA WalkGoes ==
  ASSUME NEW r \in Pointers, NEW n \in Node \cup {Nil}, NEW k, k = Cardinality(Node)
  PROVE  \E a : Goes(a, r, n, k)
  <1>1. PICK X, g : X = Node \cup {Nil} /\ g = [x \in X |-> IF x = Nil THEN Nil ELSE r[x]]
    OBVIOUS
  <1>2. k \in Nat
    BY NodesCounted
  <1>3. n \in X /\ g \in [X -> X]
    BY <1>1, NodesCounted DEF Pointers
  <1>4. PICK f : Iterates(f, X, n, g, k)
    BY ONLY <1>2, <1>3, Iteration
  <1>5. f \in [0 .. k -> X] /\ f[0] = n /\ \A i \in 1 .. k : f[i] = g[f[i - 1]]
    BY ONLY <1>4 DEF Iterates
  <1>6. ASSUME NEW i \in 0 .. k
        PROVE  f[i] = IF i = 0 THEN n ELSE IF f[i - 1] = Nil THEN Nil ELSE r[f[i - 1]]
    <2>1. CASE i = 0
      BY <1>5, <2>1
    <2>2. CASE i # 0
      <3>1. i - 1 \in 0 .. k /\ i \in 1 .. k
        BY <1>2, <2>2
      <3>2. PICK y : y = f[i - 1]
        OBVIOUS
      <3>3. y \in X /\ f[i] = g[y]
        BY <1>5, <3>1, <3>2
      <3>4. g[y] = IF y = Nil THEN Nil ELSE r[y]
        BY <1>1, <3>3
      <3>5. QED
        BY ONLY <2>2, <3>2, <3>3, <3>4
    <2>3. QED
      BY <2>1, <2>2
  <1>7. f = [i \in 0 .. k |-> f[i]]
    BY <1>5
  <1>8. Walks(f, r, n, k)
    BY ONLY <1>6, <1>7 DEF Walks
  <1>9. PICK a : a = CHOOSE b : b = [i \in 0 .. k |-> IF i = 0 THEN n
                                      ELSE IF b[i - 1] = Nil THEN Nil ELSE r[b[i - 1]]]
    OBVIOUS
  <1>10. a = [i \in 0 .. k |-> IF i = 0 THEN n ELSE IF a[i - 1] = Nil THEN Nil ELSE r[a[i - 1]]]
    BY ONLY <1>8, <1>9 DEF Walks
  <1>11. Walk(r, n) = {a[i] : i \in DOMAIN a} \ {Nil}
    BY ONLY <1>9, k = Cardinality(Node) DEF Walk
  <1>12. DOMAIN a = 0 .. k /\ \A i \in 0 .. k :
           a[i] = IF i = 0 THEN n ELSE IF a[i - 1] = Nil THEN Nil ELSE r[a[i - 1]]
    BY ONLY <1>10
  <1> DEFINE T == {i \in Nat : i <= k => a[i] \in X}
  <1>13. 0 \in T
    BY ONLY <1>2, <1>3, <1>12
  <1>14. ASSUME NEW i \in T PROVE i + 1 \in T
    <2>1. SUFFICES ASSUME i + 1 <= k PROVE a[i + 1] \in X
      OBVIOUS
    <2>2. i + 1 \in 0 .. k /\ i + 1 # 0 /\ i + 1 - 1 = i /\ a[i] \in X
      BY ONLY <1>2, <1>14, <2>1
    <2>3. a[i + 1] = IF a[i + 1 - 1] = Nil THEN Nil ELSE r[a[i + 1 - 1]]
      BY ONLY <1>12, <2>2
    <2>4. a[i + 1] = IF a[i] = Nil THEN Nil ELSE r[a[i]]
      BY ONLY <2>2, <2>3
    <2>5. QED
      BY ONLY <1>1, <2>2, <2>4, r \in Pointers DEF Pointers
  <1>15. T = Nat
    BY ONLY <1>13, <1>14, SetInduction
  <1>16. \A i \in 0 .. k : a[i] \in X
    <2> SUFFICES ASSUME NEW i \in 0 .. k PROVE a[i] \in X
      OBVIOUS
    <2>1. i \in T /\ i <= k
      BY ONLY <1>2, <1>15, i \in 0 .. k
    <2>2. QED
      BY ONLY <2>1
  <1>17. a = [i \in 0 .. k |-> a[i]]
    BY ONLY <1>10
  <1>18. a \in [0 .. k -> Node \cup {Nil}] /\ 0 \in 0 .. k
    BY ONLY <1>1, <1>2, <1>16, <1>17
  <1>19. Walk(r, n) = {a[i] : i \in 0 .. k} \ {Nil}
    BY ONLY <1>11, <1>12
  <1>20. a[0] = n
    BY ONLY <1>12, <1>18
  <1>21. \A i \in 0 .. k : i # 0 => a[i] = IF a[i - 1] = Nil THEN Nil ELSE r[a[i - 1]]
    BY ONLY <1>12
  <1>22. Goes(a, r, n, k)
    BY ONLY <1>18, <1>19, <1>20, <1>21 DEF Goes
  <1>23. QED
    BY ONLY <1>22

\* It has what it begins with, and is within all that has that and is closed.
LEMMA WalkWithin ==
  ASSUME NEW r \in Pointers, NEW n \in Node \cup {Nil}
  PROVE  /\ Walk(r, n) \in SUBSET Node
         /\ n # Nil => n \in Walk(r, n)
         /\ n = Nil => Walk(r, n) = {}
         /\ \A C : n \in C \cup {Nil} /\ (\A b \in C : r[b] \in C \cup {Nil}) => Walk(r, n) \subseteq C
  <1>1. PICK k : k = Cardinality(Node)
    OBVIOUS
  <1>2. PICK a : Goes(a, r, n, k)
    BY ONLY <1>1, r \in Pointers, n \in Node \cup {Nil}, WalkGoes
  <1>3. k \in Nat /\ 0 \in 0 .. k
    BY <1>1, NodesCounted
  <1>4. ASSUME NEW C, n \in C \cup {Nil}, \A b \in C : r[b] \in C \cup {Nil}
        PROVE  Walk(r, n) \subseteq C
    <2> DEFINE T == {i \in Nat : i <= k => a[i] \in C \cup {Nil}}
    <2>1. 0 \in T
      BY <1>2, <1>4 DEF Goes
    <2>2. ASSUME NEW i \in T PROVE i + 1 \in T
      <3>1. SUFFICES ASSUME i + 1 <= k PROVE a[i + 1] \in C \cup {Nil}
        OBVIOUS
      <3>2. i + 1 \in 0 .. k /\ i + 1 # 0 /\ i + 1 - 1 = i /\ a[i] \in C \cup {Nil}
        BY ONLY <1>3, <2>2, <3>1
      <3>3. a[i + 1] = IF a[i + 1 - 1] = Nil THEN Nil ELSE r[a[i + 1 - 1]]
        BY ONLY <1>2, <3>2 DEF Goes
      <3>4. a[i + 1] = IF a[i] = Nil THEN Nil ELSE r[a[i]]
        BY ONLY <3>2, <3>3
      <3>5. QED
        BY ONLY <1>4, <3>2, <3>4
    <2>3. T = Nat
      BY ONLY <2>1, <2>2, SetInduction
    <2>4. ASSUME NEW i \in 0 .. k PROVE a[i] \in C \cup {Nil}
      <3>1. i \in T /\ i <= k
        BY ONLY <1>3, <2>3, i \in 0 .. k
      <3>2. QED
        BY ONLY <3>1
    <2>5. QED
      BY ONLY <1>2, <2>4 DEF Goes
  <1>5. n = Nil => Walk(r, n) = {}
    <2>1. PICK C : C = {}
      OBVIOUS
    <2>2. n = Nil => n \in C \cup {Nil} /\ \A b \in C : r[b] \in C \cup {Nil}
      BY <2>1
    <2>3. n = Nil => Walk(r, n) \subseteq C
      BY ONLY <1>4, <2>2
    <2>4. QED
      BY ONLY <2>1, <2>3
  <1>6. Walk(r, n) \in SUBSET Node
    BY ONLY <1>2 DEF Goes
  <1>7. n # Nil => n \in Walk(r, n)
    BY ONLY <1>2, <1>3 DEF Goes
  <1>8. QED
    BY ONLY <1>4, <1>5, <1>6, <1>7

\* Where two are alike on a walk of one, it is also one of the other.
LEMMA WalkSame ==
  ASSUME NEW r \in Pointers, NEW s \in Pointers, NEW n \in Node \cup {Nil},
         \A x \in Walk(r, n) : s[x] = r[x]
  PROVE  Walk(s, n) = Walk(r, n)
  <1>1. PICK k : k = Cardinality(Node)
    OBVIOUS
  <1>2. PICK a : Goes(a, r, n, k)
    BY ONLY <1>1, r \in Pointers, n \in Node \cup {Nil}, WalkGoes
  <1>3. PICK b : Goes(b, s, n, k)
    BY ONLY <1>1, s \in Pointers, n \in Node \cup {Nil}, WalkGoes
  <1>4. k \in Nat /\ 0 \in 0 .. k
    BY <1>1, NodesCounted
  <1> DEFINE T == {i \in Nat : i <= k => b[i] = a[i]}
  <1>5. 0 \in T
    BY ONLY <1>2, <1>3 DEF Goes
  <1>6. ASSUME NEW i \in T PROVE i + 1 \in T
    <2>1. SUFFICES ASSUME i + 1 <= k PROVE b[i + 1] = a[i + 1]
      OBVIOUS
    <2>2. i + 1 \in 0 .. k /\ i + 1 # 0 /\ i + 1 - 1 = i /\ b[i] = a[i] /\ i \in 0 .. k
      BY ONLY <1>4, <1>6, <2>1
    <2>3. /\ a[i + 1] = IF a[i + 1 - 1] = Nil THEN Nil ELSE r[a[i + 1 - 1]]
          /\ b[i + 1] = IF b[i + 1 - 1] = Nil THEN Nil ELSE s[b[i + 1 - 1]]
      BY ONLY <1>2, <1>3, <2>2 DEF Goes
    <2>4. a[i] # Nil => s[a[i]] = r[a[i]]
      BY ONLY <1>2, <2>2, \A x \in Walk(r, n) : s[x] = r[x] DEF Goes
    <2>5. QED
      BY ONLY <2>2, <2>3, <2>4
  <1>7. T = Nat
    BY ONLY <1>5, <1>6, SetInduction
  <1>8. \A i \in 0 .. k : b[i] = a[i]
    <2> SUFFICES ASSUME NEW i \in 0 .. k PROVE b[i] = a[i]
      OBVIOUS
    <2>1. i \in T /\ i <= k
      BY ONLY <1>4, <1>7, i \in 0 .. k
    <2>2. QED
      BY ONLY <2>1
  <1>9. QED
    BY ONLY <1>2, <1>3, <1>8 DEF Goes

\* Nothing follows itself: the nodes have numbers that grow along r.
Numbers(f, r, k) == f \in [Node -> 0 .. k] /\ \A n \in Node : r[n] # Nil => f[n] < f[r[n]]
Ranked(r) == \E k \in Nat : \E f : Numbers(f, r, k)

\* A walk by ranked pointers comes to an end.
LEMMA WalkCloses ==
  ASSUME NEW r \in Pointers, Ranked(r), NEW n \in Node \cup {Nil}
  PROVE  \A x \in Walk(r, n) : r[x] \in Walk(r, n) \cup {Nil}
  <1>1. PICK m \in Nat : \E f : Numbers(f, r, m)
    BY DEF Ranked
  <1>2. PICK f : Numbers(f, r, m)
    BY <1>1
  <1>3. f \in [Node -> 0 .. m] /\ \A x \in Node : r[x] # Nil => f[x] < f[r[x]]
    BY ONLY <1>2 DEF Numbers
  <1>4. PICK k : k = Cardinality(Node)
    OBVIOUS
  <1>5. k \in Nat /\ Nil \notin Node
    BY <1>4, NodesCounted
  <1>6. PICK a : Goes(a, r, n, k)
    BY ONLY <1>4, r \in Pointers, n \in Node \cup {Nil}, WalkGoes
  <1>7. a \in [0 .. k -> Node \cup {Nil}]
        /\ \A i \in 0 .. k : i # 0 => a[i] = IF a[i - 1] = Nil THEN Nil ELSE r[a[i - 1]]
    BY ONLY <1>6 DEF Goes
  \* Up to its end it goes to larger and larger numbers.
  <1> DEFINE T == {j \in Nat : \A i \in 0 .. k : i < j /\ j <= k /\ a[j] # Nil => a[i] # Nil /\ f[a[i]] < f[a[j]]}
  <1>8. 0 \in T
    OBVIOUS
  <1>9. ASSUME NEW j \in T PROVE j + 1 \in T
    <2>1. SUFFICES ASSUME NEW i \in 0 .. k, i < j + 1, j + 1 <= k, a[j + 1] # Nil
                   PROVE  a[i] # Nil /\ f[a[i]] < f[a[j + 1]]
      OBVIOUS
    <2>2. j \in Nat /\ j + 1 \in 0 .. k /\ j + 1 # 0 /\ j + 1 - 1 = j /\ j \in 0 .. k /\ j <= k
      BY ONLY <1>5, <1>9, <2>1
    <2>3. a[j + 1] = IF a[j + 1 - 1] = Nil THEN Nil ELSE r[a[j + 1 - 1]]
      BY ONLY <1>7, <2>2
    <2>4. a[j] # Nil /\ a[j + 1] = r[a[j]] /\ a[j] \in Node /\ a[j + 1] \in Node
      BY ONLY <1>7, <2>1, <2>2, <2>3
    <2>5. f[a[j]] < f[a[j + 1]]
      BY ONLY <1>3, <2>1, <2>4
    <2>6. CASE i = j
      BY ONLY <2>4, <2>5, <2>6
    <2>7. CASE i < j
      <3>1. a[i] # Nil /\ f[a[i]] < f[a[j]]
        BY ONLY <1>9, <2>1, <2>2, <2>4, <2>7
      <3>2. a[i] \in Node
        BY ONLY <1>7, <2>1, <3>1
      <3>3. f[a[i]] \in Nat /\ f[a[j]] \in Nat /\ f[a[j + 1]] \in Nat
        BY ONLY <1>1, <1>3, <2>4, <3>2
      <3>4. QED
        BY ONLY <2>5, <3>1, <3>3
    <2>8. QED
      BY ONLY <1>5, <2>1, <2>2, <2>6, <2>7
  <1>10. T = Nat
    BY ONLY <1>8, <1>9, SetInduction
  <1>11. ASSUME NEW i \in 0 .. k, NEW j \in 0 .. k, i < j, a[j] # Nil
         PROVE  a[i] # Nil /\ f[a[i]] < f[a[j]]
    <2>1. j \in T /\ j <= k
      BY ONLY <1>5, <1>10, j \in 0 .. k
    <2>2. QED
      BY ONLY <1>11, <2>1
  <1> HIDE DEF T
  \* There are not enough nodes for it to go on for so long.
  <1>12. a[k] = Nil
    <2>1. SUFFICES ASSUME a[k] # Nil PROVE FALSE
      OBVIOUS
    <2>2. k \in 0 .. k
      BY <1>5
    <2>3. \A i \in 0 .. k : a[i] # Nil
      <3>1. ASSUME NEW i \in 0 .. k PROVE a[i] # Nil
        <4>1. CASE i = k
          BY <2>1, <4>1
        <4>2. CASE i < k
          BY <1>11, <2>1, <2>2, <4>2
        <4>3. QED
          BY <1>5, <4>1, <4>2
      <3>2. QED
        BY <3>1
    <2>4. a \in [0 .. k -> Node]
      BY <1>7, <2>3
    <2>5. ASSUME NEW i \in 0 .. k, NEW j \in 0 .. k, a[i] = a[j] PROVE i = j
      <3>1. a[i] # Nil /\ a[j] # Nil /\ f[a[i]] \in Nat
        BY <1>1, <1>3, <2>3, <2>4
      <3>2. ~(i < j) /\ ~(j < i)
        BY <1>11, <2>5, <3>1
      <3>3. QED
        BY <1>5, <3>2
    <2>6. a \in Injection(0 .. k, Node)
      BY <2>4, <2>5 DEF Injection, IsInjective
    <2>7. IsFiniteSet(0 .. k) /\ Cardinality(0 .. k) = k + 1
      BY <1>5, FS_Interval
    <2>8. IsFiniteSet(Node)
      BY NodeAssumption
    <2>9. Cardinality(0 .. k) <= Cardinality(Node)
      BY <2>6, <2>7, <2>8, FS_Injection
    <2>10. QED
      BY <1>4, <1>5, <2>7, <2>9
  <1>13. ASSUME NEW x \in Walk(r, n) PROVE r[x] \in Walk(r, n) \cup {Nil}
    <2>1. PICK i \in 0 .. k : x = a[i] /\ x # Nil
      BY ONLY <1>6, <1>13 DEF Goes
    <2>2. i # k
      BY <1>12, <2>1
    <2>3. i + 1 \in 0 .. k /\ i + 1 # 0 /\ i + 1 - 1 = i
      BY <1>5, <2>2
    <2>4. a[i + 1] = IF a[i + 1 - 1] = Nil THEN Nil ELSE r[a[i + 1 - 1]]
      BY ONLY <1>7, <2>3
    <2>5. a[i + 1] = r[x]
      BY ONLY <2>1, <2>3, <2>4
    <2>6. QED
      BY ONLY <1>6, <2>3, <2>5 DEF Goes
  <1>14. QED
    BY ONLY <1>13

\* A walk goes on with the walk from what is next, which does not come back.
LEMMA WalkGoesOn ==
  ASSUME NEW r \in Pointers, Ranked(r), NEW n \in Node
  PROVE  /\ Walk(r, n) = {n} \cup Walk(r, r[n])
         /\ n \notin Walk(r, r[n])
         /\ Walk(r, r[n]) \in SUBSET Node
         /\ \A x \in Walk(r, n) : Walk(r, x) \subseteq Walk(r, n)
  <1>1. r[n] \in Node \cup {Nil} /\ n # Nil
    BY NodesCounted DEF Pointers
  <1>2. PICK K, N : K = Walk(r, n) /\ N = Walk(r, r[n])
    OBVIOUS
  <1>3. K \in SUBSET Node /\ n \in K /\ \A x \in K : r[x] \in K \cup {Nil}
    BY <1>1, <1>2, WalkWithin, WalkCloses
  <1>4. N \in SUBSET Node /\ r[n] \in N \cup {Nil} /\ \A x \in N : r[x] \in N \cup {Nil}
    BY <1>1, <1>2, WalkWithin, WalkCloses
  <1>5. N \subseteq K
    BY <1>1, <1>2, <1>3, WalkWithin
  <1>6. K \subseteq {n} \cup N
    <2>1. PICK C : C = {n} \cup N
      OBVIOUS
    <2>2. n \in C \cup {Nil} /\ \A x \in C : r[x] \in C \cup {Nil}
      BY <1>4, <2>1
    <2>3. K \subseteq C
      BY <1>2, <2>2, WalkWithin
    <2>4. QED
      BY <2>1, <2>3
  <1>7. n \notin N
    <2>1. PICK m \in Nat : \E f : Numbers(f, r, m)
      BY DEF Ranked
    <2>2. PICK f : Numbers(f, r, m)
      BY <2>1
    <2>3. f \in [Node -> 0 .. m] /\ \A x \in Node : r[x] # Nil => f[x] < f[r[x]]
      BY ONLY <2>2 DEF Numbers
    <2>4. \A x \in Node : f[x] \in Int
      BY ONLY <2>1, <2>3
    <2>5. PICK C : C = {x \in Node : f[n] < f[x]}
      OBVIOUS
    <2>6. r[n] \in C \cup {Nil}
      BY <1>1, <2>3, <2>5
    <2>7. ASSUME NEW x \in C PROVE r[x] \in C \cup {Nil}
      <3>1. x \in Node /\ r[x] \in Node \cup {Nil} /\ f[n] < f[x]
        BY <2>5 DEF Pointers
      <3>2. CASE r[x] = Nil
        BY <3>2
      <3>3. CASE r[x] # Nil
        <4>1. f[x] < f[r[x]] /\ r[x] \in Node
          BY <2>3, <3>1, <3>3
        <4>2. QED
          BY <2>4, <2>5, <3>1, <4>1
      <3>4. QED
        BY <3>2, <3>3
    <2>8. N \subseteq C
      BY <1>1, <1>2, <2>6, <2>7, WalkWithin
    <2>9. n \notin C
      BY <2>4, <2>5
    <2>10. QED
      BY <2>8, <2>9
  <1>8. ASSUME NEW x \in K PROVE Walk(r, x) \subseteq K
    BY <1>3, WalkWithin
  <1>9. QED
    BY <1>2, <1>4, <1>5, <1>3, <1>6, <1>7, <1>8

\* Where a walk ends.
IsEnd(r, n, z) ==
  /\ z \in Walk(r, n) /\ r[z] = Nil
  /\ \A x \in Walk(r, n) : z \in Walk(r, x) /\ (r[x] = Nil => x = z)

LEMMA WalkEnds ==
  ASSUME NEW r \in Pointers, Ranked(r), NEW n \in Node
  PROVE  \E z \in Node : IsEnd(r, n, z)
  <1>1. PICK K : K = Walk(r, n)
    OBVIOUS
  <1>2. K \in SUBSET Node /\ n \in K /\ \A x \in K : r[x] \in K \cup {Nil}
    BY <1>1, NodesCounted, WalkWithin, WalkCloses
  <1>3. \E z \in K : r[z] = Nil
    <2>1. SUFFICES ASSUME \A z \in K : r[z] # Nil PROVE FALSE
      OBVIOUS
    <2>2. PICK m \in Nat : \E f : Numbers(f, r, m)
      BY DEF Ranked
    <2>3. PICK f : Numbers(f, r, m)
      BY <2>2
    <2>4. f \in [Node -> 0 .. m] /\ \A x \in Node : r[x] # Nil => f[x] < f[r[x]]
      BY ONLY <2>3 DEF Numbers
    <2>5. PICK U : U = {m - f[x] : x \in K}
      OBVIOUS
    <2>6. U \in SUBSET Nat /\ U # {}
      <3>1. \A x \in K : m - f[x] \in Nat
        BY <1>2, <2>2, <2>4
      <3>2. QED
        BY <1>2, <2>5, <3>1
    <2>7. PICK u \in U : \A v \in U : u <= v
      BY <2>6, LeastNumber
    <2>8. PICK x \in K : u = m - f[x]
      BY <2>5, <2>7
    <2>9. x \in Node /\ r[x] \in K /\ r[x] \in Node /\ f[x] < f[r[x]]
      BY <1>2, <2>1, <2>4, <2>8
    <2>10. u <= m - f[r[x]]
      BY <2>5, <2>7, <2>9
    <2>11. f[x] \in Int /\ f[r[x]] \in Int
      BY <2>2, <2>4, <2>9
    <2>12. QED
      BY <2>2, <2>8, <2>9, <2>10, <2>11
  <1>4. PICK z \in K : r[z] = Nil
    BY <1>3
  <1>5. \A x \in K : z \in Walk(r, x)
    <2>1. PICK C : C = {x \in K : z \in Walk(r, x)}
      OBVIOUS
    <2>2. n \in C \cup {Nil}
      BY <1>1, <1>2, <2>1
    <2>3. ASSUME NEW x \in C, r[x] # Nil PROVE r[x] \in C
      <3>1. x \in Node /\ x # z /\ z \in Walk(r, x) /\ r[x] \in K
        BY <1>2, <1>4, <2>1, <2>3
      <3>2. Walk(r, x) = {x} \cup Walk(r, r[x])
        BY <3>1, WalkGoesOn
      <3>3. QED
        BY <2>1, <3>1, <3>2
    <2>4. \A x \in C : r[x] \in C \cup {Nil}
      BY <2>3
    <2>5. K \subseteq C
      BY <1>1, <2>2, <2>4, WalkWithin
    <2>6. QED
      BY <2>1, <2>5
  <1>6. ASSUME NEW x \in K, r[x] = Nil PROVE x = z
    <2>1. x \in Node
      BY <1>2
    <2>2. Walk(r, x) = {x} \cup Walk(r, r[x])
      BY <2>1, WalkGoesOn
    <2>3. Walk(r, Nil) = {}
      BY WalkWithin
    <2>4. QED
      BY <1>5, <1>6, <2>2, <2>3
  <1>7. IsEnd(r, n, z)
    BY <1>1, <1>4, <1>5, <1>6 DEF IsEnd
  <1>8. QED
    BY <1>2, <1>4, <1>7

\* What goes where r goes, or one place further, or nowhere, is ranked.
LEMMA RankedSkip ==
  ASSUME NEW r \in Pointers, Ranked(r), NEW s \in Pointers,
         \A n \in Node : s[n] = Nil \/ s[n] = r[n] \/ (r[n] # Nil /\ s[n] = r[r[n]])
  PROVE  Ranked(s)
  <1>1. PICK m \in Nat : \E f : Numbers(f, r, m)
    BY DEF Ranked
  <1>2. PICK f : Numbers(f, r, m)
    BY <1>1
  <1>3. f \in [Node -> 0 .. m] /\ \A x \in Node : r[x] # Nil => f[x] < f[r[x]]
    BY ONLY <1>2 DEF Numbers
  <1>4. \A x \in Node : f[x] \in Int
    BY ONLY <1>1, <1>3
  <1>5. ASSUME NEW n \in Node, s[n] # Nil PROVE f[n] < f[s[n]]
    <2>1. r[n] \in Node \cup {Nil} /\ s[n] \in Node
      BY <1>5 DEF Pointers
    <2>2. CASE s[n] = r[n]
      BY <1>3, <1>5, <2>2
    <2>3. CASE r[n] # Nil /\ s[n] = r[r[n]]
      <3>1. PICK x \in Node : x = r[n]
        BY <2>1, <2>3
      <3>2. f[n] < f[x] /\ f[x] < f[s[n]]
        BY <1>3, <1>5, <2>3, <3>1
      <3>3. QED
        BY <1>4, <2>1, <3>2
    <2>4. QED
      BY <1>5, <2>2, <2>3
  <1>6. Numbers(f, s, m)
    BY <1>3, <1>5 DEF Numbers
  <1>7. QED
    BY <1>1, <1>6 DEF Ranked

\* What goes where r goes, but that some go into U, which r does not leave,
\* is ranked.
LEMMA RankedUp ==
  ASSUME NEW r \in Pointers, Ranked(r), NEW s \in Pointers, NEW U,
         \A n \in Node : \/ s[n] = Nil
                         \/ s[n] = r[n] /\ (n \in U => s[n] \in U)
                         \/ n \notin U /\ s[n] \in U
  PROVE  Ranked(s)
  <1>1. PICK m \in Nat : \E f : Numbers(f, r, m)
    BY DEF Ranked
  <1>2. PICK f : Numbers(f, r, m)
    BY <1>1
  <1>3. f \in [Node -> 0 .. m] /\ \A x \in Node : r[x] # Nil => f[x] < f[r[x]]
    BY ONLY <1>2 DEF Numbers
  <1>4. \A x \in Node : f[x] \in Int /\ 0 <= f[x] /\ f[x] <= m
    BY ONLY <1>1, <1>3
  <1>5. PICK g : g = [x \in Node |-> IF x \in U THEN f[x] + m + 1 ELSE f[x]]
    OBVIOUS
  <1>6. g \in [Node -> 0 .. 2 * m + 1]
    BY <1>1, <1>4, <1>5
  <1>7. ASSUME NEW n \in Node, s[n] # Nil PROVE g[n] < g[s[n]]
    <2>1. PICK x \in Node : x = s[n]
      BY <1>7 DEF Pointers
    <2>2. g[n] = (IF n \in U THEN f[n] + m + 1 ELSE f[n]) /\ g[x] = (IF x \in U THEN f[x] + m + 1 ELSE f[x])
      BY <1>5
    <2>3. CASE n \notin U /\ x \in U
      BY <1>1, <1>4, <2>1, <2>2, <2>3
    <2>4. CASE x = r[n] /\ (n \in U => x \in U)
      <3>1. f[n] < f[x]
        BY <1>3, <1>7, <2>1, <2>4
      <3>2. QED
        BY <1>1, <1>4, <2>1, <2>2, <2>4, <3>1
    <2>5. QED
      BY <1>7, <2>1, <2>3, <2>4
  <1>8. 2 * m + 1 \in Nat
    BY <1>1
  <1>9. Numbers(g, s, 2 * m + 1)
    BY <1>6, <1>7 DEF Numbers
  <1>10. QED
    BY <1>8, <1>9 DEF Ranked

\* So is what goes as r does, with n, to which r does not lead, in the
\* place of o.
LEMMA RankedReplace ==
  ASSUME NEW r \in Pointers, Ranked(r), NEW s \in Pointers, NEW n \in Node, NEW o \in Node, n # o,
         s[n] \in {Nil, r[o]}, r[o] # n,
         \A x \in Node \ {n} : s[x] = Nil \/ (s[x] = r[x] /\ r[x] # n) \/ (s[x] = n /\ r[x] = o)
  PROVE  Ranked(s)
  <1>1. PICK m \in Nat : \E f : Numbers(f, r, m)
    BY DEF Ranked
  <1>2. PICK f : Numbers(f, r, m)
    BY <1>1
  <1>3. f \in [Node -> 0 .. m] /\ \A x \in Node : r[x] # Nil => f[x] < f[r[x]]
    BY ONLY <1>2 DEF Numbers
  <1>4. PICK g : g = [x \in Node |-> IF x = n THEN f[o] ELSE f[x]]
    OBVIOUS
  <1>5. g \in [Node -> 0 .. m]
    BY <1>3, <1>4
  <1>6. ASSUME NEW x \in Node, s[x] # Nil PROVE g[x] < g[s[x]]
    <2>1. PICK y \in Node : y = s[x]
      BY <1>6 DEF Pointers
    <2>2. CASE x = n
      <3>1. y = r[o] /\ y # n
        BY <1>6, <2>1, <2>2
      <3>2. f[o] < f[y]
        BY <1>3, <1>6, <2>1, <3>1
      <3>3. QED
        BY <1>4, <2>1, <2>2, <3>1, <3>2
    <2>3. CASE x # n /\ y = r[x] /\ y # n
      <3>1. f[x] < f[y]
        BY <1>3, <1>6, <2>1, <2>3
      <3>2. QED
        BY <1>4, <2>1, <2>3, <3>1
    <2>4. CASE x # n /\ y = n /\ r[x] = o
      <3>1. f[x] < f[o]
        BY <1>3, <2>4, NodesCounted
      <3>2. QED
        BY <1>4, <2>1, <2>4, <3>1
    <2>5. QED
      BY <1>6, <2>1, <2>2, <2>3, <2>4
  <1>7. Numbers(g, s, m)
    BY <1>5, <1>6 DEF Numbers
  <1>8. QED
    BY <1>1, <1>7 DEF Ranked

\* So is what goes back where r goes.
LEMMA RankedBack ==
  ASSUME NEW r \in Pointers, Ranked(r), NEW s \in Pointers,
         \A n \in Node : s[n] # Nil => r[s[n]] = n
  PROVE  Ranked(s)
  <1>1. PICK m \in Nat : \E f : Numbers(f, r, m)
    BY DEF Ranked
  <1>2. PICK f : Numbers(f, r, m)
    BY <1>1
  <1>3. f \in [Node -> 0 .. m] /\ \A x \in Node : r[x] # Nil => f[x] < f[r[x]]
    BY ONLY <1>2 DEF Numbers
  <1>4. PICK g : g = [x \in Node |-> m - f[x]]
    OBVIOUS
  <1>5. \A x \in Node : f[x] \in Int /\ 0 <= f[x] /\ f[x] <= m
    BY ONLY <1>1, <1>3
  <1>6. g \in [Node -> 0 .. m]
    BY <1>1, <1>4, <1>5
  <1>7. ASSUME NEW n \in Node, s[n] # Nil PROVE g[n] < g[s[n]]
    <2>1. PICK x \in Node : x = s[n]
      BY <1>7 DEF Pointers
    <2>2. r[x] = n /\ n # Nil
      BY <1>7, <2>1, NodesCounted
    <2>3. f[x] < f[n]
      BY <1>3, <2>1, <2>2
    <2>4. QED
      BY <1>1, <1>4, <1>5, <2>1, <2>3
  <1>8. Numbers(g, s, m)
    BY <1>6, <1>7 DEF Numbers
  <1>9. QED
    BY <1>1, <1>8 DEF Ranked

\* So is what goes among copies as r goes among what they are of.
GoesAlike(r, s, I, from) ==
  /\ \A c \in I : from[c] \in Node
  /\ \A x \in Node \ I : s[x] = r[x] /\ s[x] \notin I
  /\ \A c \in I : s[c] # Nil => s[c] \in I /\ from[s[c]] = r[from[c]]

LEMMA RankedCopy ==
  ASSUME NEW r \in Pointers, Ranked(r), NEW s \in Pointers, NEW I, NEW from, GoesAlike(r, s, I, from)
  PROVE  Ranked(s)
  <1>1. PICK m \in Nat : \E f : Numbers(f, r, m)
    BY DEF Ranked
  <1>2. PICK f : Numbers(f, r, m)
    BY <1>1
  <1>3. f \in [Node -> 0 .. m] /\ \A x \in Node : r[x] # Nil => f[x] < f[r[x]]
    BY ONLY <1>2 DEF Numbers
  <1>4. PICK g : g = [x \in Node |-> IF x \in I THEN f[from[x]] ELSE f[x]]
    OBVIOUS
  <1>5. g \in [Node -> 0 .. m]
    BY <1>3, <1>4 DEF GoesAlike
  <1>6. ASSUME NEW x \in Node, s[x] # Nil PROVE g[x] < g[s[x]]
    <2>1. PICK y \in Node : y = s[x]
      BY <1>6 DEF Pointers
    <2>2. CASE x \in I
      <3>1. y \in I /\ from[y] = r[from[x]] /\ from[x] \in Node /\ from[y] \in Node
        BY <1>6, <2>1, <2>2 DEF GoesAlike
      <3>2. f[from[x]] < f[from[y]]
        BY <1>3, <3>1, NodesCounted
      <3>3. QED
        BY <1>4, <2>1, <2>2, <3>1, <3>2
    <2>3. CASE x \notin I
      <3>1. y = r[x] /\ y \notin I
        BY <2>1, <2>3 DEF GoesAlike
      <3>2. f[x] < f[y]
        BY <1>3, <1>6, <2>1, <3>1
      <3>3. QED
        BY <1>4, <2>1, <2>3, <3>1, <3>2
    <2>4. QED
      BY <2>2, <2>3
  <1>7. Numbers(g, s, m)
    BY <1>5, <1>6 DEF Numbers
  <1>8. QED
    BY <1>1, <1>7 DEF Ranked

\* The pointers of a forest: next and prev lead to neighbours and back, which
\* have one parent and one document; first and last child and parent agree;
\* documents have no parent; the nodes are those of S, the documents of R.
Sided(next, prev, parent, doc) ==
  \A n \in Node :
    /\ next[n] # Nil => prev[next[n]] = n /\ parent[next[n]] = parent[n] /\ doc[next[n]] = doc[n]
    /\ prev[n] # Nil => next[prev[n]] = n /\ parent[prev[n]] = parent[n] /\ doc[prev[n]] = doc[n]

Headed(next, prev, parent, children, last, doc) ==
  \A n \in Node :
    /\ children[n] # Nil => parent[children[n]] = n /\ prev[children[n]] = Nil
    /\ last[n] # Nil => parent[last[n]] = n /\ next[last[n]] = Nil
    /\ parent[n] # Nil =>
         /\ doc[parent[n]] = doc[n]
         /\ prev[n] = Nil => children[parent[n]] = n
         /\ next[n] = Nil => last[parent[n]] = n

Rooted(next, prev, parent, doc, S) ==
  \A d \in Document : /\ next[d] = Nil /\ prev[d] = Nil /\ parent[d] = Nil
                      /\ d \in S => doc[d] = d

Within(next, prev, parent, children, last, doc, S, R) ==
  /\ \A n \in Node :
       /\ next[n] \in S \cup {Nil} /\ prev[n] \in S \cup {Nil} /\ parent[n] \in S \cup {Nil}
       /\ children[n] \in S \cup {Nil} /\ last[n] \in S \cup {Nil} /\ doc[n] \in R \cup {Nil}
  /\ \A n \in Node \ S :
       /\ next[n] = Nil /\ prev[n] = Nil /\ parent[n] = Nil
       /\ children[n] = Nil /\ last[n] = Nil /\ doc[n] = Nil

Fit(next, prev, parent, children, last, doc, S, R) ==
  /\ next \in Pointers /\ prev \in Pointers /\ parent \in Pointers
  /\ children \in Pointers /\ last \in Pointers /\ doc \in Pointers
  /\ Ranked(next) /\ Ranked(prev) /\ Ranked(parent)
  /\ Sided(next, prev, parent, doc)
  /\ Headed(next, prev, parent, children, last, doc)
  /\ Rooted(next, prev, parent, doc, S)
  /\ Within(next, prev, parent, children, last, doc, S, R)

\* Seen from the other side a forest is one too.
LEMMA Mirrored ==
  ASSUME NEW nx, NEW pv, NEW pa, NEW ch, NEW la, NEW do, NEW S, NEW R, Fit(nx, pv, pa, ch, la, do, S, R)
  PROVE  Fit(pv, nx, pa, la, ch, do, S, R)
  <1>1. Sided(pv, nx, pa, do)
    BY DEF Fit, Sided
  <1>2. Headed(pv, nx, pa, la, ch, do)
    BY DEF Fit, Headed
  <1>3. Rooted(pv, nx, pa, do, S)
    BY DEF Fit, Rooted
  <1>4. Within(pv, nx, pa, la, ch, do, S, R)
    BY DEF Fit, Within
  <1>5. QED
    BY <1>1, <1>2, <1>3, <1>4 DEF Fit

\* What L, the list from m on, is.
Follows(nx, pv, pa, do, m, L, S) ==
  /\ L \in SUBSET Node /\ m \in L /\ (m \in S => L \subseteq S)
  /\ \A x \in L : nx[x] \in L \cup {Nil} /\ pa[x] = pa[m] /\ do[x] = do[m]
  /\ \A x \in L : x # m => pv[x] \in L
  /\ pv[m] \notin L
  /\ \A y \in Node : nx[y] \in L => y \in L \/ y = pv[m]
  /\ m \notin Document => L \cap Document = {}

LEMMA ListIs ==
  ASSUME NEW nx, NEW pv, NEW pa, NEW ch, NEW la, NEW do, NEW S, NEW R, Fit(nx, pv, pa, ch, la, do, S, R),
         NEW m \in Node
  PROVE  Follows(nx, pv, pa, do, m, Walk(nx, m), S)
  <1>1. PICK L : L = Walk(nx, m)
    OBVIOUS
  <1>2. nx \in Pointers /\ Ranked(nx) /\ m # Nil /\ Nil \notin Node
    BY NodesCounted DEF Fit
  <1>3. L \in SUBSET Node /\ m \in L /\ \A x \in L : nx[x] \in L \cup {Nil}
    BY <1>1, <1>2, WalkWithin, WalkCloses
  <1>4. \A C : m \in C \cup {Nil} /\ (\A b \in C : nx[b] \in C \cup {Nil}) => L \subseteq C
    BY <1>1, <1>2, WalkWithin
  <1>5. \A n \in Node : nx[n] # Nil => pv[nx[n]] = n /\ pa[nx[n]] = pa[n] /\ do[nx[n]] = do[n]
    BY DEF Fit, Sided
  <1>6. \A n \in Node : pv[n] # Nil => nx[pv[n]] = n
    BY DEF Fit, Sided
  <1>7. m \in S => L \subseteq S
    <2>1. PICK C : C = {x \in L : x \in S}
      OBVIOUS
    <2>2. \A x \in C : nx[x] \in C \cup {Nil}
      BY <1>3, <2>1 DEF Fit, Within
    <2>3. m \in S => L \subseteq C
      BY ONLY <1>3, <1>4, <2>1, <2>2
    <2>4. QED
      BY <2>1, <2>3
  <1>8. \A x \in L : pa[x] = pa[m] /\ do[x] = do[m]
    <2>1. PICK C : C = {x \in L : pa[x] = pa[m] /\ do[x] = do[m]}
      OBVIOUS
    <2>2. \A x \in C : nx[x] \in C \cup {Nil}
      BY <1>3, <1>5, <2>1
    <2>3. L \subseteq C
      BY <1>3, <1>4, <2>1, <2>2
    <2>4. QED
      BY <2>1, <2>3
  <1>9. \A x \in L : x # m => pv[x] \in L
    <2>1. PICK C : C = {x \in L : x # m => pv[x] \in L}
      OBVIOUS
    <2>2. \A x \in C : nx[x] \in C \cup {Nil}
      BY <1>3, <1>5, <2>1
    <2>3. L \subseteq C
      BY <1>3, <1>4, <2>1, <2>2
    <2>4. QED
      BY <2>1, <2>3
  <1>10. pv[m] \notin L
    <2>1. SUFFICES ASSUME pv[m] \in L PROVE FALSE
      OBVIOUS
    <2>2. PICK b \in Node : b = pv[m] /\ b # Nil
      BY <1>2, <1>3, <2>1
    <2>3. nx[b] = m
      BY <1>6, <2>2
    <2>4. b \notin Walk(nx, nx[b])
      BY <1>2, WalkGoesOn
    <2>5. QED
      BY <1>1, <2>1, <2>2, <2>3, <2>4
  <1>11. \A y \in Node : nx[y] \in L => y \in L \/ y = pv[m]
    BY <1>2, <1>3, <1>5, <1>9
  <1>12. m \notin Document => L \cap Document = {}
    <2>1. \A x \in L : x # m => pv[x] # Nil
      BY <1>2, <1>3, <1>9
    <2>2. \A d \in Document : pv[d] = Nil
      BY DEF Fit, Rooted
    <2>3. QED
      BY <2>1, <2>2
  <1>13. QED
    BY ONLY <1>1, <1>3, <1>7, <1>8, <1>9, <1>10, <1>11, <1>12 DEF Follows

\* What B, the nodes of L and below, is.
Hangs(pa, L, B, S) ==
  /\ L \subseteq B /\ B \in SUBSET Node
  /\ \A x \in Node : x \in B <=> x \in L \/ (pa[x] # Nil /\ pa[x] \in B)
  /\ L \cap Document = {} => B \cap Document = {}
  /\ L \subseteq S => B \subseteq S

LowerBy(pa, L) == {n \in Node : Walk(pa, n) \cap L # {}}

LEMMA LowerIs ==
  ASSUME NEW nx, NEW pv, NEW pa, NEW ch, NEW la, NEW do, NEW S, NEW R, Fit(nx, pv, pa, ch, la, do, S, R),
         NEW L \in SUBSET Node
  PROVE  Hangs(pa, L, LowerBy(pa, L), S)
  <1>1. PICK B : B = LowerBy(pa, L)
    OBVIOUS
  <1>2. B = {n \in Node : Walk(pa, n) \cap L # {}}
    BY <1>1 DEF LowerBy
  <1>3. pa \in Pointers /\ Ranked(pa) /\ Nil \notin Node
    BY NodesCounted DEF Fit
  <1>4. ASSUME NEW x \in Node PROVE x \in B <=> x \in L \/ (pa[x] # Nil /\ pa[x] \in B)
    <2>1. Walk(pa, x) = {x} \cup Walk(pa, pa[x]) /\ pa[x] \in Node \cup {Nil}
      BY <1>3, WalkGoesOn DEF Pointers
    <2>2. pa[x] = Nil => Walk(pa, pa[x]) = {}
      BY <1>3, WalkWithin
    <2>3. QED
      BY <1>2, <2>1, <2>2
  <1>5. L \subseteq B /\ B \in SUBSET Node
    BY <1>2, <1>4
  <1>6. \A d \in Document : d \in Node /\ pa[d] = Nil
    BY NodeAssumption DEF Fit, Rooted
  <1>7. L \cap Document = {} => B \cap Document = {}
    BY <1>4, <1>6
  <1>8. L \subseteq S => B \subseteq S
    BY <1>4, <1>5 DEF Fit, Within
  <1>9. QED
    BY <1>1, <1>4, <1>5, <1>7, <1>8 DEF Hangs

\* The list from m on comes to stand behind n, the last of its own.
Joined(nx, pv, pa, ch, la, do, n, m, z, L, B, nx2, pv2, pa2, ch2, la2, do2) ==
  \A x \in Node :
    /\ nx2[x] = IF x = n THEN m ELSE IF x = pv[m] THEN Nil ELSE nx[x]
    /\ pv2[x] = IF x = m THEN n ELSE pv[x]
    /\ pa2[x] = IF x \in L THEN pa[n] ELSE pa[x]
    /\ ch2[x] = IF x = pa[m] /\ pv[m] = Nil THEN Nil ELSE ch[x]
    /\ la2[x] = IF x = pa[n] THEN z ELSE IF x = pa[m] THEN pv[m] ELSE la[x]
    /\ do2[x] = IF x \in B THEN do[n] ELSE do[x]

LEMMA JoinedFits ==
  ASSUME NEW nx, NEW pv, NEW pa, NEW ch, NEW la, NEW do, NEW S, NEW R, Fit(nx, pv, pa, ch, la, do, S, R),
         NEW n \in Node, n \in S \ Document, nx[n] = Nil, NEW m \in Node, m \in S \ Document,
         NEW z \in Node, IsEnd(nx, m, z),
         NEW L, L = Walk(nx, m), NEW B, B = LowerBy(pa, L), n \notin B,
         NEW nx2 \in Pointers, NEW pv2 \in Pointers, NEW pa2 \in Pointers,
         NEW ch2 \in Pointers, NEW la2 \in Pointers, NEW do2 \in Pointers,
         Joined(nx, pv, pa, ch, la, do, n, m, z, L, B, nx2, pv2, pa2, ch2, la2, do2)
  PROVE  Fit(nx2, pv2, pa2, ch2, la2, do2, S, R)
  <1>1. Follows(nx, pv, pa, do, m, L, S)
    BY ListIs
  <1>2. /\ L \in SUBSET Node /\ m \in L /\ L \subseteq S
        /\ \A x \in L : nx[x] \in L \cup {Nil} /\ pa[x] = pa[m] /\ do[x] = do[m]
        /\ \A x \in L : x # m => pv[x] \in L
        /\ pv[m] \notin L
        /\ \A y \in Node : nx[y] \in L => y \in L \/ y = pv[m]
        /\ L \cap Document = {}
    BY ONLY <1>1, m \in S \ Document DEF Follows
  <1>3. Hangs(pa, L, B, S)
    BY <1>2, LowerIs
  <1>4. /\ L \subseteq B /\ B \in SUBSET Node /\ B \subseteq S /\ B \cap Document = {}
        /\ \A x \in Node : x \in B <=> x \in L \/ (pa[x] # Nil /\ pa[x] \in B)
    BY ONLY <1>2, <1>3 DEF Hangs
  <1>5. z \in L /\ nx[z] = Nil /\ \A x \in L : nx[x] = Nil => x = z
    BY DEF IsEnd
  <1>6. n \notin L /\ Nil \notin Node /\ n # m
    BY <1>2, <1>4, NodesCounted
  <1>7. /\ nx \in Pointers /\ pv \in Pointers /\ pa \in Pointers
        /\ ch \in Pointers /\ la \in Pointers /\ do \in Pointers
        /\ Ranked(nx) /\ Ranked(pv) /\ Ranked(pa)
    BY DEF Fit
  <1>8. \A x \in Node : /\ nx[x] \in Node \cup {Nil} /\ pv[x] \in Node \cup {Nil} /\ pa[x] \in Node \cup {Nil}
                        /\ ch[x] \in Node \cup {Nil} /\ la[x] \in Node \cup {Nil} /\ do[x] \in Node \cup {Nil}
    BY <1>7 DEF Pointers
  <1>9. \A x \in Node :
          /\ nx[x] # Nil => pv[nx[x]] = x /\ pa[nx[x]] = pa[x] /\ do[nx[x]] = do[x]
          /\ pv[x] # Nil => nx[pv[x]] = x /\ pa[pv[x]] = pa[x] /\ do[pv[x]] = do[x]
    BY DEF Fit, Sided
  <1>10. \A x \in Node :
           /\ ch[x] # Nil => pa[ch[x]] = x /\ pv[ch[x]] = Nil
           /\ la[x] # Nil => pa[la[x]] = x /\ nx[la[x]] = Nil
           /\ pa[x] # Nil => /\ do[pa[x]] = do[x]
                             /\ pv[x] = Nil => ch[pa[x]] = x
                             /\ nx[x] = Nil => la[pa[x]] = x
    BY DEF Fit, Headed
  <1>11. \A x \in Node :
           /\ nx2[x] = IF x = n THEN m ELSE IF x = pv[m] THEN Nil ELSE nx[x]
           /\ pv2[x] = IF x = m THEN n ELSE pv[x]
           /\ pa2[x] = IF x \in L THEN pa[n] ELSE pa[x]
           /\ ch2[x] = IF x = pa[m] /\ pv[m] = Nil THEN Nil ELSE ch[x]
           /\ la2[x] = IF x = pa[n] THEN z ELSE IF x = pa[m] THEN pv[m] ELSE la[x]
           /\ do2[x] = IF x \in B THEN do[n] ELSE do[x]
    BY DEF Joined
  <1>12. pv[m] # Nil => pv[m] \in Node /\ nx[pv[m]] = m /\ pa[pv[m]] = pa[m] /\ pv[m] # n
    BY <1>6, <1>8, <1>9
  \* n and the list are not children of one node.
  <1>13. pa[n] # Nil => pa[m] # pa[n]
    BY <1>2, <1>5, <1>6, <1>10
  <1>14. Sided(nx2, pv2, pa2, do2)
    <2>1. ASSUME NEW x \in Node, nx2[x] # Nil
          PROVE  pv2[nx2[x]] = x /\ pa2[nx2[x]] = pa2[x] /\ do2[nx2[x]] = do2[x]
      <3>1. CASE x = n
        BY <1>2, <1>4, <1>6, <1>11, <3>1
      <3>2. CASE x # n
        <4>1. x # pv[m] /\ nx2[x] = nx[x] /\ nx[x] # Nil
          BY <1>11, <2>1, <3>2
        <4>2. PICK y \in Node : y = nx[x]
          BY <1>8, <4>1
        <4>3. pv[y] = x /\ pa[y] = pa[x] /\ do[y] = do[x] /\ y # m
          BY <1>9, <4>1, <4>2
        <4>4. y \in L <=> x \in L
          BY <1>2, <4>1, <4>2
        <4>5. y \in B <=> x \in B
          BY <1>4, <4>3, <4>4
        <4>6. QED
          BY <1>11, <4>1, <4>2, <4>3, <4>4, <4>5
      <3>3. QED
        BY <3>1, <3>2
    <2>2. ASSUME NEW x \in Node, pv2[x] # Nil
          PROVE  nx2[pv2[x]] = x /\ pa2[pv2[x]] = pa2[x] /\ do2[pv2[x]] = do2[x]
      <3>1. CASE x = m
        BY <1>2, <1>4, <1>6, <1>11, <3>1
      <3>2. CASE x # m
        <4>1. PICK y \in Node : y = pv[x] /\ y = pv2[x]
          BY <1>8, <1>11, <2>2, <3>2
        <4>2. nx[y] = x /\ pa[y] = pa[x] /\ do[y] = do[x] /\ y # n /\ y # pv[m]
          <5>1. pv[x] # Nil
            BY ONLY <1>6, <4>1
          <5>2. nx[y] = x /\ pa[y] = pa[x] /\ do[y] = do[x]
            BY ONLY <1>9, <4>1, <5>1, x \in Node
          <5>3. y # n
            BY ONLY <1>6, <5>2, x \in Node, nx[n] = Nil
          <5>4. y # pv[m]
            BY ONLY <1>6, <1>12, <3>2, <4>1, <5>2
          <5>5. QED
            BY ONLY <5>2, <5>3, <5>4
        <4>3. y \in L <=> x \in L
          BY ONLY <1>2, <1>6, <3>2, <4>1, <4>2, x \in Node
        <4>4. y \in B <=> x \in B
          BY <1>4, <4>2, <4>3
        <4>5. QED
          BY <1>11, <4>1, <4>2, <4>3, <4>4
      <3>3. QED
        BY <3>1, <3>2
    <2>3. QED
      BY <2>1, <2>2 DEF Sided
  <1>15. Headed(nx2, pv2, pa2, ch2, la2, do2)
    <2>1. ASSUME NEW x \in Node, ch2[x] # Nil PROVE pa2[ch2[x]] = x /\ pv2[ch2[x]] = Nil
      <3>1. PICK c \in Node : c = ch[x] /\ c = ch2[x] /\ ~(x = pa[m] /\ pv[m] = Nil)
        BY <1>8, <1>11, <2>1
      <3>2. pa[c] = x /\ pv[c] = Nil
        <4>1. ch[x] # Nil
          BY ONLY <1>6, <3>1
        <4>2. QED
          BY ONLY <1>10, <3>1, <4>1, x \in Node
      <3>3. c \notin L
        <4>1. c \in L => c = m
          BY <1>2, <1>6, <3>2
        <4>2. QED
          BY <3>1, <3>2, <4>1
      <3>4. QED
        BY <1>2, <1>11, <3>1, <3>2, <3>3
    <2>2. ASSUME NEW x \in Node, la2[x] # Nil PROVE pa2[la2[x]] = x /\ nx2[la2[x]] = Nil
      <3>1. CASE x = pa[n]
        BY <1>5, <1>6, <1>11, <3>1
      <3>2. CASE x # pa[n] /\ x = pa[m]
        BY <1>2, <1>11, <1>12, <2>2, <3>2
      <3>3. CASE x # pa[n] /\ x # pa[m]
        <4>1. PICK y \in Node : y = la[x] /\ y = la2[x]
          BY <1>8, <1>11, <2>2, <3>3
        <4>2. pa[y] = x /\ nx[y] = Nil
          BY <1>10, <2>2, <4>1
        <4>3. y \notin L /\ y # n
          BY <1>2, <3>3, <4>2
        <4>4. QED
          BY <1>11, <4>1, <4>2, <4>3
      <3>4. QED
        BY <3>1, <3>2, <3>3
    <2>3. ASSUME NEW x \in Node, pa2[x] # Nil
          PROVE  /\ do2[pa2[x]] = do2[x]
                 /\ pv2[x] = Nil => ch2[pa2[x]] = x
                 /\ nx2[x] = Nil => la2[pa2[x]] = x
      <3>1. CASE x \in L
        <4>1. PICK q \in Node : q = pa[n] /\ q = pa2[x]
          BY <1>8, <1>11, <2>3, <3>1
        <4>2. q \notin B /\ do[q] = do[n]
          <5>1. pa[n] # Nil
            BY ONLY <1>6, <4>1
          <5>2. do[q] = do[n]
            BY ONLY <1>10, <4>1, <5>1, n \in Node
          <5>3. QED
            <6>1. n \in B <=> n \in L \/ (pa[n] # Nil /\ pa[n] \in B)
              BY ONLY <1>4, n \in Node
            <6>2. pa[n] = q
              BY ONLY <4>1
            <6>3. QED
              BY ONLY <5>1, <5>2, <6>1, <6>2, n \notin B
        <4>3. do2[q] = do2[x]
          BY <1>4, <1>11, <3>1, <4>2
        <4>4. pv2[x] # Nil
          BY <1>2, <1>6, <1>11, <3>1
        <4>5. nx2[x] = Nil => x = z
          BY <1>2, <1>5, <1>6, <1>11, <3>1
        <4>6. QED
          BY <1>11, <4>1, <4>3, <4>4, <4>5
      <3>2. CASE x \notin L
        <4>1. PICK q \in Node : q = pa[x] /\ q = pa2[x]
          BY <1>8, <1>11, <2>3, <3>2
        <4>2. do[q] = do[x] /\ (pv[x] = Nil => ch[q] = x) /\ (nx[x] = Nil => la[q] = x)
          <5>1. pa[x] # Nil
            BY ONLY <1>6, <4>1
          <5>2. QED
            BY ONLY <1>10, <4>1, <5>1
        <4>3. x \in B <=> q \in B
          <5>1. x \in B <=> x \in L \/ (pa[x] # Nil /\ pa[x] \in B)
            BY ONLY <1>4, x \in Node
          <5>2. pa[x] # Nil /\ pa[x] = q
            BY ONLY <1>6, <4>1
          <5>3. QED
            BY ONLY <3>2, <5>1, <5>2
        <4>4. do2[q] = do2[x]
          BY <1>11, <4>2, <4>3
        <4>5. pv2[x] = Nil => ch2[q] = x
          <5>1. SUFFICES ASSUME pv2[x] = Nil PROVE ch2[q] = x
            OBVIOUS
          <5>2. x # m /\ pv[x] = Nil /\ ch[q] = x
            BY <1>2, <1>11, <3>2, <4>2, <5>1
          <5>3. q = pa[m] /\ pv[m] = Nil => ch[q] = m
            BY <1>6, <1>10, <4>1
          <5>4. QED
            BY <1>11, <5>2, <5>3
        <4>6. nx2[x] = Nil => la2[q] = x
          <5>1. SUFFICES ASSUME nx2[x] = Nil PROVE la2[q] = x
            OBVIOUS
          <5>2. x # n
            BY <1>6, <1>11, <5>1
          <5>3. CASE x = pv[m]
            <6>1. q = pa[m] /\ q # Nil
              BY <1>6, <1>12, <4>1, <5>3
            <6>2. q # pa[n]
              BY <1>13, <6>1
            <6>3. QED
              BY <1>11, <5>3, <6>1, <6>2
          <5>4. CASE x # pv[m]
            <6>1. nx[x] = Nil /\ la[q] = x
              BY <1>11, <4>2, <5>1, <5>2, <5>4
            <6>2. q # pa[n]
              BY <1>6, <1>10, <4>1, <5>2, <6>1
            <6>3. q # pa[m]
              BY <1>2, <1>5, <1>6, <1>10, <3>2, <4>1, <6>1
            <6>4. QED
              BY <1>11, <6>1, <6>2, <6>3
          <5>5. QED
            BY <5>3, <5>4
        <4>7. QED
          BY <4>1, <4>4, <4>5, <4>6
      <3>3. QED
        BY <3>1, <3>2
    <2>4. QED
      BY <2>1, <2>2, <2>3 DEF Headed
  <1>16. Rooted(nx2, pv2, pa2, do2, S)
    <2>1. \A d \in Document : d \in Node /\ d # n /\ d # m /\ d \notin L /\ d \notin B
      BY <1>2, <1>4, NodeAssumption
    <2>2. \A d \in Document : /\ nx[d] = Nil /\ pv[d] = Nil /\ pa[d] = Nil
                              /\ d \in S => do[d] = d
      BY DEF Fit, Rooted
    <2>3. QED
      BY <1>11, <2>1, <2>2 DEF Rooted
  <1>17. Within(nx2, pv2, pa2, ch2, la2, do2, S, R)
    <2>1. /\ \A x \in Node :
               /\ nx[x] \in S \cup {Nil} /\ pv[x] \in S \cup {Nil} /\ pa[x] \in S \cup {Nil}
               /\ ch[x] \in S \cup {Nil} /\ la[x] \in S \cup {Nil} /\ do[x] \in R \cup {Nil}
          /\ \A x \in Node \ S :
               /\ nx[x] = Nil /\ pv[x] = Nil /\ pa[x] = Nil
               /\ ch[x] = Nil /\ la[x] = Nil /\ do[x] = Nil
      BY DEF Fit, Within
    <2>2. z \in S
      BY <1>2, <1>5
    <2>3. ASSUME NEW x \in Node
          PROVE  /\ nx2[x] \in S \cup {Nil} /\ pv2[x] \in S \cup {Nil} /\ pa2[x] \in S \cup {Nil}
                 /\ ch2[x] \in S \cup {Nil} /\ la2[x] \in S \cup {Nil} /\ do2[x] \in R \cup {Nil}
      BY <1>11, <2>1, <2>2
    <2>4. ASSUME NEW x \in Node, x \notin S
          PROVE  /\ nx2[x] = Nil /\ pv2[x] = Nil /\ pa2[x] = Nil
                 /\ ch2[x] = Nil /\ la2[x] = Nil /\ do2[x] = Nil
      <3>1. x # n /\ x # m /\ x \notin L /\ x \notin B /\ x # pa[n] /\ x # pa[m]
        BY <1>2, <1>4, <1>6, <2>1, <2>4
      <3>2. QED
        BY <1>11, <2>1, <2>4, <3>1
    <2>5. QED
      BY <2>3, <2>4 DEF Within
  <1>18. Ranked(nx2)
    <2>1. \A x \in Node : \/ nx2[x] = Nil
                          \/ nx2[x] = nx[x] /\ (x \in L => nx2[x] \in L)
                          \/ x \notin L /\ nx2[x] \in L
      BY <1>2, <1>6, <1>11
    <2>2. QED
      BY <1>7, <2>1, RankedUp
  <1>19. Ranked(pv2)
    <2>1. \A x \in Node : pv2[x] # Nil => nx2[pv2[x]] = x
      BY <1>14 DEF Sided
    <2>2. QED
      BY <1>18, <2>1, RankedBack
  <1>20. Ranked(pa2)
    <2>1. PICK U : U = Node \ B
      OBVIOUS
    <2>2. pa[n] # Nil => pa[n] \in U
      BY <1>4, <1>6, <1>8, <2>1
    <2>3. \A x \in Node : \/ pa2[x] = Nil
                          \/ pa2[x] = pa[x] /\ (x \in U => pa2[x] \in U)
                          \/ x \notin U /\ pa2[x] \in U
      BY <1>4, <1>8, <1>11, <2>1, <2>2
    <2>4. QED
      BY <1>7, <2>3, RankedUp
  <1>21. QED
    BY <1>14, <1>15, <1>16, <1>17, <1>18, <1>19, <1>20 DEF Fit

\* What a forest is, pointer by pointer.
FitIs(nx, pv, pa, ch, la, do, S, R) ==
  /\ \A x \in Node : /\ nx[x] \in Node \cup {Nil} /\ pv[x] \in Node \cup {Nil} /\ pa[x] \in Node \cup {Nil}
                     /\ ch[x] \in Node \cup {Nil} /\ la[x] \in Node \cup {Nil} /\ do[x] \in Node \cup {Nil}
  /\ \A x \in Node :
       /\ nx[x] # Nil => pv[nx[x]] = x /\ pa[nx[x]] = pa[x] /\ do[nx[x]] = do[x]
       /\ pv[x] # Nil => nx[pv[x]] = x /\ pa[pv[x]] = pa[x] /\ do[pv[x]] = do[x]
  /\ \A x \in Node :
       /\ ch[x] # Nil => pa[ch[x]] = x /\ pv[ch[x]] = Nil
       /\ la[x] # Nil => pa[la[x]] = x /\ nx[la[x]] = Nil
       /\ pa[x] # Nil => do[pa[x]] = do[x] /\ (pv[x] = Nil => ch[pa[x]] = x) /\ (nx[x] = Nil => la[pa[x]] = x)
  /\ \A d \in Document : d \in Node /\ nx[d] = Nil /\ pv[d] = Nil /\ pa[d] = Nil /\ (d \in S => do[d] = d)
  /\ \A x \in Node :
       /\ nx[x] \in S \cup {Nil} /\ pv[x] \in S \cup {Nil} /\ pa[x] \in S \cup {Nil}
       /\ ch[x] \in S \cup {Nil} /\ la[x] \in S \cup {Nil} /\ do[x] \in R \cup {Nil}
  /\ \A x \in Node \ S :
       /\ nx[x] = Nil /\ pv[x] = Nil /\ pa[x] = Nil
       /\ ch[x] = Nil /\ la[x] = Nil /\ do[x] = Nil

LEMMA FitFacts ==
  ASSUME NEW nx, NEW pv, NEW pa, NEW ch, NEW la, NEW do, NEW S, NEW R, Fit(nx, pv, pa, ch, la, do, S, R)
  PROVE  FitIs(nx, pv, pa, ch, la, do, S, R)
  <1>1. \A x \in Node : /\ nx[x] \in Node \cup {Nil} /\ pv[x] \in Node \cup {Nil} /\ pa[x] \in Node \cup {Nil}
                        /\ ch[x] \in Node \cup {Nil} /\ la[x] \in Node \cup {Nil} /\ do[x] \in Node \cup {Nil}
    BY DEF Fit, Pointers
  <1>2. \A d \in Document : d \in Node
    BY NodeAssumption
  <1>3. \A d \in Document : d \in Node /\ nx[d] = Nil /\ pv[d] = Nil /\ pa[d] = Nil /\ (d \in S => do[d] = d)
    BY <1>2 DEF Fit, Rooted
  <1>4. QED
    BY <1>1, <1>3 DEF FitIs, Fit, Sided, Headed, Within

LEMMA FitMade ==
  ASSUME NEW nx \in Pointers, NEW pv \in Pointers, NEW pa \in Pointers,
         NEW ch \in Pointers, NEW la \in Pointers, NEW do \in Pointers, NEW S, NEW R,
         Ranked(nx), Ranked(pa), FitIs(nx, pv, pa, ch, la, do, S, R)
  PROVE  Fit(nx, pv, pa, ch, la, do, S, R)
  <1>1. Ranked(pv)
    BY RankedBack DEF FitIs
  <1>2. Sided(nx, pv, pa, do) /\ Headed(nx, pv, pa, ch, la, do) /\ Rooted(nx, pv, pa, do, S)
    BY DEF FitIs, Sided, Headed, Rooted
  <1>3. Within(nx, pv, pa, ch, la, do, S, R)
    BY DEF FitIs, Within
  <1>4. QED
    BY <1>1, <1>2, <1>3 DEF Fit

\* A node without parent and list can be made in a place that is free.
Isolated(nx, pv, pa, ch, la, do, n, d, nx2, pv2, pa2, ch2, la2, do2) ==
  \A x \in Node :
    /\ nx2[x] = IF x = n THEN Nil ELSE nx[x]
    /\ pv2[x] = IF x = n THEN Nil ELSE pv[x]
    /\ pa2[x] = IF x = n THEN Nil ELSE pa[x]
    /\ ch2[x] = IF x = n THEN Nil ELSE ch[x]
    /\ la2[x] = IF x = n THEN Nil ELSE la[x]
    /\ do2[x] = IF x = n THEN d ELSE do[x]

LEMMA IsolatedFits ==
  ASSUME NEW nx, NEW pv, NEW pa, NEW ch, NEW la, NEW do, NEW S, NEW R, Fit(nx, pv, pa, ch, la, do, S, R),
         NEW n \in Node, n \notin S, NEW d \in R \cup {n, Nil}, n \in Document => d = n, S \subseteq R,
         NEW nx2 \in Pointers, NEW pv2 \in Pointers, NEW pa2 \in Pointers,
         NEW ch2 \in Pointers, NEW la2 \in Pointers, NEW do2 \in Pointers,
         Isolated(nx, pv, pa, ch, la, do, n, d, nx2, pv2, pa2, ch2, la2, do2)
  PROVE  Fit(nx2, pv2, pa2, ch2, la2, do2, S \cup {n}, R \cup {n})
  <1>1. FitIs(nx, pv, pa, ch, la, do, S, R)
    BY FitFacts
  <1>2. \A x \in Node : /\ nx2[x] = nx[x] /\ pv2[x] = pv[x] /\ pa2[x] = pa[x]
                        /\ ch2[x] = ch[x] /\ la2[x] = la[x] /\ do2[x] = IF x = n THEN d ELSE do[x]
    BY <1>1 DEF Isolated, FitIs
  <1>3. Ranked(nx) /\ Ranked(pa) /\ nx \in Pointers /\ pa \in Pointers
    BY DEF Fit
  <1>4. Ranked(nx2) /\ Ranked(pa2)
    <2>1. nx2 = nx /\ pa2 = pa
      BY <1>2, <1>3 DEF Pointers
    <2>2. QED
      BY <1>3, <2>1
  <1>5. \A x \in Node : n # nx[x] /\ n # pv[x] /\ n # pa[x] /\ n # ch[x] /\ n # la[x]
    BY <1>1, NodesCounted DEF FitIs
  <1>6. pa[n] = Nil /\ nx[n] = Nil /\ pv[n] = Nil
    BY <1>1 DEF FitIs
  <1>7. FitIs(nx2, pv2, pa2, ch2, la2, do2, S \cup {n}, R \cup {n})
    <2>1. \A x \in Node : /\ nx2[x] \in Node \cup {Nil} /\ pv2[x] \in Node \cup {Nil} /\ pa2[x] \in Node \cup {Nil}
                          /\ ch2[x] \in Node \cup {Nil} /\ la2[x] \in Node \cup {Nil} /\ do2[x] \in Node \cup {Nil}
      BY DEF Pointers
    <2>2. \A x \in Node :
            /\ nx2[x] # Nil => pv2[nx2[x]] = x /\ pa2[nx2[x]] = pa2[x] /\ do2[nx2[x]] = do2[x]
            /\ pv2[x] # Nil => nx2[pv2[x]] = x /\ pa2[pv2[x]] = pa2[x] /\ do2[pv2[x]] = do2[x]
      BY <1>1, <1>2, <1>5, <1>6 DEF FitIs
    <2>3. \A x \in Node :
            /\ ch2[x] # Nil => pa2[ch2[x]] = x /\ pv2[ch2[x]] = Nil
            /\ la2[x] # Nil => pa2[la2[x]] = x /\ nx2[la2[x]] = Nil
            /\ pa2[x] # Nil => do2[pa2[x]] = do2[x] /\ (pv2[x] = Nil => ch2[pa2[x]] = x) /\ (nx2[x] = Nil => la2[pa2[x]] = x)
      BY <1>1, <1>2, <1>5, <1>6 DEF FitIs
    <2>4. \A e \in Document : e \in Node /\ nx2[e] = Nil /\ pv2[e] = Nil /\ pa2[e] = Nil /\ (e \in S \cup {n} => do2[e] = e)
      BY <1>1, <1>2 DEF FitIs
    <2>5. \A x \in Node :
            /\ nx2[x] \in S \cup {n} \cup {Nil} /\ pv2[x] \in S \cup {n} \cup {Nil} /\ pa2[x] \in S \cup {n} \cup {Nil}
            /\ ch2[x] \in S \cup {n} \cup {Nil} /\ la2[x] \in S \cup {n} \cup {Nil} /\ do2[x] \in R \cup {n} \cup {Nil}
      BY <1>1, <1>2 DEF FitIs
    <2>6. \A x \in Node \ (S \cup {n}) :
            /\ nx2[x] = Nil /\ pv2[x] = Nil /\ pa2[x] = Nil
            /\ ch2[x] = Nil /\ la2[x] = Nil /\ do2[x] = Nil
      BY <1>1, <1>2 DEF FitIs
    <2>7. QED
      BY <2>1, <2>2, <2>3, <2>4, <2>5, <2>6 DEF FitIs
  <1>8. QED
    BY <1>4, <1>7, FitMade

\* The nodes of G may go where no other leads to them but for their document.
Erased(nx, pv, pa, ch, la, do, G, nx2, pv2, pa2, ch2, la2, do2) ==
  \A x \in Node :
    /\ nx2[x] = IF x \in G THEN Nil ELSE nx[x]
    /\ pv2[x] = IF x \in G THEN Nil ELSE pv[x]
    /\ pa2[x] = IF x \in G THEN Nil ELSE pa[x]
    /\ ch2[x] = IF x \in G THEN Nil ELSE ch[x]
    /\ la2[x] = IF x \in G THEN Nil ELSE la[x]
    /\ do2[x] = IF x \in G THEN Nil ELSE do[x]

Apart(nx, pv, pa, ch, la, G) ==
  \A x \in Node \ G : nx[x] \notin G /\ pv[x] \notin G /\ pa[x] \notin G /\ ch[x] \notin G /\ la[x] \notin G

LEMMA ErasedFits ==
  ASSUME NEW nx, NEW pv, NEW pa, NEW ch, NEW la, NEW do, NEW S, NEW R, Fit(nx, pv, pa, ch, la, do, S, R),
         NEW G \in SUBSET Node,
         Apart(nx, pv, pa, ch, la, G),
         NEW nx2 \in Pointers, NEW pv2 \in Pointers, NEW pa2 \in Pointers,
         NEW ch2 \in Pointers, NEW la2 \in Pointers, NEW do2 \in Pointers,
         Erased(nx, pv, pa, ch, la, do, G, nx2, pv2, pa2, ch2, la2, do2)
  PROVE  Fit(nx2, pv2, pa2, ch2, la2, do2, S \ G, R)
  <1>1. FitIs(nx, pv, pa, ch, la, do, S, R)
    BY FitFacts
  <1>2. \A x \in Node :
          /\ x \in G => /\ nx2[x] = Nil /\ pv2[x] = Nil /\ pa2[x] = Nil
                        /\ ch2[x] = Nil /\ la2[x] = Nil /\ do2[x] = Nil
          /\ x \notin G => /\ nx2[x] = nx[x] /\ pv2[x] = pv[x] /\ pa2[x] = pa[x]
                           /\ ch2[x] = ch[x] /\ la2[x] = la[x] /\ do2[x] = do[x]
    BY DEF Erased
  <1>3. Ranked(nx) /\ Ranked(pa) /\ nx \in Pointers /\ pa \in Pointers
    BY DEF Fit
  <1>4. Ranked(nx2) /\ Ranked(pa2)
    <2>1. \A x \in Node : nx2[x] = Nil \/ nx2[x] = nx[x]
      BY <1>2
    <2>2. \A x \in Node : pa2[x] = Nil \/ pa2[x] = pa[x]
      BY <1>2
    <2>3. Ranked(nx2)
      BY ONLY <1>3, <2>1, nx2 \in Pointers, RankedSkip
    <2>4. Ranked(pa2)
      BY ONLY <1>3, <2>2, pa2 \in Pointers, RankedSkip
    <2>5. QED
      BY <2>3, <2>4
  <1>5. \A x \in Node \ G :
          /\ nx[x] \notin G /\ pv[x] \notin G /\ pa[x] \notin G /\ ch[x] \notin G /\ la[x] \notin G
    BY DEF Apart
  <1>6. FitIs(nx2, pv2, pa2, ch2, la2, do2, S \ G, R)
    <2>1. \A x \in Node : /\ nx2[x] \in Node \cup {Nil} /\ pv2[x] \in Node \cup {Nil} /\ pa2[x] \in Node \cup {Nil}
                          /\ ch2[x] \in Node \cup {Nil} /\ la2[x] \in Node \cup {Nil} /\ do2[x] \in Node \cup {Nil}
      BY DEF Pointers
    <2>2. \A x \in Node :
            /\ nx2[x] # Nil => pv2[nx2[x]] = x /\ pa2[nx2[x]] = pa2[x] /\ do2[nx2[x]] = do2[x]
            /\ pv2[x] # Nil => nx2[pv2[x]] = x /\ pa2[pv2[x]] = pa2[x] /\ do2[pv2[x]] = do2[x]
      BY ONLY <1>1, <1>2, <1>5 DEF FitIs
    <2>3. \A x \in Node :
            /\ ch2[x] # Nil => pa2[ch2[x]] = x /\ pv2[ch2[x]] = Nil
            /\ la2[x] # Nil => pa2[la2[x]] = x /\ nx2[la2[x]] = Nil
            /\ pa2[x] # Nil => do2[pa2[x]] = do2[x] /\ (pv2[x] = Nil => ch2[pa2[x]] = x) /\ (nx2[x] = Nil => la2[pa2[x]] = x)
      BY ONLY <1>1, <1>2, <1>5 DEF FitIs
    <2>4. \A e \in Document : e \in Node /\ nx2[e] = Nil /\ pv2[e] = Nil /\ pa2[e] = Nil /\ (e \in S \ G => do2[e] = e)
      BY ONLY <1>1, <1>2 DEF FitIs
    <2>5. \A x \in Node :
            /\ nx2[x] \in (S \ G) \cup {Nil} /\ pv2[x] \in (S \ G) \cup {Nil} /\ pa2[x] \in (S \ G) \cup {Nil}
            /\ ch2[x] \in (S \ G) \cup {Nil} /\ la2[x] \in (S \ G) \cup {Nil} /\ do2[x] \in R \cup {Nil}
      BY ONLY <1>1, <1>2, <1>5 DEF FitIs
    <2>6. \A x \in Node \ (S \ G) :
            /\ nx2[x] = Nil /\ pv2[x] = Nil /\ pa2[x] = Nil
            /\ ch2[x] = Nil /\ la2[x] = Nil /\ do2[x] = Nil
      BY ONLY <1>1, <1>2 DEF FitIs
    <2>7. QED
      BY <2>1, <2>2, <2>3, <2>4, <2>5, <2>6 DEF FitIs
  <1>7. QED
    BY <1>4, <1>6, FitMade

\* n leaves its parent and its neighbours.
Unlinks(nx, pv, pa, ch, la, do, n, nx2, pv2, pa2, ch2, la2, do2) ==
  \A x \in Node :
    /\ nx2[x] = IF x = n THEN Nil ELSE IF x = pv[n] THEN nx[n] ELSE nx[x]
    /\ pv2[x] = IF x = n THEN Nil ELSE IF x = nx[n] THEN pv[n] ELSE pv[x]
    /\ pa2[x] = IF x = n THEN Nil ELSE pa[x]
    /\ ch2[x] = IF x = pa[n] /\ ch[x] = n THEN nx[n] ELSE ch[x]
    /\ la2[x] = IF x = pa[n] /\ la[x] = n THEN pv[n] ELSE la[x]
    /\ do2[x] = do[x]

LEMMA UnlinkFits ==
  ASSUME NEW nx, NEW pv, NEW pa, NEW ch, NEW la, NEW do, NEW S, NEW R, Fit(nx, pv, pa, ch, la, do, S, R),
         NEW n \in Node,
         NEW nx2 \in Pointers, NEW pv2 \in Pointers, NEW pa2 \in Pointers,
         NEW ch2 \in Pointers, NEW la2 \in Pointers, NEW do2 \in Pointers,
         Unlinks(nx, pv, pa, ch, la, do, n, nx2, pv2, pa2, ch2, la2, do2)
  PROVE  Fit(nx2, pv2, pa2, ch2, la2, do2, S, R)
  <1>1. FitIs(nx, pv, pa, ch, la, do, S, R)
    BY FitFacts
  <1>2. \A x \in Node :
          /\ nx2[x] = IF x = n THEN Nil ELSE IF x = pv[n] THEN nx[n] ELSE nx[x]
          /\ pv2[x] = IF x = n THEN Nil ELSE IF x = nx[n] THEN pv[n] ELSE pv[x]
          /\ pa2[x] = IF x = n THEN Nil ELSE pa[x]
          /\ ch2[x] = IF x = pa[n] /\ ch[x] = n THEN nx[n] ELSE ch[x]
          /\ la2[x] = IF x = pa[n] /\ la[x] = n THEN pv[n] ELSE la[x]
          /\ do2[x] = do[x]
    BY DEF Unlinks
  <1>3. Ranked(nx) /\ Ranked(pa) /\ nx \in Pointers /\ pa \in Pointers /\ n \in Node /\ Nil \notin Node
    BY NodesCounted DEF Fit
  <1>4. n # pv[n] /\ n # nx[n]
    <2>1. Walk(nx, n) = {n} \cup Walk(nx, nx[n]) /\ n \notin Walk(nx, nx[n])
      BY ONLY <1>3, WalkGoesOn
    <2>2. nx[n] # n
      BY <2>1
    <2>3. QED
      BY <1>1, <1>3, <2>2 DEF FitIs
  <1>5. Ranked(nx2)
    <2>1. \A x \in Node : nx2[x] = Nil \/ nx2[x] = nx[x] \/ (nx[x] # Nil /\ nx2[x] = nx[nx[x]])
      BY ONLY <1>1, <1>2, <1>3 DEF FitIs
    <2>2. QED
      BY ONLY <1>3, <2>1, nx2 \in Pointers, RankedSkip
  <1>6. Ranked(pa2)
    <2>1. \A x \in Node : pa2[x] = Nil \/ pa2[x] = pa[x]
      BY <1>2
    <2>2. QED
      BY ONLY <1>3, <2>1, pa2 \in Pointers, RankedSkip
  <1>7. FitIs(nx2, pv2, pa2, ch2, la2, do2, S, R)
    <2>1. \A x \in Node : /\ nx2[x] \in Node \cup {Nil} /\ pv2[x] \in Node \cup {Nil} /\ pa2[x] \in Node \cup {Nil}
                          /\ ch2[x] \in Node \cup {Nil} /\ la2[x] \in Node \cup {Nil} /\ do2[x] \in Node \cup {Nil}
      BY DEF Pointers
    <2>2. ASSUME NEW x \in Node
          PROVE
            /\ nx2[x] # Nil => pv2[nx2[x]] = x /\ pa2[nx2[x]] = pa2[x] /\ do2[nx2[x]] = do2[x]
            /\ pv2[x] # Nil => nx2[pv2[x]] = x /\ pa2[pv2[x]] = pa2[x] /\ do2[pv2[x]] = do2[x]
      BY ONLY <1>1, <1>2, <1>3, <1>4, x \in Node DEF FitIs
    <2>3. ASSUME NEW x \in Node
          PROVE  /\ ch2[x] # Nil => pa2[ch2[x]] = x /\ pv2[ch2[x]] = Nil
                 /\ la2[x] # Nil => pa2[la2[x]] = x /\ nx2[la2[x]] = Nil
      BY ONLY <1>1, <1>2, <1>3, <1>4, x \in Node DEF FitIs
    <2>4. ASSUME NEW x \in Node, pa2[x] # Nil
          PROVE  do2[pa2[x]] = do2[x] /\ (pv2[x] = Nil => ch2[pa2[x]] = x) /\ (nx2[x] = Nil => la2[pa2[x]] = x)
      BY ONLY <1>1, <1>2, <1>3, <1>4, <2>4, x \in Node DEF FitIs
    <2>5. \A e \in Document : e \in Node /\ nx2[e] = Nil /\ pv2[e] = Nil /\ pa2[e] = Nil /\ (e \in S => do2[e] = e)
      BY ONLY <1>1, <1>2, <1>3 DEF FitIs
    <2>6. \A x \in Node :
            /\ nx2[x] \in S \cup {Nil} /\ pv2[x] \in S \cup {Nil} /\ pa2[x] \in S \cup {Nil}
            /\ ch2[x] \in S \cup {Nil} /\ la2[x] \in S \cup {Nil} /\ do2[x] \in R \cup {Nil}
      BY ONLY <1>1, <1>2, <1>3 DEF FitIs
    <2>7. \A x \in Node \ S :
            /\ nx2[x] = Nil /\ pv2[x] = Nil /\ pa2[x] = Nil
            /\ ch2[x] = Nil /\ la2[x] = Nil /\ do2[x] = Nil
      BY ONLY <1>1, <1>2, <1>3 DEF FitIs
    <2>8. QED
      BY ONLY <2>1, <2>2, <2>3, <2>4, <2>5, <2>6, <2>7 DEF FitIs
  <1>8. QED
    BY <1>5, <1>6, <1>7, FitMade

\* The children of n have no parent any more.
Leaves(nx, pv, pa, ch, la, do, n, nx2, pv2, pa2, ch2, la2, do2) ==
  \A x \in Node :
    /\ nx2[x] = nx[x] /\ pv2[x] = pv[x] /\ do2[x] = do[x]
    /\ pa2[x] = IF pa[x] = n THEN Nil ELSE pa[x]
    /\ ch2[x] = IF x = n THEN Nil ELSE ch[x]
    /\ la2[x] = IF x = n THEN Nil ELSE la[x]

LEMMA LeavesFits ==
  ASSUME NEW nx, NEW pv, NEW pa, NEW ch, NEW la, NEW do, NEW S, NEW R, Fit(nx, pv, pa, ch, la, do, S, R),
         NEW n \in Node,
         NEW nx2 \in Pointers, NEW pv2 \in Pointers, NEW pa2 \in Pointers,
         NEW ch2 \in Pointers, NEW la2 \in Pointers, NEW do2 \in Pointers,
         Leaves(nx, pv, pa, ch, la, do, n, nx2, pv2, pa2, ch2, la2, do2)
  PROVE  Fit(nx2, pv2, pa2, ch2, la2, do2, S, R)
  <1>1. FitIs(nx, pv, pa, ch, la, do, S, R)
    BY FitFacts
  <1>2. \A x \in Node :
          /\ nx2[x] = nx[x] /\ pv2[x] = pv[x] /\ do2[x] = do[x]
          /\ pa2[x] = IF pa[x] = n THEN Nil ELSE pa[x]
          /\ ch2[x] = IF x = n THEN Nil ELSE ch[x]
          /\ la2[x] = IF x = n THEN Nil ELSE la[x]
    BY DEF Leaves
  <1>3. Ranked(nx) /\ Ranked(pa) /\ nx \in Pointers /\ pa \in Pointers /\ n \in Node /\ Nil \notin Node
    BY NodesCounted DEF Fit
  <1>5. Ranked(nx2)
    <2>1. \A x \in Node : nx2[x] = Nil \/ nx2[x] = nx[x]
      BY <1>2
    <2>2. QED
      BY ONLY <1>3, <2>1, nx2 \in Pointers, RankedSkip
  <1>6. Ranked(pa2)
    <2>1. \A x \in Node : pa2[x] = Nil \/ pa2[x] = pa[x]
      BY <1>2
    <2>2. QED
      BY ONLY <1>3, <2>1, pa2 \in Pointers, RankedSkip
  <1>7. FitIs(nx2, pv2, pa2, ch2, la2, do2, S, R)
    <2>1. \A x \in Node : /\ nx2[x] \in Node \cup {Nil} /\ pv2[x] \in Node \cup {Nil} /\ pa2[x] \in Node \cup {Nil}
                          /\ ch2[x] \in Node \cup {Nil} /\ la2[x] \in Node \cup {Nil} /\ do2[x] \in Node \cup {Nil}
      BY DEF Pointers
    <2>2. ASSUME NEW x \in Node
          PROVE
            /\ nx2[x] # Nil => pv2[nx2[x]] = x /\ pa2[nx2[x]] = pa2[x] /\ do2[nx2[x]] = do2[x]
            /\ pv2[x] # Nil => nx2[pv2[x]] = x /\ pa2[pv2[x]] = pa2[x] /\ do2[pv2[x]] = do2[x]
      BY ONLY <1>1, <1>2, <1>3, x \in Node DEF FitIs
    <2>3. ASSUME NEW x \in Node
          PROVE  /\ ch2[x] # Nil => pa2[ch2[x]] = x /\ pv2[ch2[x]] = Nil
                 /\ la2[x] # Nil => pa2[la2[x]] = x /\ nx2[la2[x]] = Nil
      BY ONLY <1>1, <1>2, <1>3, x \in Node DEF FitIs
    <2>4. ASSUME NEW x \in Node, pa2[x] # Nil
          PROVE  do2[pa2[x]] = do2[x] /\ (pv2[x] = Nil => ch2[pa2[x]] = x) /\ (nx2[x] = Nil => la2[pa2[x]] = x)
      BY ONLY <1>1, <1>2, <1>3, <2>4, x \in Node DEF FitIs
    <2>5. \A e \in Document : e \in Node /\ nx2[e] = Nil /\ pv2[e] = Nil /\ pa2[e] = Nil /\ (e \in S => do2[e] = e)
      BY ONLY <1>1, <1>2, <1>3 DEF FitIs
    <2>6. \A x \in Node :
            /\ nx2[x] \in S \cup {Nil} /\ pv2[x] \in S \cup {Nil} /\ pa2[x] \in S \cup {Nil}
            /\ ch2[x] \in S \cup {Nil} /\ la2[x] \in S \cup {Nil} /\ do2[x] \in R \cup {Nil}
      BY ONLY <1>1, <1>2, <1>3 DEF FitIs
    <2>7. \A x \in Node \ S :
            /\ nx2[x] = Nil /\ pv2[x] = Nil /\ pa2[x] = Nil
            /\ ch2[x] = Nil /\ la2[x] = Nil /\ do2[x] = Nil
      BY ONLY <1>1, <1>2, <1>3 DEF FitIs
    <2>8. QED
      BY ONLY <2>1, <2>2, <2>3, <2>4, <2>5, <2>6, <2>7 DEF FitIs
  <1>8. QED
    BY <1>5, <1>6, <1>7, FitMade

\* What hangs from n, which stands alone, gets another document.
Enters(nx, pv, pa, ch, la, do, B, v, nx2, pv2, pa2, ch2, la2, do2) ==
  /\ nx2 = nx /\ pv2 = pv /\ pa2 = pa /\ ch2 = ch /\ la2 = la
  /\ \A x \in Node : do2[x] = IF x \in B THEN v ELSE do[x]

LEMMA EntersFits ==
  ASSUME NEW nx, NEW pv, NEW pa, NEW ch, NEW la, NEW do, NEW S, NEW R, Fit(nx, pv, pa, ch, la, do, S, R),
         NEW n \in Node, n \in S \ Document, nx[n] = Nil, pv[n] = Nil, pa[n] = Nil,
         NEW B, B = LowerBy(pa, {n}), NEW v \in R \cup {Nil},
         NEW nx2 \in Pointers, NEW pv2 \in Pointers, NEW pa2 \in Pointers,
         NEW ch2 \in Pointers, NEW la2 \in Pointers, NEW do2 \in Pointers,
         Enters(nx, pv, pa, ch, la, do, B, v, nx2, pv2, pa2, ch2, la2, do2)
  PROVE  Fit(nx2, pv2, pa2, ch2, la2, do2, S, R)
  <1>1. FitIs(nx, pv, pa, ch, la, do, S, R)
    BY FitFacts
  <1>2. /\ nx2 = nx /\ pv2 = pv /\ pa2 = pa /\ ch2 = ch /\ la2 = la
        /\ \A x \in Node : do2[x] = IF x \in B THEN v ELSE do[x]
    BY DEF Enters
  <1>3. Ranked(nx) /\ Ranked(pa) /\ nx \in Pointers /\ pa \in Pointers /\ n \in Node /\ Nil \notin Node
    BY NodesCounted DEF Fit
  <1>4. Hangs(pa, {n}, B, S)
    BY <1>3, LowerIs
  <1>5. /\ B \in SUBSET Node /\ B \subseteq S /\ B \cap Document = {} /\ n \in B
        /\ \A x \in Node : x \in B <=> x = n \/ (pa[x] # Nil /\ pa[x] \in B)
    BY ONLY <1>4, n \in S \ Document DEF Hangs
  <1>6. \A x \in Node : /\ nx[x] # Nil => (x \in B <=> nx[x] \in B)
                        /\ pv[x] # Nil => (x \in B <=> pv[x] \in B)
                        /\ pa[x] # Nil => (x \in B <=> pa[x] \in B)
    <2>1. \A x \in Node : nx[x] # n /\ pv[x] # n
      BY <1>1, <1>3, nx[n] = Nil, pv[n] = Nil DEF FitIs
    <2>2. ASSUME NEW x \in Node
          PROVE  /\ nx[x] # Nil => (x \in B <=> nx[x] \in B)
                 /\ pv[x] # Nil => (x \in B <=> pv[x] \in B)
      BY ONLY <1>1, <1>3, <1>5, <2>1, x \in Node, nx[n] = Nil, pv[n] = Nil DEF FitIs
    <2>3. ASSUME NEW x \in Node, pa[x] # Nil PROVE x \in B <=> pa[x] \in B
      BY ONLY <1>5, <2>3, x \in Node, pa[n] = Nil
    <2>4. QED
      BY <2>2, <2>3
  <1>7. FitIs(nx2, pv2, pa2, ch2, la2, do2, S, R)
    <2>1. \A x \in Node : /\ nx2[x] \in Node \cup {Nil} /\ pv2[x] \in Node \cup {Nil} /\ pa2[x] \in Node \cup {Nil}
                          /\ ch2[x] \in Node \cup {Nil} /\ la2[x] \in Node \cup {Nil} /\ do2[x] \in Node \cup {Nil}
      BY DEF Pointers
    <2>2. ASSUME NEW x \in Node
          PROVE
            /\ nx2[x] # Nil => pv2[nx2[x]] = x /\ pa2[nx2[x]] = pa2[x] /\ do2[nx2[x]] = do2[x]
            /\ pv2[x] # Nil => nx2[pv2[x]] = x /\ pa2[pv2[x]] = pa2[x] /\ do2[pv2[x]] = do2[x]
      BY ONLY <1>1, <1>2, <1>3, <1>6, x \in Node DEF FitIs
    <2>3. ASSUME NEW x \in Node
          PROVE  /\ ch2[x] # Nil => pa2[ch2[x]] = x /\ pv2[ch2[x]] = Nil
                 /\ la2[x] # Nil => pa2[la2[x]] = x /\ nx2[la2[x]] = Nil
      BY ONLY <1>1, <1>2, <1>3, x \in Node DEF FitIs
    <2>4. ASSUME NEW x \in Node, pa2[x] # Nil
          PROVE  do2[pa2[x]] = do2[x] /\ (pv2[x] = Nil => ch2[pa2[x]] = x) /\ (nx2[x] = Nil => la2[pa2[x]] = x)
      BY ONLY <1>1, <1>2, <1>3, <1>6, <2>4, x \in Node DEF FitIs
    <2>5. \A e \in Document : e \in Node /\ nx2[e] = Nil /\ pv2[e] = Nil /\ pa2[e] = Nil /\ (e \in S => do2[e] = e)
      BY ONLY <1>1, <1>2, <1>3, <1>5 DEF FitIs
    <2>6. \A x \in Node :
            /\ nx2[x] \in S \cup {Nil} /\ pv2[x] \in S \cup {Nil} /\ pa2[x] \in S \cup {Nil}
            /\ ch2[x] \in S \cup {Nil} /\ la2[x] \in S \cup {Nil} /\ do2[x] \in R \cup {Nil}
      BY ONLY <1>1, <1>2, <1>3, v \in R \cup {Nil} DEF FitIs
    <2>7. \A x \in Node \ S :
            /\ nx2[x] = Nil /\ pv2[x] = Nil /\ pa2[x] = Nil
            /\ ch2[x] = Nil /\ la2[x] = Nil /\ do2[x] = Nil
      BY ONLY <1>1, <1>2, <1>3, <1>5 DEF FitIs
    <2>8. QED
      BY ONLY <2>1, <2>2, <2>3, <2>4, <2>5, <2>6, <2>7 DEF FitIs
  <1>8. Ranked(nx2) /\ Ranked(pa2)
    BY <1>2, <1>3
  <1>9. QED
    BY <1>7, <1>8, FitMade

\* The list from n on becomes the children of p, which has none.
Filled(nx, pv, pa, ch, la, do, n, p, z, L, B, nx2, pv2, pa2, ch2, la2, do2) ==
  \A x \in Node :
    /\ nx2[x] = IF x = pv[n] THEN Nil ELSE nx[x]
    /\ pv2[x] = IF x = n THEN Nil ELSE pv[x]
    /\ pa2[x] = IF x \in L THEN p ELSE pa[x]
    /\ ch2[x] = IF x = p THEN n ELSE ch[x]
    /\ la2[x] = IF x = p THEN z ELSE la[x]
    /\ do2[x] = IF x \in B THEN do[p] ELSE do[x]

LEMMA FilledFits ==
  ASSUME NEW nx, NEW pv, NEW pa, NEW ch, NEW la, NEW do, NEW S, NEW R, Fit(nx, pv, pa, ch, la, do, S, R),
         NEW n \in Node, n \in S \ Document, pa[n] = Nil, NEW p \in Node, p \in S, ch[p] = Nil, la[p] = Nil,
         NEW z \in Node, IsEnd(nx, n, z),
         NEW L, L = Walk(nx, n), NEW B, B = LowerBy(pa, L), p \notin B,
         NEW nx2 \in Pointers, NEW pv2 \in Pointers, NEW pa2 \in Pointers,
         NEW ch2 \in Pointers, NEW la2 \in Pointers, NEW do2 \in Pointers,
         Filled(nx, pv, pa, ch, la, do, n, p, z, L, B, nx2, pv2, pa2, ch2, la2, do2)
  PROVE  Fit(nx2, pv2, pa2, ch2, la2, do2, S, R)
  <1>1. FitIs(nx, pv, pa, ch, la, do, S, R)
    BY FitFacts
  <1>2. \A x \in Node :
          /\ nx2[x] = IF x = pv[n] THEN Nil ELSE nx[x]
          /\ pv2[x] = IF x = n THEN Nil ELSE pv[x]
          /\ pa2[x] = IF x \in L THEN p ELSE pa[x]
          /\ ch2[x] = IF x = p THEN n ELSE ch[x]
          /\ la2[x] = IF x = p THEN z ELSE la[x]
          /\ do2[x] = IF x \in B THEN do[p] ELSE do[x]
    BY DEF Filled
  <1>3. Ranked(nx) /\ Ranked(pa) /\ nx \in Pointers /\ pa \in Pointers /\ n \in Node /\ p \in Node /\ Nil \notin Node
    BY NodesCounted DEF Fit
  <1>4. Follows(nx, pv, pa, do, n, L, S)
    BY ListIs
  <1>5. /\ L \in SUBSET Node /\ n \in L /\ L \subseteq S
        /\ \A x \in L : nx[x] \in L \cup {Nil} /\ pa[x] = Nil /\ do[x] = do[n]
        /\ \A x \in L : x # n => pv[x] \in L
        /\ pv[n] \notin L
        /\ \A y \in Node : nx[y] \in L => y \in L \/ y = pv[n]
        /\ L \cap Document = {}
    BY ONLY <1>4, n \in S \ Document, pa[n] = Nil DEF Follows
  <1>6. Hangs(pa, L, B, S)
    BY <1>5, LowerIs
  <1>7. /\ L \subseteq B /\ B \in SUBSET Node /\ B \subseteq S /\ B \cap Document = {}
        /\ \A x \in Node : x \in B <=> x \in L \/ (pa[x] # Nil /\ pa[x] \in B)
    BY ONLY <1>5, <1>6 DEF Hangs
  <1>8. z \in L /\ nx[z] = Nil /\ \A x \in L : nx[x] = Nil => x = z
    BY DEF IsEnd
  <1>9. \A x \in Node : pa[x] # p
    <2> SUFFICES ASSUME NEW x \in Node, pa[x] = p PROVE FALSE
      OBVIOUS
    <2>1. PICK C : C = Walk(nx, x)
      OBVIOUS
    <2>2. Follows(nx, pv, pa, do, x, C, S)
      BY <2>1, ListIs
    <2>3. PICK y \in Node : IsEnd(nx, x, y)
      BY ONLY <1>3, x \in Node, WalkEnds
    <2>4. pa[y] = p /\ nx[y] = Nil
      BY <2>1, <2>2, <2>3 DEF Follows, IsEnd
    <2>5. la[p] = y
      BY ONLY <1>1, <1>3, <2>4, y \in Node DEF FitIs
    <2>6. QED
      BY ONLY <1>3, <2>5, la[p] = Nil, y \in Node
  <1>10. p \notin L /\ p \notin B /\ n # p
    BY <1>5, <1>7
  <1>11. \A x \in Node : /\ nx2[x] # Nil => nx2[x] = nx[x] /\ (x \in L <=> nx[x] \in L)
                         /\ pv2[x] # Nil => pv2[x] = pv[x] /\ (x \in L <=> pv[x] \in L)
    <2>1. ASSUME NEW x \in Node, nx2[x] # Nil PROVE nx2[x] = nx[x] /\ (x \in L <=> nx[x] \in L)
      BY ONLY <1>2, <1>5, <2>1
    <2>2. ASSUME NEW x \in Node, pv2[x] # Nil PROVE pv2[x] = pv[x] /\ (x \in L <=> pv[x] \in L)
      <3>1. x # n /\ pv2[x] = pv[x] /\ pv[x] \in Node /\ nx[pv[x]] = x
        BY ONLY <1>1, <1>2, <2>2, <1>3 DEF FitIs
      <3>2. QED
        BY ONLY <1>3, <1>5, <3>1
    <2>3. QED
      BY <2>1, <2>2
  <1>12. FitIs(nx2, pv2, pa2, ch2, la2, do2, S, R)
    <2>1. \A x \in Node : /\ nx2[x] \in Node \cup {Nil} /\ pv2[x] \in Node \cup {Nil} /\ pa2[x] \in Node \cup {Nil}
                          /\ ch2[x] \in Node \cup {Nil} /\ la2[x] \in Node \cup {Nil} /\ do2[x] \in Node \cup {Nil}
      BY DEF Pointers
    <2>2. ASSUME NEW x \in Node, nx2[x] # Nil
          PROVE  pv2[nx2[x]] = x /\ pa2[nx2[x]] = pa2[x] /\ do2[nx2[x]] = do2[x]
      <3>1. PICK y \in Node : y = nx2[x] /\ y = nx[x] /\ (x \in L <=> y \in L)
        BY ONLY <1>11, <2>1, <2>2
      <3>0. nx[x] # Nil /\ y = nx[x] /\ x # pv[n]
        BY ONLY <1>2, <1>3, <2>2, <3>1
      <3>5. pv[y] = x /\ pa[y] = pa[x] /\ do[y] = do[x]
        BY ONLY <1>1, <3>0, x \in Node DEF FitIs
      <3>2. pv[y] = x /\ pa[y] = pa[x] /\ do[y] = do[x] /\ y # n
        BY ONLY <3>0, <3>5
      <3>3. x \in B <=> y \in B
        BY ONLY <1>7, <3>1, <3>2, x \in Node
      <3>4. QED
        BY ONLY <1>2, <3>1, <3>2, <3>3, x \in Node
    <2>3. ASSUME NEW x \in Node, pv2[x] # Nil
          PROVE  nx2[pv2[x]] = x /\ pa2[pv2[x]] = pa2[x] /\ do2[pv2[x]] = do2[x]
      <3>1. PICK y \in Node : y = pv2[x] /\ y = pv[x] /\ (x \in L <=> y \in L)
        BY ONLY <1>11, <2>1, <2>3
      <3>0. pv[x] # Nil /\ y = pv[x] /\ x # n
        BY ONLY <1>2, <1>3, <2>3, <3>1
      <3>6. nx[y] = x /\ pa[y] = pa[x] /\ do[y] = do[x]
        BY ONLY <1>1, <3>0, x \in Node DEF FitIs
      <3>2. nx[y] = x /\ pa[y] = pa[x] /\ do[y] = do[x] /\ x # n
        BY ONLY <3>0, <3>6
      <3>3. y # pv[n]
        BY ONLY <1>1, <1>3, <3>1, <3>2 DEF FitIs
      <3>4. x \in B <=> y \in B
        BY ONLY <1>7, <3>1, <3>2, x \in Node
      <3>5. QED
        BY ONLY <1>2, <3>1, <3>2, <3>3, <3>4, x \in Node
    <2>4. ASSUME NEW x \in Node, ch2[x] # Nil PROVE pa2[ch2[x]] = x /\ pv2[ch2[x]] = Nil
      <3>1. CASE x = p
        BY ONLY <1>2, <1>3, <1>5, <3>1
      <3>2. CASE x # p
        <4>1. PICK c \in Node : c = ch2[x] /\ c = ch[x]
          BY ONLY <1>2, <2>1, <2>4, <3>2
        <4>2. pa[c] = x /\ pv[c] = Nil
          BY ONLY <1>1, <1>3, <4>1, x \in Node DEF FitIs
        <4>3. c \notin L
          BY ONLY <1>3, <1>5, <4>2, x \in Node
        <4>4. QED
          BY ONLY <1>2, <4>1, <4>2, <4>3
      <3>3. QED
        BY <3>1, <3>2
    <2>5. ASSUME NEW x \in Node, la2[x] # Nil PROVE pa2[la2[x]] = x /\ nx2[la2[x]] = Nil
      <3>1. CASE x = p
        BY ONLY <1>2, <1>3, <1>8, <3>1, z \in Node
      <3>2. CASE x # p
        <4>1. PICK c \in Node : c = la2[x] /\ c = la[x]
          BY ONLY <1>2, <2>1, <2>5, <3>2
        <4>2. pa[c] = x /\ nx[c] = Nil
          BY ONLY <1>1, <1>3, <4>1, x \in Node DEF FitIs
        <4>3. c \notin L
          BY ONLY <1>3, <1>5, <4>2, x \in Node
        <4>4. QED
          BY ONLY <1>2, <4>1, <4>2, <4>3
      <3>3. QED
        BY <3>1, <3>2
    <2>6. ASSUME NEW x \in Node, pa2[x] # Nil
          PROVE  do2[pa2[x]] = do2[x] /\ (pv2[x] = Nil => ch2[pa2[x]] = x) /\ (nx2[x] = Nil => la2[pa2[x]] = x)
      <3>1. CASE x \in L
        <4>1. pa2[x] = p /\ do2[p] = do[p] /\ do2[x] = do[p] /\ ch2[p] = n /\ la2[p] = z
          BY ONLY <1>2, <1>3, <1>5, <1>7, <1>10, <3>1
        <4>2. pv2[x] = Nil => x = n
          BY ONLY <1>2, <1>3, <1>5, <3>1
        <4>3. nx2[x] = Nil => x = z
          BY ONLY <1>2, <1>3, <1>5, <1>8, <3>1
        <4>4. QED
          BY ONLY <4>1, <4>2, <4>3
      <3>2. CASE x \notin L
        <4>1. PICK q \in Node : q = pa[x] /\ q = pa2[x] /\ q # Nil /\ q # p
          BY ONLY <1>2, <1>3, <1>9, <2>1, <2>6, <3>2
        <4>0. pa[x] # Nil /\ q = pa[x]
          BY ONLY <4>1
        <4>2. do[q] = do[x] /\ (pv[x] = Nil => ch[q] = x) /\ (nx[x] = Nil => la[q] = x)
          BY ONLY <1>1, <4>0, x \in Node DEF FitIs
        <4>3. x \in B <=> q \in B
          <5>1. x \in B <=> x \in L \/ (pa[x] # Nil /\ pa[x] \in B)
            BY ONLY <1>7, x \in Node
          <5>2. QED
            BY ONLY <3>2, <4>1, <5>1
        <4>4. x # n /\ x # pv[n]
          <5>1. x = pv[n] => pa[x] = pa[n]
            BY ONLY <1>1, <1>3, x \in Node DEF FitIs
          <5>2. QED
            BY ONLY <1>5, <3>2, <4>1, <5>1
        <4>5. QED
          BY ONLY <1>2, <4>1, <4>2, <4>3, <4>4, x \in Node
      <3>3. QED
        BY <3>1, <3>2
    <2>7. \A e \in Document : e \in Node /\ nx2[e] = Nil /\ pv2[e] = Nil /\ pa2[e] = Nil /\ (e \in S => do2[e] = e)
      BY ONLY <1>1, <1>2, <1>3, <1>5, <1>7 DEF FitIs
    <2>8. \A x \in Node :
            /\ nx2[x] \in S \cup {Nil} /\ pv2[x] \in S \cup {Nil} /\ pa2[x] \in S \cup {Nil}
            /\ ch2[x] \in S \cup {Nil} /\ la2[x] \in S \cup {Nil} /\ do2[x] \in R \cup {Nil}
      BY ONLY <1>1, <1>2, <1>3, <1>5, <1>8, p \in S DEF FitIs
    <2>9. \A x \in Node \ S :
            /\ nx2[x] = Nil /\ pv2[x] = Nil /\ pa2[x] = Nil
            /\ ch2[x] = Nil /\ la2[x] = Nil /\ do2[x] = Nil
      BY ONLY <1>1, <1>2, <1>3, <1>5, <1>7, p \in S DEF FitIs
    <2>10. QED
      BY ONLY <2>1, <2>2, <2>3, <2>4, <2>5, <2>6, <2>7, <2>8, <2>9 DEF FitIs
  <1>13. Ranked(nx2)
    <2>1. \A x \in Node : nx2[x] = Nil \/ nx2[x] = nx[x]
      BY <1>2
    <2>2. QED
      BY ONLY <1>3, <2>1, nx2 \in Pointers, RankedSkip
  <1>14. Ranked(pa2)
    <2>1. PICK U : U = Node \ B
      OBVIOUS
    <2>2. ASSUME NEW x \in Node
          PROVE  \/ pa2[x] = Nil
                 \/ pa2[x] = pa[x] /\ (x \in U => pa2[x] \in U)
                 \/ x \notin U /\ pa2[x] \in U
      <3>1. CASE x \in L
        BY ONLY <1>2, <1>3, <1>7, <1>10, <2>1, <3>1
      <3>2. CASE x \notin L
        <4>1. pa2[x] = pa[x] /\ pa[x] \in Node \cup {Nil}
          BY ONLY <1>1, <1>2, <3>2, x \in Node DEF FitIs
        <4>2. x \in B <=> x \in L \/ (pa[x] # Nil /\ pa[x] \in B)
          BY ONLY <1>7, x \in Node
        <4>3. QED
          BY ONLY <2>1, <4>1, <4>2
      <3>3. QED
        BY <3>1, <3>2
    <2>3. \A x \in Node : \/ pa2[x] = Nil
                          \/ pa2[x] = pa[x] /\ (x \in U => pa2[x] \in U)
                          \/ x \notin U /\ pa2[x] \in U
      BY <2>2
    <2>4. QED
      BY ONLY <1>3, <2>3, pa2 \in Pointers, RankedUp
  <1>15. QED
    BY <1>12, <1>13, <1>14, FitMade

\* A parent of some has a first and a last one, which are one only if it has
\* one only.
LEMMA BothEnds ==
  ASSUME NEW nx, NEW pv, NEW pa, NEW ch, NEW la, NEW do, NEW S, NEW R, Fit(nx, pv, pa, ch, la, do, S, R),
         NEW x \in Node, pa[x] # Nil
  PROVE  la[pa[x]] # Nil /\ ch[pa[x]] # Nil /\ IsEnd(nx, x, la[pa[x]]) /\ IsEnd(pv, x, ch[pa[x]])
  <1>1. ASSUME NEW nx1, NEW pv1, NEW ch1, NEW la1, Fit(nx1, pv1, pa, ch1, la1, do, S, R)
        PROVE  la1[pa[x]] # Nil /\ IsEnd(nx1, x, la1[pa[x]])
    <2>1. FitIs(nx1, pv1, pa, ch1, la1, do, S, R)
      BY <1>1, FitFacts
    <2>2. PICK C : C = Walk(nx1, x)
      OBVIOUS
    <2>3. Follows(nx1, pv1, pa, do, x, C, S)
      BY <1>1, <2>2, ListIs
    <2>4. PICK y \in Node : IsEnd(nx1, x, y)
      BY <1>1, WalkEnds DEF Fit
    <2>5. pa[y] = pa[x] /\ nx1[y] = Nil /\ y # Nil
      BY <2>2, <2>3, <2>4, NodesCounted DEF Follows, IsEnd
    <2>6. la1[pa[x]] = y
      BY ONLY <2>1, <2>5, y \in Node, pa[x] # Nil DEF FitIs
    <2>7. QED
      BY ONLY <2>4, <2>5, <2>6
  <1>2. Fit(pv, nx, pa, la, ch, do, S, R)
    BY Mirrored
  <1>3. QED
    BY <1>1, <1>2

-----------------------------------------------------------------------------
(* Trees, pointer by pointer. *)

Trees == [Pointer -> [Node -> Node \cup {Nil}]]

LEMMA Dots ==
  ASSUME NEW t \in Trees
  PROVE  /\ t.parent \in Pointers /\ t.prev \in Pointers /\ t.next \in Pointers
         /\ t.children \in Pointers /\ t.last \in Pointers /\ t.doc \in Pointers
         /\ \A x \in Node : /\ t.parent[x] \in Node \cup {Nil} /\ t.prev[x] \in Node \cup {Nil}
                             /\ t.next[x] \in Node \cup {Nil} /\ t.children[x] \in Node \cup {Nil}
                             /\ t.last[x] \in Node \cup {Nil} /\ t.doc[x] \in Node \cup {Nil}
  BY DEF Trees, Pointer, Pointers

LEMMA AlongIs ==
  ASSUME NEW t, NEW n, NEW L
  PROVE  /\ Along(t, "next", n) = Walk(t.next, n) /\ Along(t, "prev", n) = Walk(t.prev, n)
         /\ Along(t, "parent", n) = Walk(t.parent, n) /\ Below(t, L) = LowerBy(t.parent, L)
  BY DEF Along, Walk, Below, LowerBy

IsPut(u, t, p, n, x) ==
  /\ u \in Trees
  /\ \A m \in Node : u[p][m] = IF m = n THEN x ELSE t[p][m]
  /\ \A q \in Pointer : q # p => u[q] = t[q]

LEMMA PutIs ==
  ASSUME NEW t \in Trees, NEW p \in Pointer, NEW n \in Node \cup {Nil}, NEW x \in Node \cup {Nil}
  PROVE  IsPut(Put(t, p, n, x), t, p, n, x)
  <1>1. PICK f : f = PutIn(t[p], n, x)
    OBVIOUS
  <1>2. PICK u : u = [t EXCEPT ![p] = f]
    OBVIOUS
  <1>3. f \in [Node -> Node \cup {Nil}] /\ \A m \in Node : f[m] = IF m = n THEN x ELSE t[p][m]
    <2>1. t[p] \in [Node -> Node \cup {Nil}] /\ Nil \notin Node
      BY NodesCounted DEF Trees
    <2>2. CASE n = Nil
      BY ONLY <1>1, <2>1, <2>2 DEF PutIn
    <2>3. CASE n # Nil
      BY ONLY <1>1, <2>1, <2>3, n \in Node \cup {Nil}, x \in Node \cup {Nil} DEF PutIn
    <2>4. QED
      BY ONLY <2>2, <2>3
  <1>4. u \in Trees /\ u[p] = f /\ \A q \in Pointer : q # p => u[q] = t[q]
    BY <1>2, <1>3 DEF Trees
  <1>5. Put(t, p, n, x) = u
    BY ONLY <1>1, <1>2 DEF Put
  <1>6. QED
    BY ONLY <1>3, <1>4, <1>5 DEF IsPut

LEMMA PutAllIs ==
  ASSUME NEW t \in Trees, NEW p \in Pointer, NEW S, NEW x \in Node \cup {Nil}
  PROVE  /\ PutAll(t, p, S, x) \in Trees
         /\ \A q \in Pointer, m \in Node : q = p => PutAll(t, p, S, x)[q][m] = IF m \in S THEN x ELSE t[q][m]
         /\ \A q \in Pointer : q # p => PutAll(t, p, S, x)[q] = t[q]
  <1>1. PICK f : f = [n \in Node |-> IF n \in S THEN x ELSE t[p][n]]
    OBVIOUS
  <1>2. PICK u : u = [t EXCEPT ![p] = f]
    OBVIOUS
  <1>3. f \in [Node -> Node \cup {Nil}]
    BY <1>1 DEF Trees
  <1>4. u \in Trees /\ u[p] = f /\ \A q \in Pointer : q # p => u[q] = t[q]
    BY <1>2, <1>3 DEF Trees
  <1>5. PutAll(t, p, S, x) = u
    BY <1>1, <1>2 DEF PutAll
  <1>6. QED
    BY ONLY <1>1, <1>4, <1>5

ParentPut(u, t, n, x) ==
  /\ u \in Trees /\ u.prev = t.prev /\ u.next = t.next
  /\ u.children = t.children /\ u.last = t.last /\ u.doc = t.doc
  /\ \A m \in Node : u.parent[m] = IF m = n THEN x ELSE t.parent[m]

LEMMA PutParent ==
  ASSUME NEW t \in Trees, NEW n \in Node \cup {Nil}, NEW x \in Node \cup {Nil}, NEW u, u = Put(t, "parent", n, x)
  PROVE  ParentPut(u, t, n, x)
  <1>1. "parent" \in Pointer
    BY DEF Pointer
  <1>2. IsPut(u, t, "parent", n, x)
    BY <1>1, PutIs
  <1>3. QED
    BY ONLY <1>2 DEF IsPut, Pointer, ParentPut

PrevPut(u, t, n, x) ==
  /\ u \in Trees /\ u.parent = t.parent /\ u.next = t.next
  /\ u.children = t.children /\ u.last = t.last /\ u.doc = t.doc
  /\ \A m \in Node : u.prev[m] = IF m = n THEN x ELSE t.prev[m]

LEMMA PutPrev ==
  ASSUME NEW t \in Trees, NEW n \in Node \cup {Nil}, NEW x \in Node \cup {Nil}, NEW u, u = Put(t, "prev", n, x)
  PROVE  PrevPut(u, t, n, x)
  <1>1. "prev" \in Pointer
    BY DEF Pointer
  <1>2. IsPut(u, t, "prev", n, x)
    BY <1>1, PutIs
  <1>3. QED
    BY ONLY <1>2 DEF IsPut, Pointer, PrevPut

NextPut(u, t, n, x) ==
  /\ u \in Trees /\ u.parent = t.parent /\ u.prev = t.prev
  /\ u.children = t.children /\ u.last = t.last /\ u.doc = t.doc
  /\ \A m \in Node : u.next[m] = IF m = n THEN x ELSE t.next[m]

LEMMA PutNext ==
  ASSUME NEW t \in Trees, NEW n \in Node \cup {Nil}, NEW x \in Node \cup {Nil}, NEW u, u = Put(t, "next", n, x)
  PROVE  NextPut(u, t, n, x)
  <1>1. "next" \in Pointer
    BY DEF Pointer
  <1>2. IsPut(u, t, "next", n, x)
    BY <1>1, PutIs
  <1>3. QED
    BY ONLY <1>2 DEF IsPut, Pointer, NextPut

ChildrenPut(u, t, n, x) ==
  /\ u \in Trees /\ u.parent = t.parent /\ u.prev = t.prev
  /\ u.next = t.next /\ u.last = t.last /\ u.doc = t.doc
  /\ \A m \in Node : u.children[m] = IF m = n THEN x ELSE t.children[m]

LEMMA PutChildren ==
  ASSUME NEW t \in Trees, NEW n \in Node \cup {Nil}, NEW x \in Node \cup {Nil}, NEW u, u = Put(t, "children", n, x)
  PROVE  ChildrenPut(u, t, n, x)
  <1>1. "children" \in Pointer
    BY DEF Pointer
  <1>2. IsPut(u, t, "children", n, x)
    BY <1>1, PutIs
  <1>3. QED
    BY ONLY <1>2 DEF IsPut, Pointer, ChildrenPut

LastPut(u, t, n, x) ==
  /\ u \in Trees /\ u.parent = t.parent /\ u.prev = t.prev
  /\ u.next = t.next /\ u.children = t.children /\ u.doc = t.doc
  /\ \A m \in Node : u.last[m] = IF m = n THEN x ELSE t.last[m]

LEMMA PutLast ==
  ASSUME NEW t \in Trees, NEW n \in Node \cup {Nil}, NEW x \in Node \cup {Nil}, NEW u, u = Put(t, "last", n, x)
  PROVE  LastPut(u, t, n, x)
  <1>1. "last" \in Pointer
    BY DEF Pointer
  <1>2. IsPut(u, t, "last", n, x)
    BY <1>1, PutIs
  <1>3. QED
    BY ONLY <1>2 DEF IsPut, Pointer, LastPut

DocPut(u, t, n, x) ==
  /\ u \in Trees /\ u.parent = t.parent /\ u.prev = t.prev
  /\ u.next = t.next /\ u.children = t.children /\ u.last = t.last
  /\ \A m \in Node : u.doc[m] = IF m = n THEN x ELSE t.doc[m]

LEMMA PutDoc ==
  ASSUME NEW t \in Trees, NEW n \in Node \cup {Nil}, NEW x \in Node \cup {Nil}, NEW u, u = Put(t, "doc", n, x)
  PROVE  DocPut(u, t, n, x)
  <1>1. "doc" \in Pointer
    BY DEF Pointer
  <1>2. IsPut(u, t, "doc", n, x)
    BY <1>1, PutIs
  <1>3. QED
    BY ONLY <1>2 DEF IsPut, Pointer, DocPut

ParentPutAll(u, t, X, x) ==
  /\ u \in Trees /\ u.prev = t.prev /\ u.next = t.next
  /\ u.children = t.children /\ u.last = t.last /\ u.doc = t.doc
  /\ \A m \in Node : u.parent[m] = IF m \in X THEN x ELSE t.parent[m]

LEMMA PutAllParent ==
  ASSUME NEW t \in Trees, NEW X, NEW x \in Node \cup {Nil}, NEW u, u = PutAll(t, "parent", X, x)
  PROVE  ParentPutAll(u, t, X, x)
  BY PutAllIs DEF Pointer, ParentPutAll

DocPutAll(u, t, X, x) ==
  /\ u \in Trees /\ u.parent = t.parent /\ u.prev = t.prev
  /\ u.next = t.next /\ u.children = t.children /\ u.last = t.last
  /\ \A m \in Node : u.doc[m] = IF m \in X THEN x ELSE t.doc[m]

LEMMA PutAllDoc ==
  ASSUME NEW t \in Trees, NEW X, NEW x \in Node \cup {Nil}, NEW u, u = PutAll(t, "doc", X, x)
  PROVE  DocPutAll(u, t, X, x)
  BY PutAllIs DEF Pointer, DocPutAll

Forest(t, S, R) ==
  t \in Trees /\ Fit(t.next, t.prev, t.parent, t.children, t.last, t.doc, S, R)

LEMMA LowerSame ==
  ASSUME NEW r \in Pointers, NEW s \in Pointers, NEW L, \A x \in Node \ L : r[x] = s[x]
  PROVE  LowerBy(r, L) = LowerBy(s, L)
  <1>1. ASSUME NEW r1 \in Pointers, NEW s1 \in Pointers, \A x \in Node \ L : r1[x] = s1[x],
               NEW n \in Node, Walk(s1, n) \cap L = {}
        PROVE  Walk(r1, n) \cap L = {}
    <2>1. Walk(s1, n) \in SUBSET Node
      BY <1>1, WalkWithin, NodesCounted
    <2>2. \A x \in Walk(s1, n) : s1[x] = r1[x]
      BY <1>1, <2>1
    <2>3. Walk(r1, n) = Walk(s1, n)
      BY ONLY <1>1, <2>2, WalkSame
    <2>4. QED
      BY <1>1, <2>3
  <1>2. QED
    BY <1>1 DEF LowerBy

LEMMA EndIs ==
  ASSUME NEW t \in Trees, NEW p \in Pointer, NEW n \in Node \cup {Nil}
  PROVE  End(t, p, n) \in Node \cup {Nil} /\ \A z \in Node : IsEnd(t[p], n, z) => End(t, p, n) = z
  <1>1. t[p] \in Pointers /\ Along(t, p, n) = Walk(t[p], n)
    BY DEF Trees, Pointers, Along, Walk
  <1>2. Walk(t[p], n) \in SUBSET Node
    BY <1>1, WalkWithin
  <1>3. ASSUME NEW z \in Node, IsEnd(t[p], n, z) PROVE End(t, p, n) = z
    <2>1. z \in Along(t, p, n) /\ \A m \in Along(t, p, n) : t[p][m] = Nil <=> m = z
      BY <1>1, <1>3 DEF IsEnd
    <2>2. (CHOOSE m \in Along(t, p, n) : t[p][m] = Nil) = z
      BY <2>1
    <2>3. QED
      BY <2>1, <2>2 DEF End
  <1>4. End(t, p, n) \in Node \cup {Nil}
    <2>1. ASSUME \E m \in Along(t, p, n) : t[p][m] = Nil
          PROVE  (CHOOSE m \in Along(t, p, n) : t[p][m] = Nil) \in Node
      BY <1>1, <1>2, <2>1
    <2>2. QED
      BY <2>1 DEF End
  <1>5. QED
    BY <1>3, <1>4

Severed(u, t, n) ==
  /\ u \in Trees /\ u.children = t.children /\ u.last = t.last /\ u.doc = t.doc
  /\ \A m \in Node : /\ u.parent[m] = IF m = n THEN Nil ELSE t.parent[m]
                     /\ u.next[m] = IF m = n THEN Nil ELSE t.next[m]
                     /\ u.prev[m] = IF m = n THEN Nil ELSE t.prev[m]

LEMMA Severs ==
  ASSUME NEW t \in Trees, NEW n \in Node, NEW u, u = [t EXCEPT !.parent[n] = Nil, !.next[n] = Nil, !.prev[n] = Nil]
  PROVE  Severed(u, t, n)
  <1>1. u \in Trees
    BY DEF Trees, Pointer
  <1>2. u.children = t.children /\ u.last = t.last /\ u.doc = t.doc
    BY DEF Trees, Pointer
  <1>3. \A m \in Node : u.parent[m] = IF m = n THEN Nil ELSE t.parent[m]
    BY DEF Trees, Pointer
  <1>4. \A m \in Node : u.next[m] = IF m = n THEN Nil ELSE t.next[m]
    BY DEF Trees, Pointer
  <1>5. \A m \in Node : u.prev[m] = IF m = n THEN Nil ELSE t.prev[m]
    BY DEF Trees, Pointer
  <1>6. QED
    BY ONLY <1>1, <1>2, <1>3, <1>4, <1>5 DEF Severed

LEMMA UnlinkIs ==
  ASSUME NEW t \in Trees, NEW n \in Node, NEW u, u = xmlUnlinkNode(t, n)
  PROVE  /\ u \in Trees
         /\ Unlinks(t.next, t.prev, t.parent, t.children, t.last, t.doc, n,
                    u.next, u.prev, u.parent, u.children, u.last, u.doc)
  <1>1. PICK p, nx, pv : p = t.parent[n] /\ nx = t.next[n] /\ pv = t.prev[n]
    OBVIOUS
  <1>2. p \in Node \cup {Nil} /\ nx \in Node \cup {Nil} /\ pv \in Node \cup {Nil} /\ \A m \in Node : m # Nil
    BY <1>1, Dots, NodesCounted
  <1>3. PICK a : a = IF p # Nil /\ t.children[p] = n THEN Put(t, "children", p, nx) ELSE t
    OBVIOUS
  <1>4. PICK b : b = IF p # Nil /\ t.last[p] = n THEN Put(a, "last", p, pv) ELSE a
    OBVIOUS
  <1>5. PICK c : c = Put(b, "prev", nx, pv)
    OBVIOUS
  <1>6. PICK d : d = Put(c, "next", pv, nx)
    OBVIOUS
  <1>7. u = [d EXCEPT !.parent[n] = Nil, !.next[n] = Nil, !.prev[n] = Nil]
    BY ONLY u = xmlUnlinkNode(t, n), <1>1, <1>3, <1>4, <1>5, <1>6 DEF xmlUnlinkNode
  <1>8. /\ a \in Trees /\ a.parent = t.parent /\ a.prev = t.prev /\ a.next = t.next /\ a.last = t.last /\ a.doc = t.doc
        /\ \A m \in Node : a.children[m] = IF m = p /\ t.children[m] = n THEN nx ELSE t.children[m]
    <2>1. CASE p # Nil /\ t.children[p] = n
      <3>1. ChildrenPut(a, t, p, nx)
        BY <1>2, <1>3, <2>1, PutChildren
      <3>2. QED
        BY ONLY <2>1, <3>1 DEF ChildrenPut
    <2>2. CASE ~(p # Nil /\ t.children[p] = n)
      BY <1>2, <1>3, <2>2
    <2>3. QED
      BY <2>1, <2>2
  <1>9. /\ b \in Trees /\ b.parent = t.parent /\ b.prev = t.prev /\ b.next = t.next /\ b.children = a.children /\ b.doc = t.doc
        /\ \A m \in Node : b.last[m] = IF m = p /\ t.last[m] = n THEN pv ELSE t.last[m]
    <2>1. CASE p # Nil /\ t.last[p] = n
      <3>1. LastPut(b, a, p, pv)
        BY <1>2, <1>4, <1>8, <2>1, PutLast
      <3>2. QED
        BY ONLY <1>8, <2>1, <3>1 DEF LastPut
    <2>2. CASE ~(p # Nil /\ t.last[p] = n)
      BY <1>2, <1>4, <1>8, <2>2
    <2>3. QED
      BY <2>1, <2>2
  <1>10. PrevPut(c, b, nx, pv)
    BY <1>2, <1>5, <1>9, PutPrev
  <1>11. NextPut(d, c, pv, nx)
    BY <1>2, <1>6, <1>10, PutNext DEF PrevPut
  <1>12. Severed(u, d, n)
    BY <1>7, <1>11, Severs DEF NextPut
  <1>13. QED
    BY ONLY <1>1, <1>8, <1>9, <1>10, <1>11, <1>12 DEF Unlinks, PrevPut, NextPut, Severed

LEMMA UnlinkForest ==
  ASSUME NEW t, NEW S, NEW R, Forest(t, S, R), NEW n \in Node
  PROVE  Forest(xmlUnlinkNode(t, n), S, R)
  <1>1. PICK u : u = xmlUnlinkNode(t, n)
    OBVIOUS
  <1>2. t \in Trees /\ u \in Trees
    BY <1>1, UnlinkIs DEF Forest
  <1>3. Fit(u.next, u.prev, u.parent, u.children, u.last, u.doc, S, R)
    BY <1>1, <1>2, Dots, UnlinkIs, UnlinkFits DEF Forest
  <1>4. QED
    BY <1>1, <1>2, <1>3 DEF Forest

\* The list from the first child of p on is all of p's children.
LEMMA ChildrenAre ==
  ASSUME NEW nx, NEW pv, NEW pa, NEW ch, NEW la, NEW do, NEW S, NEW R, Fit(nx, pv, pa, ch, la, do, S, R),
         NEW p \in Node
  PROVE  Walk(nx, ch[p]) = {x \in Node : pa[x] = p} /\ (ch[p] = Nil <=> la[p] = Nil)
  <1>1. FitIs(nx, pv, pa, ch, la, do, S, R) /\ Nil \notin Node
    BY FitFacts, NodesCounted
  <1>2. nx \in Pointers /\ pv \in Pointers /\ Ranked(nx) /\ ch[p] \in Node \cup {Nil} /\ la[p] \in Node \cup {Nil}
    BY <1>1 DEF Fit, FitIs
  <1>3. ASSUME NEW x \in Node, pa[x] = p PROVE x \in Walk(nx, ch[p]) /\ la[p] # Nil /\ ch[p] # Nil
    <2>1. la[p] # Nil /\ ch[p] # Nil /\ IsEnd(pv, x, ch[p])
      BY <1>1, <1>3, BothEnds
    <2>2. PICK C : C = {y \in Walk(pv, x) : x \in Walk(nx, y)}
      OBVIOUS
    <2>3. x \in C
      BY <1>2, <2>2, WalkWithin, <1>1, <1>3
    <2>4. ASSUME NEW y \in C PROVE pv[y] \in C \cup {Nil}
      <3>1. y \in Node /\ x \in Walk(nx, y) /\ y \in Walk(pv, x)
        BY <1>2, <2>2, WalkWithin, <1>1
      <3>2. pv[y] # Nil => pv[y] \in Node /\ nx[pv[y]] = y
        BY ONLY <1>1, <3>1 DEF FitIs
      <3>3. pv[y] # Nil => Walk(nx, pv[y]) = {pv[y]} \cup Walk(nx, y)
        BY <1>2, <3>2, WalkGoesOn
      <3>4. pv[y] \in Walk(pv, x) \cup {Nil}
        BY <1>2, <3>1, WalkCloses DEF Fit
      <3>5. QED
        BY ONLY <2>2, <3>1, <3>3, <3>4
    <2>5. Walk(pv, x) \subseteq C
      BY ONLY <1>2, <2>3, <2>4, x \in Node, WalkWithin
    <2>6. QED
      BY <2>1, <2>2, <2>5 DEF IsEnd
  <1>4. CASE ch[p] = Nil
    <2>1. la[p] = Nil
      <3>1. la[p] # Nil => pa[la[p]] = p /\ la[p] \in Node
        BY <1>1, <1>2 DEF FitIs
      <3>2. QED
        BY <1>3, <1>4, <3>1
    <2>2. Walk(nx, ch[p]) = {}
      BY <1>2, <1>4, WalkWithin
    <2>3. QED
      BY <1>3, <1>4, <2>1, <2>2
  <1>5. CASE ch[p] # Nil
    <2>1. pa[ch[p]] = p /\ ch[p] \in Node
      BY <1>1, <1>2, <1>5 DEF FitIs
    <2>2. la[p] # Nil
      BY <1>3, <2>1
    <2>3. Follows(nx, pv, pa, do, ch[p], Walk(nx, ch[p]), S)
      BY <2>1, ListIs
    <2>4. \A x \in Walk(nx, ch[p]) : x \in Node /\ pa[x] = p
      BY <2>1, <2>3 DEF Follows
    <2>5. QED
      BY <1>3, <1>5, <2>2, <2>4
  <1>6. QED
    BY <1>4, <1>5

\* What the setter does to the pointers.
ParentSet(t, n, p, q, end, L, z, u) ==
  /\ u \in Trees /\ z \in Node \cup {Nil} /\ L = Walk(u.next, n)
  /\ \A y \in Node : IsEnd(u.next, n, y) => z = y
  /\ \A x \in Node :
       /\ u.next[x] = IF x = end THEN n ELSE IF x = t.prev[n] THEN Nil ELSE t.next[x]
       /\ u.prev[x] = IF x = n THEN end ELSE t.prev[x]
       /\ u.parent[x] = IF x \in L \/ x = n THEN p ELSE t.parent[x]
       /\ u.children[x] = IF x = p /\ end = Nil THEN n ELSE IF x = q THEN Nil ELSE t.children[x]
       /\ u.last[x] = IF x = p THEN z ELSE IF x = q THEN Nil ELSE t.last[x]
       /\ u.doc[x] = IF x \in LowerBy(u.parent, L) THEN t.doc[p] ELSE t.doc[x]

LEMMA SetParentIs ==
  ASSUME NEW t \in Trees, NEW n \in Node, NEW p \in Node, NEW u, u = SetParent(t, n, p),
         NEW q, q = t.parent[n], NEW end, end = IF p = q THEN Nil ELSE t.last[p]
  PROVE  \E L, z : ParentSet(t, n, p, q, end, L, z, u)
  <1>1. PICK v : v = t.prev[n]
    OBVIOUS
  <1>2. /\ q \in Node \cup {Nil} /\ v \in Node \cup {Nil} /\ end \in Node \cup {Nil} /\ t.doc[p] \in Node \cup {Nil}
        /\ Nil \in Node \cup {Nil} /\ \A m \in Node : m # Nil /\ m \in Node \cup {Nil}
    BY <1>1, Dots, NodesCounted
  <1>3. PICK a1, a : a1 = Put(t, "next", v, Nil) /\ a = Put(a1, "prev", n, Nil)
    OBVIOUS
  <1>4. PICK b1, b2, b : b1 = Put(a, "parent", n, p) /\ b2 = Put(b1, "last", q, Nil) /\ b = Put(b2, "children", q, Nil)
    OBVIOUS
  <1>5. NextPut(a1, t, v, Nil)
    BY <1>2, <1>3, PutNext
  <1>6. PrevPut(a, a1, n, Nil)
    BY <1>2, <1>3, <1>5, PutPrev DEF NextPut
  <1>7. ParentPut(b1, a, n, p)
    BY <1>2, <1>4, <1>6, PutParent DEF PrevPut
  <1>8. LastPut(b2, b1, q, Nil)
    BY <1>2, <1>4, <1>7, PutLast DEF ParentPut
  <1>9. ChildrenPut(b, b2, q, Nil)
    BY <1>2, <1>4, <1>8, PutChildren DEF LastPut
  <1>10. /\ b \in Trees /\ b.doc = t.doc
         /\ \A x \in Node :
              /\ b.next[x] = IF x = v THEN Nil ELSE t.next[x]
              /\ b.prev[x] = IF x = n THEN Nil ELSE t.prev[x]
              /\ b.parent[x] = IF x = n THEN p ELSE t.parent[x]
              /\ b.children[x] = IF x = q THEN Nil ELSE t.children[x]
              /\ b.last[x] = IF x = q THEN Nil ELSE t.last[x]
    BY ONLY <1>5, <1>6, <1>7, <1>8, <1>9 DEF NextPut, PrevPut, ParentPut, LastPut, ChildrenPut
  <1>11. end = b.last[p]
    BY <1>10
  <1>12. PICK c1, c : c1 = Put(b, "prev", n, end) /\ c = Put(c1, "next", end, n)
    OBVIOUS
  <1>13. PrevPut(c1, b, n, end)
    BY <1>2, <1>10, <1>12, PutPrev
  <1>14. NextPut(c, c1, end, n)
    BY <1>2, <1>12, <1>13, PutNext DEF PrevPut
  <1>15. PICK d : d = IF end = Nil THEN Put(c, "children", p, n) ELSE c
    OBVIOUS
  <1>16. /\ d \in Trees /\ d.next = c.next /\ d.prev = c.prev /\ d.parent = c.parent /\ d.last = c.last /\ d.doc = c.doc
         /\ \A x \in Node : d.children[x] = IF x = p /\ end = Nil THEN n ELSE c.children[x]
    <2>1. CASE end = Nil
      <3>1. ChildrenPut(d, c, p, n)
        BY <1>2, <1>14, <1>15, <2>1, PutChildren DEF NextPut
      <3>2. QED
        BY ONLY <2>1, <3>1 DEF ChildrenPut
    <2>2. CASE end # Nil
      BY <1>14, <1>15, <2>2 DEF NextPut
    <2>3. QED
      BY <2>1, <2>2
  <1>17. PICK L, z : L = Along(d, "next", n) /\ z = End(d, "next", n)
    OBVIOUS
  <1>18. L = Walk(d.next, n)
    BY <1>17, AlongIs
  <1>19. z \in Node \cup {Nil} /\ \A y \in Node : IsEnd(d.next, n, y) => z = y
    <2>1. PICK r \in Pointer : r = "next"
      BY DEF Pointer
    <2>2. End(d, r, n) \in Node \cup {Nil} /\ \A y \in Node : IsEnd(d[r], n, y) => End(d, r, n) = y
      BY <1>2, <1>16, EndIs
    <2>3. QED
      BY ONLY <1>17, <2>1, <2>2
  <1>20. PICK e1, e : e1 = PutAll(d, "parent", L, p) /\ e = Put(e1, "last", p, z)
    OBVIOUS
  <1>21. ParentPutAll(e1, d, L, p)
    BY <1>2, <1>16, <1>20, PutAllParent
  <1>22. LastPut(e, e1, p, z)
    BY <1>2, <1>19, <1>20, <1>21, PutLast DEF ParentPutAll
  <1>23. u = xmlSetListDoc(e, n, t.doc[p])
    BY ONLY u = SetParent(t, n, p), q = t.parent[n], <1>1, <1>3, <1>4, <1>11, <1>12, <1>15, <1>17, <1>20, ZenonT(60) DEF SetParent
  <1>24. e.next = d.next
    BY <1>21, <1>22 DEF ParentPutAll, LastPut
  <1>25. u = PutAll(e, "doc", LowerBy(e.parent, L), t.doc[p])
    BY <1>18, <1>23, <1>24, AlongIs DEF xmlSetListDoc, xmlSetTreeDoc
  <1>26. DocPutAll(u, e, LowerBy(e.parent, L), t.doc[p])
    BY <1>2, <1>22, <1>25, PutAllDoc DEF LastPut
  <1>27. u.next = d.next /\ u.parent = e.parent
    BY <1>24, <1>26 DEF DocPutAll
  <1>28. \A x \in Node :
           /\ u.next[x] = IF x = end THEN n ELSE IF x = v THEN Nil ELSE t.next[x]
           /\ u.prev[x] = IF x = n THEN end ELSE t.prev[x]
           /\ u.parent[x] = IF x \in L \/ x = n THEN p ELSE t.parent[x]
           /\ u.children[x] = IF x = p /\ end = Nil THEN n ELSE IF x = q THEN Nil ELSE t.children[x]
           /\ u.last[x] = IF x = p THEN z ELSE IF x = q THEN Nil ELSE t.last[x]
           /\ u.doc[x] = IF x \in LowerBy(u.parent, L) THEN t.doc[p] ELSE t.doc[x]
    BY ONLY <1>10, <1>13, <1>14, <1>16, <1>21, <1>22, <1>26, <1>27
       DEF PrevPut, NextPut, ParentPutAll, LastPut, DocPutAll
  <1>29. ParentSet(t, n, p, q, end, L, z, u)
    BY ONLY <1>1, <1>18, <1>19, <1>26, <1>27, <1>28 DEF ParentSet, DocPutAll
  <1>30. QED
    BY <1>29

LEMMA EndSame ==
  ASSUME NEW r \in Pointers, NEW s \in Pointers, Ranked(r), NEW n \in Node, NEW z \in Node, IsEnd(r, n, z),
         \A x \in Walk(r, n) : s[x] = r[x]
  PROVE  IsEnd(s, n, z) /\ Walk(s, n) = Walk(r, n)
  <1>1. Walk(s, n) = Walk(r, n) /\ Walk(r, n) \in SUBSET Node
    BY WalkSame, WalkWithin
  <1>2. ASSUME NEW x \in Walk(r, n) PROVE Walk(s, x) = Walk(r, x)
    <2>1. x \in Node /\ Walk(r, x) \subseteq Walk(r, n)
      BY <1>1, WalkGoesOn
    <2>2. \A y \in Walk(r, x) : s[y] = r[y]
      BY <2>1
    <2>3. QED
      BY <2>1, <2>2, WalkSame
  <1>3. QED
    BY <1>1, <1>2 DEF IsEnd

LEMMA SetParentForest ==
  ASSUME NEW t, NEW S, NEW R, Forest(t, S, R), NEW n \in Node, n \in S \ Document, NEW p \in Node, p \in S,
         SetParentSafe(t, n, p)
  PROVE  Forest(SetParent(t, n, p), S, R)
  <1>1. PICK u, q, end : u = SetParent(t, n, p) /\ q = t.parent[n] /\ end = IF p = q THEN Nil ELSE t.last[p]
    OBVIOUS
  <1>2. t \in Trees /\ Fit(t.next, t.prev, t.parent, t.children, t.last, t.doc, S, R)
    BY DEF Forest
  <1>3. PICK L, z : ParentSet(t, n, p, q, end, L, z, u)
    BY <1>1, <1>2, SetParentIs
  <1>4. FitIs(t.next, t.prev, t.parent, t.children, t.last, t.doc, S, R)
    BY <1>2, FitFacts
  <1>5. PICK M, B : M = Walk(t.next, n) /\ B = LowerBy(t.parent, M)
    OBVIOUS
  <1>6. (q = Nil \/ t.prev[n] = Nil) /\ p \notin B
    BY <1>1, <1>5, AlongIs DEF SetParentSafe
  <1>7. Follows(t.next, t.prev, t.parent, t.doc, n, M, S)
    BY <1>2, <1>5, ListIs
  <1>8. /\ M \in SUBSET Node /\ n \in M
        /\ \A x \in M : t.parent[x] = q
        /\ t.prev[n] \notin M /\ M \cap Document = {}
    BY <1>1, <1>7, n \in S \ Document DEF Follows
  <1>9. Hangs(t.parent, M, B, S)
    BY <1>2, <1>5, <1>8, LowerIs
  <1>10. /\ t.next \in Pointers /\ t.parent \in Pointers /\ t.prev \in Pointers /\ u.next \in Pointers /\ u.parent \in Pointers
         /\ Ranked(t.next) /\ Nil \notin Node /\ q \in Node \cup {Nil} /\ end \in Node \cup {Nil}
    <2>1. u \in Trees
      BY <1>3 DEF ParentSet
    <2>2. u.next \in Pointers /\ u.parent \in Pointers
      BY <2>1, Dots
    <2>3. q \in Node \cup {Nil} /\ end \in Node \cup {Nil}
      BY <1>1, <1>2, Dots
    <2>4. QED
      BY <1>2, <2>2, <2>3, NodesCounted DEF Fit
  <1>11. /\ end # Nil => end \in Node /\ t.parent[end] = p /\ t.next[end] = Nil /\ end \in S \ Document /\ q # p
         /\ end \notin B /\ end \notin M
    <2>1. ASSUME end # Nil
          PROVE  end \in Node /\ t.parent[end] = p /\ t.next[end] = Nil /\ end \in S \ Document /\ q # p
      <3>1. q # p /\ end = t.last[p] /\ end \in Node
        BY ONLY <1>1, <1>10, <2>1
      <3>2. t.parent[end] = p /\ t.next[end] = Nil /\ end \in S
        BY ONLY <1>4, <2>1, <3>1, p \in Node DEF FitIs
      <3>3. end \notin Document
        BY ONLY <1>4, <1>10, <3>2, p \in Node DEF FitIs
      <3>4. QED
        BY ONLY <3>1, <3>2, <3>3
    <2>2. B \in SUBSET Node /\ \A x \in Node : x \in B <=> x \in M \/ (t.parent[x] # Nil /\ t.parent[x] \in B)
      BY <1>9 DEF Hangs
    <2>3. QED
      BY ONLY <1>6, <1>8, <1>10, <2>1, <2>2, p \in Node
  <1>12. PICK y \in Node : IsEnd(t.next, n, y)
    BY <1>10, WalkEnds
  <1>13. IsEnd(u.next, n, y) /\ Walk(u.next, n) = M
    <2>1. \A x \in M : u.next[x] = t.next[x]
      BY ONLY <1>3, <1>8, <1>11 DEF ParentSet
    <2>2. QED
      BY <1>5, <1>10, <1>12, <2>1, EndSame
  <1>14. L = M /\ z = y
    BY ONLY <1>3, <1>12, <1>13 DEF ParentSet
  <1>15. LowerBy(u.parent, L) = B
    <2>1. \A x \in Node \ M : u.parent[x] = t.parent[x]
      BY ONLY <1>3, <1>8, <1>14 DEF ParentSet
    <2>2. QED
      BY ONLY <1>5, <1>10, <1>14, <2>1, LowerSame
  <1>16. /\ u \in Trees
         /\ \A x \in Node :
              /\ u.next[x] = IF x = end THEN n ELSE IF x = t.prev[n] THEN Nil ELSE t.next[x]
              /\ u.prev[x] = IF x = n THEN end ELSE t.prev[x]
              /\ u.parent[x] = IF x \in M THEN p ELSE t.parent[x]
              /\ u.children[x] = IF x = p /\ end = Nil THEN n ELSE IF x = q THEN Nil ELSE t.children[x]
              /\ u.last[x] = IF x = p THEN y ELSE IF x = q THEN Nil ELSE t.last[x]
              /\ u.doc[x] = IF x \in B THEN t.doc[p] ELSE t.doc[x]
    BY ONLY <1>3, <1>8, <1>14, <1>15 DEF ParentSet
  <1>17. CASE end # Nil
    <2>1. Joined(t.next, t.prev, t.parent, t.children, t.last, t.doc, end, n, y, M, B,
                 u.next, u.prev, u.parent, u.children, u.last, u.doc)
      <3>1. t.doc[end] = t.doc[p]
        BY ONLY <1>4, <1>10, <1>11, <1>17, p \in Node DEF FitIs
      <3>2. QED
        BY ONLY <1>1, <1>6, <1>10, <1>11, <1>16, <1>17, <3>1 DEF Joined
    <2>2. Fit(u.next, u.prev, u.parent, u.children, u.last, u.doc, S, R)
      BY <1>2, <1>5, <1>11, <1>12, <1>16, <1>17, <2>1, Dots, JoinedFits
    <2>3. QED
      BY <1>1, <1>16, <2>2 DEF Forest
  <1>18. CASE end = Nil
    <2>1. PICK pa, ch, la : /\ pa = [x \in Node |-> IF q # Nil /\ t.parent[x] = q THEN Nil ELSE t.parent[x]]
                            /\ ch = [x \in Node |-> IF x = q THEN Nil ELSE t.children[x]]
                            /\ la = [x \in Node |-> IF x = q THEN Nil ELSE t.last[x]]
      OBVIOUS
    <2>2. pa \in Pointers /\ ch \in Pointers /\ la \in Pointers
      BY <1>2, <2>1, Dots DEF Pointers
    <2>3. \A x \in Node : /\ pa[x] = IF q # Nil /\ t.parent[x] = q THEN Nil ELSE t.parent[x]
                          /\ ch[x] = IF x = q THEN Nil ELSE t.children[x]
                          /\ la[x] = IF x = q THEN Nil ELSE t.last[x]
      BY <2>1
    <2>4. Fit(t.next, t.prev, pa, ch, la, t.doc, S, R)
      <3>1. CASE q = Nil
        <4>1. pa = t.parent /\ ch = t.children /\ la = t.last
          BY <1>2, <1>10, <2>2, <2>3, <3>1, Dots DEF Pointers
        <4>2. QED
          BY <1>2, <4>1
      <3>2. CASE q # Nil
        <4>1. q \in Node
          BY <1>10, <3>2
        <4>2. Leaves(t.next, t.prev, t.parent, t.children, t.last, t.doc, q, t.next, t.prev, pa, ch, la, t.doc)
          BY ONLY <2>3, <3>2 DEF Leaves
        <4>3. t.doc \in Pointers
          BY <1>2 DEF Fit
        <4>4. QED
          BY <1>2, <1>10, <2>2, <4>1, <4>2, <4>3, LeavesFits
      <3>3. QED
        BY <3>1, <3>2
    <2>5. pa[n] = Nil /\ ch[p] = Nil /\ la[p] = Nil
      <3>1. t.children[p] = Nil <=> t.last[p] = Nil
        BY <1>2, ChildrenAre
      <3>2. QED
        BY ONLY <1>1, <1>18, <2>3, <3>1, n \in Node, p \in Node
    <2>6. \A x \in Node \ M : pa[x] = t.parent[x] /\ (q # Nil => t.parent[x] # q)
      <3>1. ASSUME q # Nil PROVE \A x \in Node : t.parent[x] = q => x \in M
        <4>1. q \in Node /\ t.children[q] = n
          BY ONLY <1>1, <1>4, <1>6, <1>10, <3>1, n \in Node DEF FitIs
        <4>2. QED
          BY <1>2, <1>5, <4>1, ChildrenAre
      <3>2. QED
        BY ONLY <2>3, <3>1
    <2>7. LowerBy(pa, M) = B
      BY ONLY <1>5, <1>10, <2>2, <2>6, LowerSame
    <2>8. Filled(t.next, t.prev, pa, ch, la, t.doc, n, p, y, M, B,
                 u.next, u.prev, u.parent, u.children, u.last, u.doc)
      BY ONLY <1>10, <1>16, <1>18, <2>3, <2>6 DEF Filled
    <2>9. Fit(u.next, u.prev, u.parent, u.children, u.last, u.doc, S, R)
      BY <1>5, <1>6, <1>12, <1>16, <2>4, <2>5, <2>7, <2>8, Dots, FilledFits
    <2>10. QED
      BY <1>1, <1>16, <2>9 DEF Forest
  <1>19. QED
    BY <1>17, <1>18

\* Pointers that agree everywhere are the same.
LEMMA SamePointers ==
  ASSUME NEW r \in Pointers, NEW s \in Pointers, \A x \in Node : r[x] = s[x]
  PROVE  r = s
  BY DEF Pointers

ParentCleared(t, n, p, v, u) ==
  /\ u \in Trees
  /\ \A x \in Node :
       /\ u.next[x] = IF x = v THEN Nil ELSE t.next[x]
       /\ u.prev[x] = IF x = n THEN Nil ELSE t.prev[x]
       /\ u.parent[x] = IF x = n THEN Nil ELSE t.parent[x]
       /\ u.children[x] = IF x = p /\ v = Nil THEN Nil ELSE t.children[x]
       /\ u.last[x] = IF x = p THEN v ELSE t.last[x]
       /\ u.doc[x] = IF x \in LowerBy(u.parent, Walk(u.next, n)) THEN Nil ELSE t.doc[x]

LEMMA ClearParentIs ==
  ASSUME NEW t \in Trees, NEW n \in Node, NEW u, u = ClearParent(t, n),
         NEW p, p = t.parent[n], NEW v, v = t.prev[n], p # Nil
  PROVE  ParentCleared(t, n, p, v, u)
  <1>1. /\ p \in Node \cup {Nil} /\ v \in Node \cup {Nil} /\ n \in Node \cup {Nil}
        /\ Nil \in Node \cup {Nil} /\ \A m \in Node : m # Nil
    BY Dots, NodesCounted
  <1>2. PICK a, b, c1, c2, c : /\ a = Put(t, "last", p, v)
                               /\ b = IF v = Nil THEN Put(a, "children", p, Nil) ELSE a
                               /\ c1 = Put(b, "next", v, Nil) /\ c2 = Put(c1, "prev", n, Nil)
                               /\ c = Put(c2, "parent", n, Nil)
    OBVIOUS
  <1>3. LastPut(a, t, p, v)
    BY <1>1, <1>2, PutLast
  <1>4. /\ b \in Trees /\ b.parent = t.parent /\ b.prev = t.prev /\ b.next = t.next /\ b.last = a.last /\ b.doc = t.doc
        /\ \A m \in Node : b.children[m] = IF m = p /\ v = Nil THEN Nil ELSE t.children[m]
    <2>1. CASE v = Nil
      <3>1. ChildrenPut(b, a, p, Nil)
        BY <1>1, <1>2, <1>3, <2>1, PutChildren DEF LastPut
      <3>2. QED
        BY ONLY <1>3, <2>1, <3>1 DEF LastPut, ChildrenPut
    <2>2. CASE v # Nil
      BY <1>2, <1>3, <2>2 DEF LastPut
    <2>3. QED
      BY <2>1, <2>2
  <1>5. NextPut(c1, b, v, Nil)
    BY <1>1, <1>2, <1>4, PutNext
  <1>6. PrevPut(c2, c1, n, Nil)
    BY <1>1, <1>2, <1>5, PutPrev DEF NextPut
  <1>7. ParentPut(c, c2, n, Nil)
    BY <1>1, <1>2, <1>6, PutParent DEF PrevPut
  <1>8. u = xmlSetListDoc(c, n, Nil)
    BY ONLY u = ClearParent(t, n), p = t.parent[n], v = t.prev[n], p # Nil, <1>2 DEF ClearParent
  <1>9. u = PutAll(c, "doc", LowerBy(c.parent, Walk(c.next, n)), Nil)
    BY <1>8, AlongIs DEF xmlSetListDoc, xmlSetTreeDoc
  <1>10. DocPutAll(u, c, LowerBy(c.parent, Walk(c.next, n)), Nil)
    BY <1>1, <1>7, <1>9, PutAllDoc DEF ParentPut
  <1>11. QED
    BY ONLY <1>3, <1>4, <1>5, <1>6, <1>7, <1>10 DEF LastPut, NextPut, PrevPut, ParentPut, DocPutAll, ParentCleared

LEMMA ClearParentForest ==
  ASSUME NEW t, NEW S, NEW R, Forest(t, S, R), NEW n \in Node, n \in S \ Document, ClearParentSafe(t, n)
  PROVE  Forest(ClearParent(t, n), S, R)
  <1>1. PICK u, p, v : u = ClearParent(t, n) /\ p = t.parent[n] /\ v = t.prev[n]
    OBVIOUS
  <1>2. t \in Trees /\ FitIs(t.next, t.prev, t.parent, t.children, t.last, t.doc, S, R) /\ Nil \notin Node
    BY FitFacts, NodesCounted DEF Forest
  <1>3. CASE p = Nil
    BY <1>1, <1>3 DEF ClearParent
  <1>4. CASE p # Nil
    <2>1. ParentCleared(t, n, p, v, u) /\ t.next[n] = Nil
      BY <1>1, <1>2, <1>4, ClearParentIs DEF ClearParentSafe
    <2>2. PICK w : w = xmlUnlinkNode(t, n)
      OBVIOUS
    <2>3. /\ w \in Trees /\ Forest(w, S, R)
          /\ Unlinks(t.next, t.prev, t.parent, t.children, t.last, t.doc, n,
                     w.next, w.prev, w.parent, w.children, w.last, w.doc)
      BY <1>2, <2>2, UnlinkIs, UnlinkForest
    <2>4. u \in Trees
      BY <2>1 DEF ParentCleared
    <2>5. \A x \in Node : /\ u.next[x] = w.next[x] /\ u.prev[x] = w.prev[x] /\ u.parent[x] = w.parent[x]
                          /\ u.children[x] = w.children[x] /\ u.last[x] = w.last[x]
      <3>1. (v = Nil <=> t.children[p] = n) /\ t.last[p] = n /\ p \in Node
        BY ONLY <1>1, <1>2, <1>4, <2>1, n \in Node DEF FitIs
      <3>2. QED
        BY ONLY <1>1, <1>2, <2>1, <2>3, <3>1 DEF ParentCleared, Unlinks
    <2>6. u.next = w.next /\ u.prev = w.prev /\ u.parent = w.parent /\ u.children = w.children /\ u.last = w.last
      BY <2>3, <2>4, <2>5, Dots, SamePointers
    <2>7. w.next[n] = Nil /\ w.prev[n] = Nil /\ w.parent[n] = Nil /\ w.doc = t.doc
      <3>1. \A x \in Node : w.doc[x] = t.doc[x]
        BY <2>3 DEF Unlinks
      <3>2. w.doc = t.doc
        BY <1>2, <2>3, <3>1, Dots, SamePointers
      <3>3. QED
        BY <2>3, <3>2 DEF Unlinks
    <2>8. Walk(u.next, n) = {n}
      <3>1. u.next \in Pointers /\ u.next[n] = Nil
        BY <2>4, <2>6, <2>7, Dots
      <3>2. \A b \in {n} : u.next[b] \in {n} \cup {Nil}
        BY <3>1
      <3>3. Walk(u.next, n) \subseteq {n} /\ n \in Walk(u.next, n)
        BY <1>2, <3>1, <3>2, WalkWithin
      <3>4. QED
        BY <3>3
    <2>9. Enters(w.next, w.prev, w.parent, w.children, w.last, w.doc, LowerBy(w.parent, {n}), Nil,
                 u.next, u.prev, u.parent, u.children, u.last, u.doc)
      BY ONLY <2>1, <2>6, <2>7, <2>8 DEF ParentCleared, Enters
    <2>10. Fit(w.next, w.prev, w.parent, w.children, w.last, w.doc, S, R)
      BY <2>3 DEF Forest
    <2>11. Fit(u.next, u.prev, u.parent, u.children, u.last, u.doc, S, R)
      BY <2>4, <2>7, <2>9, <2>10, Dots, EntersFits
    <2>12. QED
      BY <1>1, <2>4, <2>11 DEF Forest
  <1>5. QED
    BY <1>3, <1>4

NextSet(t, n, m, q, e, L, z, u) ==
  /\ u \in Trees /\ z \in Node \cup {Nil} /\ L = Walk(u.next, m)
  /\ \A y \in Node : IsEnd(u.next, m, y) => z = y
  /\ \A x \in Node :
       /\ u.next[x] = IF x = e THEN Nil ELSE IF x = n THEN m ELSE t.next[x]
       /\ u.prev[x] = IF x = m THEN n ELSE t.prev[x]
       /\ u.parent[x] = IF x \in L THEN q ELSE t.parent[x]
       /\ u.children[x] = IF e = Nil /\ x = t.parent[m] THEN Nil ELSE t.children[x]
       /\ u.last[x] = IF x = q THEN z
                      ELSE IF e # Nil /\ x = t.parent[e] THEN e
                      ELSE IF e = Nil /\ x = t.parent[m] THEN Nil ELSE t.last[x]
       /\ u.doc[x] = IF x \in LowerBy(u.parent, Walk(u.next, u.next[n])) THEN t.doc[n] ELSE t.doc[x]

LEMMA SetNextIs ==
  ASSUME NEW t \in Trees, NEW n \in Node, NEW m \in Node, NEW u, u = SetNext(t, n, m),
         NEW q, q = t.parent[n], NEW e, e = t.prev[m]
  PROVE  \E L, z : NextSet(t, n, m, q, e, L, z, u)
  <1>1. PICK r, s : r = t.parent[m] /\ s = IF e = Nil THEN Nil ELSE t.parent[e]
    OBVIOUS
  <1>2. /\ q \in Node \cup {Nil} /\ e \in Node \cup {Nil} /\ r \in Node \cup {Nil} /\ s \in Node \cup {Nil}
        /\ t.doc[n] \in Node \cup {Nil} /\ n \in Node \cup {Nil} /\ m \in Node \cup {Nil}
        /\ Nil \in Node \cup {Nil} /\ \A x \in Node : x # Nil
    BY <1>1, Dots, NodesCounted
  <1>3. PICK a : a = Put(t, "next", n, m)
    OBVIOUS
  <1>4. PICK b : b = IF e # Nil THEN Put(Put(a, "last", s, e), "next", e, Nil)
                     ELSE Put(Put(a, "children", r, Nil), "last", r, Nil)
    OBVIOUS
  <1>5. NextPut(a, t, n, m)
    BY <1>2, <1>3, PutNext
  <1>6. /\ b \in Trees /\ b.prev = t.prev /\ b.parent = t.parent /\ b.doc = t.doc
        /\ \A x \in Node :
             /\ b.next[x] = IF x = e THEN Nil ELSE IF x = n THEN m ELSE t.next[x]
             /\ b.children[x] = IF e = Nil /\ x = r THEN Nil ELSE t.children[x]
             /\ b.last[x] = IF e # Nil /\ x = s THEN e ELSE IF e = Nil /\ x = r THEN Nil ELSE t.last[x]
    <2>1. CASE e # Nil
      <3>1. PICK b1 : b1 = Put(a, "last", s, e)
        OBVIOUS
      <3>2. b = Put(b1, "next", e, Nil)
        BY ONLY <1>4, <2>1, <3>1
      <3>3. LastPut(b1, a, s, e)
        BY <1>2, <1>5, <3>1, PutLast DEF NextPut
      <3>4. NextPut(b, b1, e, Nil)
        BY <1>2, <3>2, <3>3, PutNext DEF LastPut
      <3>5. QED
        BY ONLY <1>5, <2>1, <3>3, <3>4 DEF LastPut, NextPut
    <2>2. CASE e = Nil
      <3>1. PICK b1 : b1 = Put(a, "children", r, Nil)
        OBVIOUS
      <3>2. b = Put(b1, "last", r, Nil)
        BY ONLY <1>4, <2>2, <3>1
      <3>3. ChildrenPut(b1, a, r, Nil)
        BY <1>2, <1>5, <3>1, PutChildren DEF NextPut
      <3>4. LastPut(b, b1, r, Nil)
        BY <1>2, <3>2, <3>3, PutLast DEF ChildrenPut
      <3>5. QED
        BY ONLY <1>2, <1>5, <2>2, <3>3, <3>4 DEF LastPut, NextPut, ChildrenPut
    <2>3. QED
      BY <2>1, <2>2
  <1>7. PICK L, c1, c : L = Along(b, "next", m) /\ c1 = Put(b, "prev", m, n) /\ c = PutAll(c1, "parent", L, q)
    OBVIOUS
  <1>8. PrevPut(c1, b, m, n)
    BY <1>2, <1>6, <1>7, PutPrev
  <1>9. ParentPutAll(c, c1, L, q)
    BY <1>2, <1>7, <1>8, PutAllParent DEF PrevPut
  <1>10. PICK z, d : z = End(c, "next", m) /\ d = Put(c, "last", q, z)
    OBVIOUS
  <1>11. z \in Node \cup {Nil} /\ \A y \in Node : IsEnd(c.next, m, y) => z = y
    <2>1. PICK k \in Pointer : k = "next"
      BY DEF Pointer
    <2>2. c \in Trees
      BY <1>9 DEF ParentPutAll
    <2>3. End(c, k, m) \in Node \cup {Nil} /\ \A y \in Node : IsEnd(c[k], m, y) => End(c, k, m) = y
      BY <1>2, <2>2, EndIs
    <2>4. QED
      BY ONLY <1>10, <2>1, <2>3
  <1>12. LastPut(d, c, q, z)
    BY <1>2, <1>9, <1>10, <1>11, PutLast DEF ParentPutAll
  <1>13. u = xmlSetListDoc(d, d.next[n], t.doc[n])
    <2>1. b = IF e # Nil THEN Put(Put(a, "last", t.parent[e], e), "next", e, Nil)
              ELSE Put(Put(a, "children", t.parent[m], Nil), "last", t.parent[m], Nil)
      BY ONLY <1>1, <1>4
    <2>2. QED
      BY ONLY u = SetNext(t, n, m), q = t.parent[n], e = t.prev[m], <1>3, <2>1, <1>7, <1>10, ZenonT(60) DEF SetNext
  <1>14. u = PutAll(d, "doc", LowerBy(d.parent, Walk(d.next, d.next[n])), t.doc[n])
    BY <1>13, AlongIs DEF xmlSetListDoc, xmlSetTreeDoc
  <1>15. DocPutAll(u, d, LowerBy(d.parent, Walk(d.next, d.next[n])), t.doc[n])
    BY <1>2, <1>12, <1>14, PutAllDoc DEF LastPut
  <1>16. L = Walk(b.next, m)
    BY <1>7, AlongIs
  <1>17. \A x \in Node :
           /\ u.next[x] = IF x = e THEN Nil ELSE IF x = n THEN m ELSE t.next[x]
           /\ u.prev[x] = IF x = m THEN n ELSE t.prev[x]
           /\ u.parent[x] = IF x \in L THEN q ELSE t.parent[x]
           /\ u.children[x] = IF e = Nil /\ x = t.parent[m] THEN Nil ELSE t.children[x]
           /\ u.last[x] = IF x = q THEN z
                          ELSE IF e # Nil /\ x = t.parent[e] THEN e
                          ELSE IF e = Nil /\ x = t.parent[m] THEN Nil ELSE t.last[x]
    BY ONLY <1>1, <1>6, <1>8, <1>9, <1>12, <1>15 DEF PrevPut, ParentPutAll, LastPut, DocPutAll
  <1>18. u.next = b.next /\ u.next = c.next /\ u.next = d.next /\ u.parent = d.parent /\ u \in Trees /\ d.doc = t.doc
    BY ONLY <1>6, <1>8, <1>9, <1>12, <1>15 DEF PrevPut, ParentPutAll, LastPut, DocPutAll
  <1>19. \A x \in Node : u.doc[x] = IF x \in LowerBy(u.parent, Walk(u.next, u.next[n])) THEN t.doc[n] ELSE t.doc[x]
    BY ONLY <1>15, <1>18 DEF DocPutAll
  <1>20. NextSet(t, n, m, q, e, L, z, u)
    BY ONLY <1>11, <1>16, <1>17, <1>18, <1>19 DEF NextSet
  <1>21. QED
    BY <1>20

LEMMA SetNextForest ==
  ASSUME NEW t, NEW S, NEW R, Forest(t, S, R), NEW n \in Node, n \in S \ Document, NEW m \in Node, m \in S \ Document,
         SetNextSafe(t, n, m)
  PROVE  Forest(SetNext(t, n, m), S, R)
  <1>1. PICK u, q, e : u = SetNext(t, n, m) /\ q = t.parent[n] /\ e = t.prev[m]
    OBVIOUS
  <1>2. t \in Trees /\ Fit(t.next, t.prev, t.parent, t.children, t.last, t.doc, S, R)
    BY DEF Forest
  <1>3. PICK L, z : NextSet(t, n, m, q, e, L, z, u)
    BY <1>1, <1>2, SetNextIs
  <1>4. FitIs(t.next, t.prev, t.parent, t.children, t.last, t.doc, S, R)
    BY <1>2, FitFacts
  <1>5. PICK M, B : M = Walk(t.next, m) /\ B = LowerBy(t.parent, M)
    OBVIOUS
  <1>6. t.next[n] = Nil /\ n \notin B
    BY <1>1, <1>5, AlongIs DEF SetNextSafe
  <1>7. Follows(t.next, t.prev, t.parent, t.doc, m, M, S)
    BY <1>2, <1>5, ListIs
  <1>8. /\ M \in SUBSET Node /\ m \in M
        /\ t.prev[m] \notin M
    BY <1>7 DEF Follows
  <1>9. n \notin M /\ n # m
    <2>1. Hangs(t.parent, M, B, S)
      BY <1>2, <1>5, <1>8, LowerIs
    <2>2. QED
      BY <1>6, <1>8, <2>1 DEF Hangs
  <1>10. /\ t.next \in Pointers /\ t.parent \in Pointers /\ u.next \in Pointers /\ u.parent \in Pointers
         /\ Ranked(t.next) /\ Nil \notin Node /\ u \in Trees
    <2>1. u \in Trees
      BY <1>3 DEF NextSet
    <2>2. u.next \in Pointers /\ u.parent \in Pointers
      BY <2>1, Dots
    <2>3. QED
      BY <1>2, <2>1, <2>2, NodesCounted DEF Fit
  <1>11. e # n /\ (e # Nil => e \in Node /\ t.parent[e] = t.parent[m])
    BY ONLY <1>1, <1>4, <1>6, <1>10, m \in Node DEF FitIs
  <1>12. PICK y \in Node : IsEnd(t.next, m, y)
    BY <1>10, WalkEnds
  <1>13. IsEnd(u.next, m, y) /\ Walk(u.next, m) = M
    <2>1. \A x \in M : u.next[x] = t.next[x]
      BY ONLY <1>1, <1>3, <1>8, <1>9 DEF NextSet
    <2>2. QED
      BY <1>5, <1>10, <1>12, <2>1, EndSame
  <1>14. L = M /\ z = y /\ u.next[n] = m
    BY ONLY <1>3, <1>11, <1>12, <1>13, n \in Node DEF NextSet
  <1>15. LowerBy(u.parent, Walk(u.next, u.next[n])) = B
    <2>1. \A x \in Node \ M : u.parent[x] = t.parent[x]
      BY ONLY <1>3, <1>14 DEF NextSet
    <2>2. QED
      BY ONLY <1>5, <1>10, <1>13, <1>14, <2>1, LowerSame
  <1>16. Joined(t.next, t.prev, t.parent, t.children, t.last, t.doc, n, m, y, M, B,
                u.next, u.prev, u.parent, u.children, u.last, u.doc)
    BY ONLY <1>1, <1>3, <1>10, <1>11, <1>14, <1>15 DEF NextSet, Joined
  <1>17. Fit(u.next, u.prev, u.parent, u.children, u.last, u.doc, S, R)
    BY <1>2, <1>5, <1>6, <1>10, <1>12, <1>16, Dots, JoinedFits
  <1>18. QED
    BY <1>1, <1>10, <1>17 DEF Forest

PrevSet(t, n, m, q, e, L, z, u) ==
  /\ u \in Trees /\ z \in Node \cup {Nil} /\ L = Walk(u.prev, m)
  /\ \A y \in Node : IsEnd(u.prev, m, y) => z = y
  /\ \A x \in Node :
       /\ u.prev[x] = IF x = e THEN Nil ELSE IF x = n THEN m ELSE t.prev[x]
       /\ u.next[x] = IF x = m THEN n ELSE t.next[x]
       /\ u.parent[x] = IF x \in L THEN q ELSE t.parent[x]
       /\ u.last[x] = IF e = Nil /\ x = t.parent[m] THEN Nil ELSE t.last[x]
       /\ u.children[x] = IF x = q THEN z
                          ELSE IF e # Nil /\ x = t.parent[e] THEN e
                          ELSE IF e = Nil /\ x = t.parent[m] THEN Nil ELSE t.children[x]
       /\ u.doc[x] = IF x \in LowerBy(t.parent, L) THEN t.doc[n] ELSE t.doc[x]

LEMMA SetPrevIs ==
  ASSUME NEW t \in Trees, NEW n \in Node, NEW m \in Node, NEW u, u = SetPrev(t, n, m),
         NEW q, q = t.parent[n], NEW e, e = t.next[m]
  PROVE  \E L, z : PrevSet(t, n, m, q, e, L, z, u)
  <1>1. PICK r, s : r = t.parent[m] /\ s = IF e = Nil THEN Nil ELSE t.parent[e]
    OBVIOUS
  <1>2. /\ q \in Node \cup {Nil} /\ e \in Node \cup {Nil} /\ r \in Node \cup {Nil} /\ s \in Node \cup {Nil}
        /\ t.doc[n] \in Node \cup {Nil} /\ n \in Node \cup {Nil} /\ m \in Node \cup {Nil}
        /\ Nil \in Node \cup {Nil} /\ \A x \in Node : x # Nil
    BY <1>1, Dots, NodesCounted
  <1>3. PICK a : a = Put(t, "prev", n, m)
    OBVIOUS
  <1>4. PICK b : b = IF e # Nil THEN Put(Put(a, "children", s, e), "prev", e, Nil)
                     ELSE Put(Put(a, "children", r, Nil), "last", r, Nil)
    OBVIOUS
  <1>5. PrevPut(a, t, n, m)
    BY <1>2, <1>3, PutPrev
  <1>6. /\ b \in Trees /\ b.next = t.next /\ b.parent = t.parent /\ b.doc = t.doc
        /\ \A x \in Node :
             /\ b.prev[x] = IF x = e THEN Nil ELSE IF x = n THEN m ELSE t.prev[x]
             /\ b.last[x] = IF e = Nil /\ x = r THEN Nil ELSE t.last[x]
             /\ b.children[x] = IF e # Nil /\ x = s THEN e ELSE IF e = Nil /\ x = r THEN Nil ELSE t.children[x]
    <2>1. CASE e # Nil
      <3>1. PICK b1 : b1 = Put(a, "children", s, e)
        OBVIOUS
      <3>2. b = Put(b1, "prev", e, Nil)
        BY ONLY <1>4, <2>1, <3>1
      <3>3. ChildrenPut(b1, a, s, e)
        BY <1>2, <1>5, <3>1, PutChildren DEF PrevPut
      <3>4. PrevPut(b, b1, e, Nil)
        BY <1>2, <3>2, <3>3, PutPrev DEF ChildrenPut
      <3>5. QED
        BY ONLY <1>5, <2>1, <3>3, <3>4 DEF ChildrenPut, PrevPut
    <2>2. CASE e = Nil
      <3>1. PICK b1 : b1 = Put(a, "children", r, Nil)
        OBVIOUS
      <3>2. b = Put(b1, "last", r, Nil)
        BY ONLY <1>4, <2>2, <3>1
      <3>3. ChildrenPut(b1, a, r, Nil)
        BY <1>2, <1>5, <3>1, PutChildren DEF PrevPut
      <3>4. LastPut(b, b1, r, Nil)
        BY <1>2, <3>2, <3>3, PutLast DEF ChildrenPut
      <3>5. QED
        BY ONLY <1>2, <1>5, <2>2, <3>3, <3>4 DEF LastPut, PrevPut, ChildrenPut
    <2>3. QED
      BY <2>1, <2>2
  <1>7. PICK L, b2, s1, c : /\ L = Along(b, "prev", m) /\ b2 = Put(b, "next", m, n)
                            /\ s1 = xmlSetTreeDoc(b2, L, t.doc[n]) /\ c = PutAll(s1, "parent", L, q)
    OBVIOUS
  <1>8. NextPut(b2, b, m, n)
    BY <1>2, <1>6, <1>7, PutNext
  <1>9. s1 = PutAll(b2, "doc", LowerBy(b2.parent, L), t.doc[n])
    BY <1>7, AlongIs DEF xmlSetTreeDoc
  <1>10. DocPutAll(s1, b2, LowerBy(b2.parent, L), t.doc[n])
    BY <1>2, <1>8, <1>9, PutAllDoc DEF NextPut
  <1>11. ParentPutAll(c, s1, L, q)
    BY <1>2, <1>7, <1>10, PutAllParent DEF DocPutAll
  <1>12. PICK z : z = End(c, "prev", m)
    OBVIOUS
  <1>13. z \in Node \cup {Nil} /\ \A y \in Node : IsEnd(c.prev, m, y) => z = y
    <2>1. PICK k \in Pointer : k = "prev"
      BY DEF Pointer
    <2>2. c \in Trees
      BY <1>11 DEF ParentPutAll
    <2>3. End(c, k, m) \in Node \cup {Nil} /\ \A y \in Node : IsEnd(c[k], m, y) => End(c, k, m) = y
      BY <1>2, <2>2, EndIs
    <2>4. QED
      BY ONLY <1>12, <2>1, <2>3
  <1>14. u = Put(c, "children", q, z)
    <2>1. b = IF e # Nil THEN Put(Put(a, "children", t.parent[e], e), "prev", e, Nil)
              ELSE Put(Put(a, "children", t.parent[m], Nil), "last", t.parent[m], Nil)
      BY ONLY <1>1, <1>4
    <2>2. QED
      BY ONLY u = SetPrev(t, n, m), q = t.parent[n], e = t.next[m], <1>3, <2>1, <1>7, <1>12 DEF SetPrev
  <1>15. ChildrenPut(u, c, q, z)
    BY <1>2, <1>11, <1>13, <1>14, PutChildren DEF ParentPutAll
  <1>16. L = Walk(b.prev, m)
    BY <1>7, AlongIs
  <1>17. b2.parent = t.parent
    BY ONLY <1>6, <1>8 DEF NextPut
  <1>18. \A x \in Node :
           /\ u.prev[x] = IF x = e THEN Nil ELSE IF x = n THEN m ELSE t.prev[x]
           /\ u.next[x] = IF x = m THEN n ELSE t.next[x]
           /\ u.parent[x] = IF x \in L THEN q ELSE t.parent[x]
           /\ u.last[x] = IF e = Nil /\ x = t.parent[m] THEN Nil ELSE t.last[x]
           /\ u.children[x] = IF x = q THEN z
                              ELSE IF e # Nil /\ x = t.parent[e] THEN e
                              ELSE IF e = Nil /\ x = t.parent[m] THEN Nil ELSE t.children[x]
           /\ u.doc[x] = IF x \in LowerBy(t.parent, L) THEN t.doc[n] ELSE t.doc[x]
    BY ONLY <1>1, <1>6, <1>8, <1>10, <1>11, <1>15, <1>17 DEF NextPut, ParentPutAll, ChildrenPut, DocPutAll
  <1>19. u.prev = b.prev /\ u.prev = c.prev /\ u \in Trees
    BY ONLY <1>8, <1>10, <1>11, <1>15 DEF NextPut, ParentPutAll, ChildrenPut, DocPutAll
  <1>20. PrevSet(t, n, m, q, e, L, z, u)
    BY ONLY <1>13, <1>16, <1>18, <1>19 DEF PrevSet
  <1>21. QED
    BY <1>20

LEMMA SetPrevForest ==
  ASSUME NEW t, NEW S, NEW R, Forest(t, S, R), NEW n \in Node, n \in S \ Document, NEW m \in Node, m \in S \ Document,
         SetPrevSafe(t, n, m)
  PROVE  Forest(SetPrev(t, n, m), S, R)
  <1>1. PICK u, q, e : u = SetPrev(t, n, m) /\ q = t.parent[n] /\ e = t.next[m]
    OBVIOUS
  <1>2. t \in Trees /\ Fit(t.prev, t.next, t.parent, t.last, t.children, t.doc, S, R)
    BY Mirrored DEF Forest
  <1>3. PICK L, z : PrevSet(t, n, m, q, e, L, z, u)
    BY <1>1, <1>2, SetPrevIs
  <1>4. FitIs(t.prev, t.next, t.parent, t.last, t.children, t.doc, S, R)
    BY <1>2, FitFacts
  <1>5. PICK M, B : M = Walk(t.prev, m) /\ B = LowerBy(t.parent, M)
    OBVIOUS
  <1>6. t.prev[n] = Nil /\ n \notin B
    BY <1>1, <1>5, AlongIs DEF SetPrevSafe
  <1>7. Follows(t.prev, t.next, t.parent, t.doc, m, M, S)
    BY <1>2, <1>5, ListIs
  <1>8. /\ M \in SUBSET Node /\ m \in M
        /\ t.next[m] \notin M
    BY <1>7 DEF Follows
  <1>9. n \notin M /\ n # m
    <2>1. Hangs(t.parent, M, B, S)
      BY <1>2, <1>5, <1>8, LowerIs
    <2>2. QED
      BY <1>6, <1>8, <2>1 DEF Hangs
  <1>10. /\ t.prev \in Pointers /\ t.parent \in Pointers /\ u.prev \in Pointers
         /\ Ranked(t.prev) /\ Nil \notin Node /\ u \in Trees
    <2>1. u \in Trees
      BY <1>3 DEF PrevSet
    <2>2. u.prev \in Pointers
      BY <2>1, Dots
    <2>3. QED
      BY <1>2, <2>1, <2>2, NodesCounted DEF Fit
  <1>11. e # n /\ (e # Nil => e \in Node /\ t.parent[e] = t.parent[m])
    BY ONLY <1>1, <1>4, <1>6, <1>10, m \in Node DEF FitIs
  <1>12. PICK y \in Node : IsEnd(t.prev, m, y)
    BY <1>10, WalkEnds
  <1>13. IsEnd(u.prev, m, y) /\ Walk(u.prev, m) = M
    <2>1. \A x \in M : u.prev[x] = t.prev[x]
      BY ONLY <1>1, <1>3, <1>8, <1>9 DEF PrevSet
    <2>2. QED
      BY <1>5, <1>10, <1>12, <2>1, EndSame
  <1>14. L = M /\ z = y
    BY ONLY <1>3, <1>12, <1>13, n \in Node DEF PrevSet
  <1>15. LowerBy(t.parent, L) = B
    BY <1>5, <1>14
  <1>16. Joined(t.prev, t.next, t.parent, t.last, t.children, t.doc, n, m, y, M, B,
                u.prev, u.next, u.parent, u.last, u.children, u.doc)
    BY ONLY <1>1, <1>3, <1>10, <1>11, <1>14, <1>15 DEF PrevSet, Joined
  <1>17. Fit(u.prev, u.next, u.parent, u.last, u.children, u.doc, S, R)
    BY <1>2, <1>5, <1>6, <1>10, <1>12, <1>16, Dots, JoinedFits
  <1>18. QED
    BY <1>1, <1>10, <1>17, Mirrored DEF Forest

LEMMA ClearNextIs ==
  ASSUME NEW t \in Trees, NEW n \in Node, NEW u, u = ClearNext(t, n)
  PROVE  /\ u \in Trees /\ u.prev = t.prev /\ u.parent = t.parent /\ u.children = t.children /\ u.doc = t.doc
         /\ \A x \in Node : u.next[x] = IF x = n THEN Nil ELSE t.next[x]
         /\ \A x \in Node : u.last[x] = IF x = t.parent[n] THEN n ELSE t.last[x]
  <1>1. t.parent[n] \in Node \cup {Nil} /\ n \in Node \cup {Nil} /\ Nil \in Node \cup {Nil}
    BY Dots
  <1>2. PICK a : a = Put(t, "last", t.parent[n], n)
    OBVIOUS
  <1>3. LastPut(a, t, t.parent[n], n)
    BY <1>1, <1>2, PutLast
  <1>4. u = Put(a, "next", n, Nil)
    BY <1>2 DEF ClearNext
  <1>5. NextPut(u, a, n, Nil)
    BY <1>1, <1>3, <1>4, PutNext DEF LastPut
  <1>6. QED
    BY ONLY <1>3, <1>5 DEF LastPut, NextPut

LEMMA ClearPrevIs ==
  ASSUME NEW t \in Trees, NEW n \in Node, NEW u, u = ClearPrev(t, n)
  PROVE  /\ u \in Trees /\ u.next = t.next /\ u.parent = t.parent /\ u.last = t.last /\ u.doc = t.doc
         /\ \A x \in Node : u.prev[x] = IF x = n THEN Nil ELSE t.prev[x]
         /\ \A x \in Node : u.children[x] = IF x = t.parent[n] THEN n ELSE t.children[x]
  <1>1. t.parent[n] \in Node \cup {Nil} /\ n \in Node \cup {Nil} /\ Nil \in Node \cup {Nil}
    BY Dots
  <1>2. PICK a : a = Put(t, "children", t.parent[n], n)
    OBVIOUS
  <1>3. ChildrenPut(a, t, t.parent[n], n)
    BY <1>1, <1>2, PutChildren
  <1>4. u = Put(a, "prev", n, Nil)
    BY <1>2 DEF ClearPrev
  <1>5. PrevPut(u, a, n, Nil)
    BY <1>1, <1>3, <1>4, PutPrev DEF ChildrenPut
  <1>6. QED
    BY ONLY <1>3, <1>5 DEF ChildrenPut, PrevPut

\* With nothing to forget the two change nothing.
LEMMA ClearNextForest ==
  ASSUME NEW t, NEW S, NEW R, Forest(t, S, R), NEW n \in Node, t.next[n] = Nil
  PROVE  Forest(ClearNext(t, n), S, R)
  <1>1. PICK u : u = ClearNext(t, n)
    OBVIOUS
  <1>2. t \in Trees /\ FitIs(t.next, t.prev, t.parent, t.children, t.last, t.doc, S, R) /\ Nil \notin Node
    BY FitFacts, NodesCounted DEF Forest
  <1>3. /\ u \in Trees /\ u.prev = t.prev /\ u.parent = t.parent /\ u.children = t.children /\ u.doc = t.doc
        /\ \A x \in Node : u.next[x] = IF x = n THEN Nil ELSE t.next[x]
        /\ \A x \in Node : u.last[x] = IF x = t.parent[n] THEN n ELSE t.last[x]
    BY <1>1, <1>2, ClearNextIs
  <1>4. \A x \in Node : x = t.parent[n] => t.last[x] = n
    BY ONLY <1>2, t.next[n] = Nil, n \in Node DEF FitIs
  <1>5. u.next \in Pointers /\ t.next \in Pointers /\ u.last \in Pointers /\ t.last \in Pointers
    BY <1>2, <1>3, Dots
  <1>6. u.next = t.next
    BY ONLY <1>3, <1>5, t.next[n] = Nil, SamePointers
  <1>7. u.last = t.last
    BY ONLY <1>3, <1>4, <1>5, SamePointers
  <1>8. QED
    BY <1>1, <1>3, <1>6, <1>7 DEF Forest

LEMMA ClearPrevForest ==
  ASSUME NEW t, NEW S, NEW R, Forest(t, S, R), NEW n \in Node, t.prev[n] = Nil
  PROVE  Forest(ClearPrev(t, n), S, R)
  <1>1. PICK u : u = ClearPrev(t, n)
    OBVIOUS
  <1>2. t \in Trees /\ FitIs(t.next, t.prev, t.parent, t.children, t.last, t.doc, S, R) /\ Nil \notin Node
    BY FitFacts, NodesCounted DEF Forest
  <1>3. /\ u \in Trees /\ u.next = t.next /\ u.parent = t.parent /\ u.last = t.last /\ u.doc = t.doc
        /\ \A x \in Node : u.prev[x] = IF x = n THEN Nil ELSE t.prev[x]
        /\ \A x \in Node : u.children[x] = IF x = t.parent[n] THEN n ELSE t.children[x]
    BY <1>1, <1>2, ClearPrevIs
  <1>4. \A x \in Node : x = t.parent[n] => t.children[x] = n
    BY ONLY <1>2, t.prev[n] = Nil, n \in Node DEF FitIs
  <1>5. u.prev \in Pointers /\ t.prev \in Pointers /\ u.children \in Pointers /\ t.children \in Pointers
    BY <1>2, <1>3, Dots
  <1>6. u.prev = t.prev
    BY ONLY <1>3, <1>5, t.prev[n] = Nil, SamePointers
  <1>7. u.children = t.children
    BY ONLY <1>3, <1>4, <1>5, SamePointers
  <1>8. QED
    BY <1>1, <1>3, <1>6, <1>7 DEF Forest

Beheaded(u, t, n) ==
  /\ u \in Trees /\ u.parent = t.parent /\ u.next = t.next /\ u.prev = t.prev /\ u.doc = t.doc
  /\ \A m \in Node : /\ u.children[m] = IF m = n THEN Nil ELSE t.children[m]
                     /\ u.last[m] = IF m = n THEN Nil ELSE t.last[m]

LEMMA Beheads ==
  ASSUME NEW t \in Trees, NEW n \in Node, NEW u, u = [t EXCEPT !.children[n] = Nil, !.last[n] = Nil]
  PROVE  Beheaded(u, t, n)
  <1>1. u \in Trees
    BY DEF Trees, Pointer
  <1>2. u.parent = t.parent /\ u.next = t.next /\ u.prev = t.prev /\ u.doc = t.doc
    BY DEF Trees, Pointer
  <1>3. \A m \in Node : u.children[m] = IF m = n THEN Nil ELSE t.children[m]
    BY DEF Trees, Pointer
  <1>4. \A m \in Node : u.last[m] = IF m = n THEN Nil ELSE t.last[m]
    BY DEF Trees, Pointer
  <1>5. QED
    BY ONLY <1>1, <1>2, <1>3, <1>4 DEF Beheaded

FirstChildCleared(t, n, u) ==
  /\ u \in Trees /\ u.next = t.next /\ u.prev = t.prev /\ u.doc = t.doc
  /\ \A x \in Node :
       /\ u.parent[x] = IF x \in Walk(t.next, t.children[n]) THEN Nil ELSE t.parent[x]
       /\ u.children[x] = IF x = n THEN Nil ELSE t.children[x]
       /\ u.last[x] = IF x = n THEN Nil ELSE t.last[x]

LEMMA ClearFirstChildIs ==
  ASSUME NEW t \in Trees, NEW n \in Node, NEW u, u = ClearFirstChild(t, n)
  PROVE  FirstChildCleared(t, n, u)
  <1>1. PICK K, a : K = Walk(t.next, t.children[n]) /\ a = PutAll(t, "parent", K, Nil)
    OBVIOUS
  <1>2. ParentPutAll(a, t, K, Nil)
    BY <1>1, PutAllParent
  <1>3. u = [a EXCEPT !.children[n] = Nil, !.last[n] = Nil]
    BY <1>1, AlongIs DEF ClearFirstChild
  <1>4. Beheaded(u, a, n)
    BY <1>2, <1>3, Beheads DEF ParentPutAll
  <1>5. QED
    BY ONLY <1>1, <1>2, <1>4 DEF ParentPutAll, Beheaded, FirstChildCleared

LEMMA ClearFirstChildForest ==
  ASSUME NEW t, NEW S, NEW R, Forest(t, S, R), NEW n \in Node
  PROVE  /\ Forest(ClearFirstChild(t, n), S, R)
         /\ FirstChildCleared(t, n, ClearFirstChild(t, n))
         /\ Walk(t.next, t.children[n]) = {x \in Node : t.parent[x] = n}
  <1>1. PICK u : u = ClearFirstChild(t, n)
    OBVIOUS
  <1>2. t \in Trees /\ Fit(t.next, t.prev, t.parent, t.children, t.last, t.doc, S, R)
    BY DEF Forest
  <1>3. FirstChildCleared(t, n, u) /\ u \in Trees
    BY <1>1, <1>2, ClearFirstChildIs DEF FirstChildCleared
  <1>4. Walk(t.next, t.children[n]) = {x \in Node : t.parent[x] = n}
    BY <1>2, ChildrenAre
  <1>5. Leaves(t.next, t.prev, t.parent, t.children, t.last, t.doc, n,
               u.next, u.prev, u.parent, u.children, u.last, u.doc)
    BY ONLY <1>3, <1>4 DEF FirstChildCleared, Leaves
  <1>6. Fit(u.next, u.prev, u.parent, u.children, u.last, u.doc, S, R)
    BY <1>2, <1>3, <1>5, Dots, LeavesFits
  <1>7. QED
    BY <1>1, <1>3, <1>4, <1>6 DEF Forest

LEMMA LowerLess ==
  ASSUME NEW r \in Pointers, Ranked(r), NEW s \in Pointers, \A x \in Node : s[x] \in {r[x], Nil}, NEW L
  PROVE  LowerBy(s, L) \subseteq LowerBy(r, L)
  <1>1. ASSUME NEW x \in Node PROVE Walk(s, x) \subseteq Walk(r, x)
    <2>1. x \in Walk(r, x) /\ Walk(r, x) \in SUBSET Node
      BY WalkWithin, NodesCounted
    <2>2. \A b \in Walk(r, x) : s[b] \in Walk(r, x) \cup {Nil}
      BY <2>1, WalkCloses
    <2>3. QED
      BY <2>1, <2>2, WalkWithin
  <1>2. QED
    BY <1>1 DEF LowerBy

\* Where the pointers of the nodes of L lead.
Lead(r, L, v) == \A x \in L : r[x] = v

\* What is below a node is in the node's document.
LEMMA DocBelow ==
  ASSUME NEW nx, NEW pv, NEW pa, NEW ch, NEW la, NEW do, NEW S, NEW R, Fit(nx, pv, pa, ch, la, do, S, R),
         NEW L, NEW v, Lead(do, L, v)
  PROVE  Lead(do, LowerBy(pa, L), v)
  <1>1. FitIs(nx, pv, pa, ch, la, do, S, R) /\ Nil \notin Node /\ pa \in Pointers
    BY FitFacts, NodesCounted DEF Fit
  <1>2. SUFFICES ASSUME NEW x \in Node, Walk(pa, x) \cap L # {} PROVE do[x] = v
    BY DEF LowerBy, Lead
  <1>3. PICK C : C = {y \in Node : do[y] = do[x]}
    OBVIOUS
  <1>4. ASSUME NEW b \in C PROVE pa[b] \in C \cup {Nil}
    <2>1. b \in Node
      BY <1>3, <1>4
    <2>2. pa[b] \in Node \cup {Nil} /\ (pa[b] # Nil => do[pa[b]] = do[b])
      BY ONLY <1>1, <2>1 DEF FitIs
    <2>3. QED
      BY ONLY <1>3, <1>4, <2>2
  <1>5. Walk(pa, x) \subseteq C
    BY <1>1, <1>3, <1>4, WalkWithin
  <1>6. QED
    BY <1>2, <1>3, <1>5 DEF Lead

FirstChildSet(t, n, m, L, z, u) ==
  /\ u \in Trees /\ z \in Node \cup {Nil} /\ L = Walk(t.next, m)
  /\ u.next = t.next /\ u.prev = t.prev /\ u.doc = t.doc
  /\ \A y \in Node : IsEnd(u.next, m, y) => z = y
  /\ \A x \in Node :
       /\ u.parent[x] = IF x \in L THEN n
                        ELSE IF x \in Walk(t.next, t.children[n]) THEN Nil ELSE t.parent[x]
       /\ u.children[x] = IF x = n THEN m ELSE t.children[x]
       /\ u.last[x] = IF x = n THEN z ELSE t.last[x]

LEMMA SetFirstChildIs ==
  ASSUME NEW t \in Trees, NEW n \in Node, NEW m \in Node, NEW u, u = SetFirstChild(t, n, m)
  PROVE  \E L, z : FirstChildSet(t, n, m, L, z, u)
  <1>1. PICK K, a : K = Walk(t.next, t.children[n]) /\ a = PutAll(t, "parent", K, Nil)
    OBVIOUS
  <1>2. ParentPutAll(a, t, K, Nil)
    BY <1>1, PutAllParent
  <1>3. PICK L, a1, b : L = Walk(a.next, m) /\ a1 = Put(a, "children", n, m) /\ b = PutAll(a1, "parent", L, n)
    OBVIOUS
  <1>4. ChildrenPut(a1, a, n, m)
    BY <1>2, <1>3, PutChildren DEF ParentPutAll
  <1>5. ParentPutAll(b, a1, L, n)
    BY <1>3, <1>4, PutAllParent DEF ChildrenPut
  <1>6. PICK z : z = End(b, "next", m)
    OBVIOUS
  <1>7. z \in Node \cup {Nil} /\ \A y \in Node : IsEnd(b.next, m, y) => z = y
    <2>1. PICK k \in Pointer : k = "next"
      BY DEF Pointer
    <2>2. b \in Trees
      BY <1>5 DEF ParentPutAll
    <2>3. End(b, k, m) \in Node \cup {Nil} /\ \A y \in Node : IsEnd(b[k], m, y) => End(b, k, m) = y
      BY <2>2, EndIs
    <2>4. QED
      BY ONLY <1>6, <2>1, <2>3
  <1>8. u = Put(b, "last", n, z)
    BY <1>1, <1>3, <1>6, AlongIs DEF SetFirstChild
  <1>9. LastPut(u, b, n, z)
    BY <1>5, <1>7, <1>8, PutLast DEF ParentPutAll
  <1>10. FirstChildSet(t, n, m, L, z, u)
    BY ONLY <1>1, <1>2, <1>3, <1>4, <1>5, <1>7, <1>9 DEF ParentPutAll, ChildrenPut, LastPut, FirstChildSet
  <1>11. QED
    BY <1>10

LEMMA SetFirstChildForest ==
  ASSUME NEW t, NEW S, NEW R, Forest(t, S, R), NEW n \in Node, n \in S, NEW m \in Node, m \in S \ Document,
         SetFirstChildSafe(t, n, m)
  PROVE  Forest(SetFirstChild(t, n, m), S, R)
  <1>1. PICK u, w : u = SetFirstChild(t, n, m) /\ w = ClearFirstChild(t, n)
    OBVIOUS
  <1>2. t \in Trees /\ Fit(t.next, t.prev, t.parent, t.children, t.last, t.doc, S, R)
    BY DEF Forest
  <1>3. PICK L, z : FirstChildSet(t, n, m, L, z, u)
    BY <1>1, <1>2, SetFirstChildIs
  <1>4. /\ Forest(w, S, R) /\ FirstChildCleared(t, n, w)
        /\ Walk(t.next, t.children[n]) = {x \in Node : t.parent[x] = n}
    BY <1>1, ClearFirstChildForest
  <1>5. /\ w \in Trees /\ w.next = t.next /\ w.prev = t.prev /\ w.doc = t.doc
        /\ \A x \in Node :
             /\ w.parent[x] = IF t.parent[x] = n THEN Nil ELSE t.parent[x]
             /\ w.children[x] = IF x = n THEN Nil ELSE t.children[x]
             /\ w.last[x] = IF x = n THEN Nil ELSE t.last[x]
    BY ONLY <1>4 DEF FirstChildCleared
  <1>6. Fit(w.next, w.prev, w.parent, w.children, w.last, w.doc, S, R)
    BY <1>4 DEF Forest
  <1>7. /\ t.prev[m] = Nil /\ t.parent[m] \in {Nil, n} /\ t.doc[m] = t.doc[n]
        /\ n \notin LowerBy(t.parent, Walk(t.next, m))
    BY AlongIs DEF SetFirstChildSafe
  <1>8. PICK M, B : M = Walk(w.next, m) /\ B = LowerBy(w.parent, M)
    OBVIOUS
  <1>9. n \notin B
    <2>1. t.parent \in Pointers /\ w.parent \in Pointers /\ Ranked(t.parent)
      BY <1>2, <1>5, Dots DEF Fit
    <2>2. \A x \in Node : w.parent[x] \in {t.parent[x], Nil}
      BY <1>5
    <2>3. LowerBy(w.parent, M) \subseteq LowerBy(t.parent, M)
      BY ONLY <2>1, <2>2, LowerLess
    <2>4. QED
      BY <1>5, <1>7, <1>8, <2>3
  <1>10. \A x \in B : w.doc[x] = t.doc[n]
    <2>1. Follows(w.next, w.prev, w.parent, w.doc, m, M, S)
      BY <1>6, <1>8, ListIs
    <2>2. PICK v : v = t.doc[n]
      OBVIOUS
    <2>3. Lead(w.doc, M, v)
      BY ONLY <1>5, <1>7, <2>1, <2>2 DEF Follows, Lead
    <2>4. Lead(w.doc, LowerBy(w.parent, M), v)
      BY ONLY <1>6, <2>3, DocBelow
    <2>5. QED
      BY ONLY <1>8, <2>2, <2>4 DEF Lead
  <1>11. PICK y \in Node : IsEnd(w.next, m, y)
    BY <1>6, WalkEnds DEF Fit
  <1>12. L = M /\ z = y /\ u \in Trees
    BY ONLY <1>3, <1>5, <1>8, <1>11 DEF FirstChildSet
  <1>13. \A x \in Node : /\ u.next[x] = t.next[x] /\ u.prev[x] = t.prev[x] /\ u.doc[x] = t.doc[x]
                         /\ u.parent[x] = IF x \in M THEN n ELSE w.parent[x]
                         /\ u.children[x] = IF x = n THEN m ELSE t.children[x]
                         /\ u.last[x] = IF x = n THEN y ELSE t.last[x]
    BY ONLY <1>3, <1>4, <1>5, <1>12 DEF FirstChildSet
  <1>14. \A x \in Node : x # Nil
    BY NodesCounted
  <1>15. Filled(w.next, w.prev, w.parent, w.children, w.last, w.doc, m, n, y, M, B,
                u.next, u.prev, u.parent, u.children, u.last, u.doc)
    BY ONLY <1>5, <1>7, <1>10, <1>13, <1>14 DEF Filled
  <1>16. w.parent[m] = Nil /\ w.children[n] = Nil /\ w.last[n] = Nil
    BY ONLY <1>5, <1>7, n \in Node, m \in Node
  <1>17. Fit(u.next, u.prev, u.parent, u.children, u.last, u.doc, S, R)
    BY <1>6, <1>8, <1>9, <1>11, <1>12, <1>15, <1>16, Dots, FilledFits
  <1>18. QED
    BY <1>1, <1>12, <1>17 DEF Forest

\* A tree and one that differs in where the nodes are.
IsMade(u, t, n, d) ==
  u \in Trees /\ Isolated(t.next, t.prev, t.parent, t.children, t.last, t.doc, n, d,
                          u.next, u.prev, u.parent, u.children, u.last, u.doc)

LEMMA MadeIs ==
  ASSUME tree \in Trees, NEW n \in Node, NEW d \in Node \cup {Nil}
  PROVE  IsMade(Made(n, d), tree, n, d)
  <1>1. PICK u : u = Made(n, d)
    OBVIOUS
  <1>2. u = [p \in Pointer |-> [tree[p] EXCEPT ![n] = IF p = "doc" THEN d ELSE Nil]]
    BY <1>1 DEF Made
  <1>3. ASSUME NEW p \in Pointer
        PROVE  /\ u[p] \in [Node -> Node \cup {Nil}]
               /\ \A x \in Node : u[p][x] = IF x = n THEN (IF p = "doc" THEN d ELSE Nil) ELSE tree[p][x]
    <2>1. PICK v : v = IF p = "doc" THEN d ELSE Nil
      OBVIOUS
    <2>2. v \in Node \cup {Nil} /\ tree[p] \in [Node -> Node \cup {Nil}]
      BY <2>1 DEF Trees
    <2>3. u[p] = [tree[p] EXCEPT ![n] = v]
      BY <1>2, <2>1
    <2>4. \A x \in Node : u[p][x] = IF x = n THEN v ELSE tree[p][x]
      BY <2>2, <2>3
    <2>5. u[p] \in [Node -> Node \cup {Nil}]
      BY <2>2, <2>3
    <2>6. QED
      BY ONLY <2>1, <2>4, <2>5
  <1>4. u \in Trees
    BY <1>2, <1>3 DEF Trees
  <1>5. \A x \in Node : u.doc[x] = IF x = n THEN d ELSE tree.doc[x]
    <2>1. "doc" \in Pointer
      BY DEF Pointer
    <2>2. \A x \in Node : u["doc"][x] = IF x = n THEN d ELSE tree["doc"][x]
      BY <1>3, <2>1
    <2>3. QED
      BY <2>2
  <1>6. ASSUME NEW p \in Pointer, p # "doc"
        PROVE  \A x \in Node : u[p][x] = IF x = n THEN Nil ELSE tree[p][x]
    BY <1>3, <1>6
  <1>7. "next" \in Pointer /\ "prev" \in Pointer /\ "parent" \in Pointer /\ "children" \in Pointer /\ "last" \in Pointer
    BY DEF Pointer
  <1>8. /\ \A x \in Node : u["next"][x] = IF x = n THEN Nil ELSE tree["next"][x]
        /\ \A x \in Node : u["prev"][x] = IF x = n THEN Nil ELSE tree["prev"][x]
        /\ \A x \in Node : u["parent"][x] = IF x = n THEN Nil ELSE tree["parent"][x]
        /\ \A x \in Node : u["children"][x] = IF x = n THEN Nil ELSE tree["children"][x]
        /\ \A x \in Node : u["last"][x] = IF x = n THEN Nil ELSE tree["last"][x]
    BY <1>6, <1>7
  <1>9. QED
    BY ONLY <1>1, <1>4, <1>5, <1>8 DEF IsMade, Isolated

LEMMA MadeForest ==
  ASSUME Forest(tree, exists, exists), NEW n \in Node, n \notin exists,
         NEW d \in exists \cup {n, Nil}, n \in Document => d = n, exists \in SUBSET Node
  PROVE  /\ Forest(Made(n, d), exists \cup {n}, exists \cup {n})
         /\ IsMade(Made(n, d), tree, n, d)
  <1>1. PICK u : u = Made(n, d)
    OBVIOUS
  <1>2. tree \in Trees /\ d \in Node \cup {Nil}
    BY DEF Forest
  <1>3. IsMade(u, tree, n, d) /\ u \in Trees
    BY <1>1, <1>2, MadeIs DEF IsMade
  <1>4. Isolated(tree.next, tree.prev, tree.parent, tree.children, tree.last, tree.doc, n, d,
                 u.next, u.prev, u.parent, u.children, u.last, u.doc)
    BY <1>3 DEF IsMade
  <1>5. Fit(tree.next, tree.prev, tree.parent, tree.children, tree.last, tree.doc, exists, exists)
    BY DEF Forest
  <1>6. Fit(u.next, u.prev, u.parent, u.children, u.last, u.doc, exists \cup {n}, exists \cup {n})
    BY <1>3, <1>4, <1>5, Dots, IsolatedFits
  <1>7. QED
    BY <1>1, <1>3, <1>6 DEF Forest

\* A node that no other has above it.
LEMMA LoneBelow ==
  ASSUME NEW r \in Pointers, NEW n \in Node, \A x \in Node : r[x] # n
  PROVE  LowerBy(r, {n}) = {n}
  <1>1. ASSUME NEW x \in Node, x # n PROVE n \notin Walk(r, x)
    <2>1. PICK C : C = Node \ {n}
      OBVIOUS
    <2>2. \A b \in C : r[b] \in C \cup {Nil}
      BY <2>1 DEF Pointers
    <2>3. Walk(r, x) \subseteq C
      BY <1>1, <2>1, <2>2, WalkWithin
    <2>4. QED
      BY <2>1, <2>3
  <1>2. n \in Walk(r, n)
    BY WalkWithin, NodesCounted
  <1>3. QED
    BY <1>1, <1>2 DEF LowerBy

LEMMA LoneWalk ==
  ASSUME NEW r \in Pointers, NEW n \in Node, r[n] = Nil
  PROVE  Walk(r, n) = {n} /\ IsEnd(r, n, n)
  <1>1. PICK C : C = {n}
    OBVIOUS
  <1>2. n \in C \cup {Nil} /\ \A b \in C : r[b] \in C \cup {Nil}
    BY <1>1
  <1>3. Walk(r, n) \subseteq C
    BY ONLY r \in Pointers, n \in Node, <1>2, WalkWithin
  <1>4. n \in Walk(r, n)
    BY WalkWithin, NodesCounted
  <1>5. QED
    BY <1>1, <1>3, <1>4 DEF IsEnd

\* Of a node just made.
LEMMA MadeLone ==
  ASSUME tree \in Trees, Forest(tree, exists, exists), NEW n \in Node, n \notin exists, NEW d, NEW u, IsMade(u, tree, n, d)
  PROVE  /\ u.next[n] = Nil /\ u.prev[n] = Nil /\ u.parent[n] = Nil /\ u.children[n] = Nil /\ u.last[n] = Nil /\ u.doc[n] = d
         /\ Walk(u.next, n) = {n} /\ IsEnd(u.next, n, n) /\ LowerBy(u.parent, {n}) = {n}
         /\ \A x \in Node \ {n} : u.doc[x] = tree.doc[x] /\ u.last[x] = tree.last[x]
  <1>1. FitIs(tree.next, tree.prev, tree.parent, tree.children, tree.last, tree.doc, exists, exists) /\ Nil \notin Node
    BY FitFacts, NodesCounted DEF Forest
  <1>2. /\ u \in Trees
        /\ \A x \in Node :
             /\ u.next[x] = IF x = n THEN Nil ELSE tree.next[x]
             /\ u.prev[x] = IF x = n THEN Nil ELSE tree.prev[x]
             /\ u.parent[x] = IF x = n THEN Nil ELSE tree.parent[x]
             /\ u.children[x] = IF x = n THEN Nil ELSE tree.children[x]
             /\ u.last[x] = IF x = n THEN Nil ELSE tree.last[x]
             /\ u.doc[x] = IF x = n THEN d ELSE tree.doc[x]
    BY DEF IsMade, Isolated
  <1>3. \A x \in Node : tree.parent[x] # n
    BY <1>1 DEF FitIs
  <1>4. \A x \in Node : u.parent[x] # n
    BY <1>1, <1>2, <1>3
  <1>5. u.parent \in Pointers /\ u.next \in Pointers
    BY <1>2, Dots
  <1>6. LowerBy(u.parent, {n}) = {n}
    BY ONLY <1>4, <1>5, n \in Node, LoneBelow
  <1>7. Walk(u.next, n) = {n} /\ IsEnd(u.next, n, n)
    BY <1>2, <1>5, LoneWalk
  <1>8. QED
    BY ONLY <1>2, <1>6, <1>7, n \in Node

LEMMA AddNodeForest ==
  ASSUME Forest(tree, exists, exists), exists \in SUBSET Node, NEW p \in exists, NEW n \in Element, n \notin exists
  PROVE  Forest(SetParent(Made(n, tree.doc[p]), n, p), exists \cup {n}, exists \cup {n})
  <1>1. PICK d, t, S : d = tree.doc[p] /\ t = Made(n, d) /\ S = exists \cup {n}
    OBVIOUS
  <1>2. tree \in Trees /\ n \in Node /\ n \notin Document /\ p \in Node /\ p # n /\ d \in exists \cup {n, Nil}
    <2>1. FitIs(tree.next, tree.prev, tree.parent, tree.children, tree.last, tree.doc, exists, exists)
      BY FitFacts DEF Forest
    <2>2. QED
      BY <1>1, <2>1 DEF Forest, Element, FitIs
  <1>3. Forest(t, S, S) /\ IsMade(t, tree, n, d)
    BY <1>1, <1>2, MadeForest
  <1>4. t.parent[n] = Nil /\ Walk(t.next, n) = {n} /\ LowerBy(t.parent, {n}) = {n}
    BY <1>2, <1>3, MadeLone
  <1>5. SetParentSafe(t, n, p)
    BY <1>2, <1>4, AlongIs DEF SetParentSafe
  <1>6. Forest(SetParent(t, n, p), S, S)
    BY <1>1, <1>2, <1>3, <1>5, SetParentForest
  <1>7. QED
    BY ONLY <1>1, <1>6

Appended(t, p, x, end, u) ==
  /\ u \in Trees /\ u.doc = t.doc
  /\ \A y \in Node :
       /\ u.next[y] = IF y = end THEN x ELSE t.next[y]
       /\ u.prev[y] = IF y = x THEN end ELSE t.prev[y]
       /\ u.parent[y] = IF y = x THEN p ELSE t.parent[y]
       /\ u.children[y] = IF y = p /\ end = Nil THEN x ELSE t.children[y]
       /\ u.last[y] = IF y = p THEN x ELSE t.last[y]

LEMMA AppendingIs ==
  ASSUME NEW t \in Trees, NEW p \in Node, NEW x \in Node, NEW end, end = t.last[p], NEW u, u = Appending(t, p, x)
  PROVE  Appended(t, p, x, end, u)
  <1>1. end \in Node \cup {Nil} /\ p \in Node \cup {Nil} /\ x \in Node \cup {Nil} /\ \A y \in Node : y # Nil
    BY Dots, NodesCounted
  <1>2. PICK a1, a2, a, b : /\ a1 = Put(t, "parent", x, p) /\ a2 = Put(a1, "prev", x, end) /\ a = Put(a2, "next", end, x)
                            /\ b = IF end = Nil THEN Put(a, "children", p, x) ELSE a
    OBVIOUS
  <1>3. ParentPut(a1, t, x, p)
    BY <1>1, <1>2, PutParent
  <1>4. PrevPut(a2, a1, x, end)
    BY <1>1, <1>2, <1>3, PutPrev DEF ParentPut
  <1>5. NextPut(a, a2, end, x)
    BY <1>1, <1>2, <1>4, PutNext DEF PrevPut
  <1>6. /\ b \in Trees /\ b.parent = a.parent /\ b.prev = a.prev /\ b.next = a.next /\ b.last = a.last /\ b.doc = a.doc
        /\ \A m \in Node : b.children[m] = IF m = p /\ end = Nil THEN x ELSE a.children[m]
    <2>1. CASE end = Nil
      <3>1. ChildrenPut(b, a, p, x)
        BY <1>1, <1>2, <1>5, <2>1, PutChildren DEF NextPut
      <3>2. QED
        BY ONLY <2>1, <3>1 DEF ChildrenPut
    <2>2. CASE end # Nil
      BY <1>2, <1>5, <2>2 DEF NextPut
    <2>3. QED
      BY <2>1, <2>2
  <1>7. u = Put(b, "last", p, x)
    BY ONLY u = Appending(t, p, x), end = t.last[p], <1>2 DEF Appending
  <1>8. LastPut(u, b, p, x)
    BY <1>1, <1>6, <1>7, PutLast
  <1>9. QED
    BY ONLY <1>3, <1>4, <1>5, <1>6, <1>8 DEF ParentPut, PrevPut, NextPut, LastPut, Appended

LEMMA AddTextForest ==
  ASSUME Forest(tree, exists, exists), exists \in SUBSET Node, NEW p \in exists, NEW x \in Text, x \notin exists
  PROVE  Forest(Appending(Made(x, tree.doc[p]), p, x), exists \cup {x}, exists \cup {x})
  <1>1. PICK d, t, S, u, end : /\ d = tree.doc[p] /\ t = Made(x, d) /\ S = exists \cup {x}
                               /\ u = Appending(t, p, x) /\ end = t.last[p]
    OBVIOUS
  <1>2. tree \in Trees /\ x \in Node /\ x \notin Document /\ p \in Node /\ p # x /\ d \in exists \cup {x, Nil}
    <2>1. FitIs(tree.next, tree.prev, tree.parent, tree.children, tree.last, tree.doc, exists, exists)
      BY FitFacts DEF Forest
    <2>2. QED
      BY <1>1, <2>1, NodeAssumption DEF Forest, FitIs
  <1>3. Forest(t, S, S) /\ IsMade(t, tree, x, d)
    BY <1>1, <1>2, MadeForest
  <1>4. t \in Trees /\ Fit(t.next, t.prev, t.parent, t.children, t.last, t.doc, S, S)
    BY <1>3 DEF Forest
  <1>5. /\ t.next[x] = Nil /\ t.prev[x] = Nil /\ t.parent[x] = Nil /\ t.doc[x] = d /\ t.doc[p] = d
        /\ Walk(t.next, x) = {x} /\ IsEnd(t.next, x, x) /\ LowerBy(t.parent, {x}) = {x}
    BY <1>1, <1>2, <1>3, MadeLone
  <1>6. Appended(t, p, x, end, u)
    BY <1>1, <1>2, <1>4, AppendingIs
  <1>7. FitIs(t.next, t.prev, t.parent, t.children, t.last, t.doc, S, S) /\ Nil \notin Node
    BY <1>4, FitFacts, NodesCounted
  <1>8. end # Nil => end \in Node /\ end \in S \ Document /\ t.next[end] = Nil /\ t.parent[end] = p /\ t.doc[end] = d /\ end # x
    <2>1. ASSUME end # Nil
          PROVE  end \in Node /\ end \in S /\ t.next[end] = Nil /\ t.parent[end] = p /\ t.doc[end] = t.doc[p]
      <3>1. end = t.last[p]
        BY <1>1
      <3>2. end \in Node /\ end \in S /\ t.next[end] = Nil /\ t.parent[end] = p
        BY ONLY <1>2, <1>7, <2>1, <3>1 DEF FitIs
      <3>3. t.doc[end] = t.doc[p]
        BY ONLY <1>2, <1>7, <3>2 DEF FitIs
      <3>4. QED
        BY <3>2, <3>3
    <2>2. \A e \in Document : t.parent[e] = Nil
      BY <1>7 DEF FitIs
    <2>3. QED
      BY ONLY <1>2, <1>5, <1>7, <2>1, <2>2
  <1>9. u \in Trees
    BY <1>6 DEF Appended
  <1>10. Fit(u.next, u.prev, u.parent, u.children, u.last, u.doc, S, S)
    <2>1. CASE end # Nil
      <3>1. Joined(t.next, t.prev, t.parent, t.children, t.last, t.doc, end, x, x, {x}, {x},
                   u.next, u.prev, u.parent, u.children, u.last, u.doc)
        BY ONLY <1>2, <1>5, <1>6, <1>7, <1>8, <2>1 DEF Appended, Joined
      <3>2. end \notin {x} /\ x \in S \ Document
        BY <1>1, <1>2, <1>8, <2>1
      <3>3. QED
        BY <1>2, <1>4, <1>5, <1>8, <1>9, <2>1, <3>1, <3>2, Dots, JoinedFits
    <2>2. CASE end = Nil
      <3>1. Filled(t.next, t.prev, t.parent, t.children, t.last, t.doc, x, p, x, {x}, {x},
                   u.next, u.prev, u.parent, u.children, u.last, u.doc)
        BY ONLY <1>2, <1>5, <1>6, <1>7, <2>2 DEF Appended, Filled
      <3>2. t.last[p] = Nil /\ t.children[p] = Nil
        <4>1. t.children[p] = Nil <=> t.last[p] = Nil
          BY <1>2, <1>4, ChildrenAre
        <4>2. QED
          BY <1>1, <2>2, <4>1
      <3>3. p \notin {x} /\ x \in S \ Document /\ p \in S
        BY <1>1, <1>2
      <3>4. QED
        BY <1>2, <1>4, <1>5, <1>9, <3>1, <3>2, <3>3, Dots, FilledFits
    <2>3. QED
      BY <2>1, <2>2
  <1>11. QED
    BY <1>1, <1>9, <1>10 DEF Forest

LEMMA AddChildForest ==
  ASSUME NEW t, NEW S, NEW R, Forest(t, S, R), NEW n \in Node, n \in S \ Document, NEW p \in Node, p \in S,
         p \notin Below(t, {n})
  PROVE  Forest(SetParent(xmlUnlinkNode(t, n), n, p), S, R)
  <1>1. PICK w : w = xmlUnlinkNode(t, n)
    OBVIOUS
  <1>2. t \in Trees
    BY DEF Forest
  <1>3. /\ w \in Trees /\ Forest(w, S, R)
        /\ Unlinks(t.next, t.prev, t.parent, t.children, t.last, t.doc, n,
                   w.next, w.prev, w.parent, w.children, w.last, w.doc)
    BY <1>1, <1>2, UnlinkIs, UnlinkForest
  <1>4. w.next[n] = Nil /\ w.parent[n] = Nil /\ \A x \in Node \ {n} : w.parent[x] = t.parent[x]
    BY <1>3 DEF Unlinks
  <1>5. w.next \in Pointers /\ w.parent \in Pointers /\ t.parent \in Pointers
    BY <1>2, <1>3, Dots
  <1>6. Walk(w.next, n) = {n}
    BY <1>4, <1>5, LoneWalk
  <1>7. LowerBy(w.parent, {n}) = LowerBy(t.parent, {n})
    BY ONLY <1>4, <1>5, LowerSame
  <1>8. SetParentSafe(w, n, p)
    BY <1>4, <1>6, <1>7, AlongIs DEF SetParentSafe
  <1>9. QED
    BY <1>1, <1>3, <1>8, SetParentForest

\* What unlinking the nodes of s, one by one, leaves of t.
Any(s) == CHOOSE x \in s : TRUE
UnlinksAt(g, t, s) == g[s] = IF s = {} THEN t ELSE xmlUnlinkNode(g[s \ {Any(s)}], Any(s))
Unlinking(g, t, M) ==
  g = [s \in SUBSET M |-> IF s = {} THEN t ELSE xmlUnlinkNode(g[s \ {Any(s)}], Any(s))]

LEMMA OneLess ==
  ASSUME NEW M, IsFiniteSet(M), NEW s \in SUBSET M, s # {}
  PROVE  /\ Any(s) \in s /\ s \ {Any(s)} \in SUBSET M /\ Cardinality(s) \in Nat /\ Cardinality(s) > 0
         /\ Cardinality(s \ {Any(s)}) = Cardinality(s) - 1
  <1>1. IsFiniteSet(s) /\ Any(s) \in s
    BY FS_Subset DEF Any
  <1>2. Cardinality(s \ {Any(s)}) = Cardinality(s) - 1
    BY <1>1, FS_RemoveElement
  <1>3. Cardinality(s) \in Nat /\ Cardinality(s) # 0
    BY <1>1, FS_CardinalityType, FS_EmptySet
  <1>4. QED
    BY <1>1, <1>2, <1>3

LEMMA UnlinkingExists ==
  ASSUME NEW t, NEW M, IsFiniteSet(M)
  PROVE  \E g : Unlinking(g, t, M)
  <1> DEFINE Upto(g, k) == \A s \in SUBSET M : Cardinality(s) <= k => UnlinksAt(g, t, s)
             T == {k \in Nat : \E g : Upto(g, k)}
  <1>1. 0 \in T
    <2>1. PICK g : g = [s \in SUBSET M |-> t]
      OBVIOUS
    <2>2. ASSUME NEW s \in SUBSET M, Cardinality(s) <= 0 PROVE UnlinksAt(g, t, s)
      <3>1. s = {}
        <4>1. ASSUME s # {} PROVE Cardinality(s) \in Nat /\ Cardinality(s) > 0
          BY <4>1, OneLess
        <4>2. QED
          BY <2>2, <4>1
      <3>2. QED
        BY <2>1, <3>1 DEF UnlinksAt
    <2>3. QED
      BY <2>2
  <1>2. ASSUME NEW k \in T PROVE k + 1 \in T
    <2>1. PICK g : Upto(g, k)
      BY <1>2
    <2>2. PICK h : h = [s \in SUBSET M |-> IF Cardinality(s) <= k THEN g[s]
                                           ELSE xmlUnlinkNode(g[s \ {Any(s)}], Any(s))]
      OBVIOUS
    <2>3. ASSUME NEW s \in SUBSET M, Cardinality(s) <= k + 1 PROVE UnlinksAt(h, t, s)
      <3>1. CASE s = {}
        <4>1. Cardinality(s) <= k
          BY <3>1, FS_EmptySet
        <4>2. h[s] = g[s] /\ UnlinksAt(g, t, s)
          BY <2>1, <2>2, <4>1
        <4>3. QED
          BY <3>1, <4>2 DEF UnlinksAt
      <3>2. CASE s # {}
        <4>1. PICK x, r : x = Any(s) /\ r = s \ {x}
          OBVIOUS
        <4>2. r \in SUBSET M /\ Cardinality(r) <= k
          BY <2>3, <3>2, <4>1, OneLess
        <4>3. h[r] = g[r]
          BY <2>2, <4>2
        <4>4. h[s] = xmlUnlinkNode(g[r], x)
          <5>1. CASE Cardinality(s) <= k
            <6>1. h[s] = g[s] /\ UnlinksAt(g, t, s)
              BY <2>1, <2>2, <5>1
            <6>2. QED
              BY <3>2, <4>1, <6>1 DEF UnlinksAt
          <5>2. CASE ~(Cardinality(s) <= k)
            BY <2>2, <4>1, <5>2
          <5>3. QED
            BY <5>1, <5>2
        <4>5. QED
          BY <3>2, <4>1, <4>3, <4>4 DEF UnlinksAt
      <3>3. QED
        BY <3>1, <3>2
    <2>4. Upto(h, k + 1)
      BY <2>3
    <2>5. QED
      BY <2>4
  <1>3. T = Nat
    <2>1. T \in SUBSET Nat
      OBVIOUS
    <2> HIDE DEF T
    <2>2. QED
      BY ONLY <1>1, <1>2, <2>1, SetInduction
  <1>4. Cardinality(M) \in Nat
    BY FS_CardinalityType
  <1>5. PICK g : Upto(g, Cardinality(M))
    BY <1>3, <1>4
  <1>6. \A s \in SUBSET M : UnlinksAt(g, t, s)
    BY <1>5, FS_Subset
  <1>7. PICK h : h = [s \in SUBSET M |-> g[s]]
    OBVIOUS
  <1>8. ASSUME NEW s \in SUBSET M
        PROVE  h[s] = IF s = {} THEN t ELSE xmlUnlinkNode(h[s \ {Any(s)}], Any(s))
    <2>1. CASE s = {}
      BY <1>6, <1>7, <2>1 DEF UnlinksAt
    <2>2. CASE s # {}
      <3>1. PICK r : r = s \ {Any(s)}
        OBVIOUS
      <3>2. r \in SUBSET M
        BY <3>1
      <3>3. h[r] = g[r] /\ h[s] = g[s]
        BY <1>7, <3>2
      <3>4. g[s] = xmlUnlinkNode(g[r], Any(s))
        BY <1>6, <2>2, <3>1 DEF UnlinksAt
      <3>5. QED
        BY ONLY <2>2, <3>1, <3>3, <3>4
    <2>3. QED
      BY <2>1, <2>2
  <1>9. h = [s \in SUBSET M |-> h[s]]
    BY <1>7
  <1>10. Unlinking(h, t, M)
    BY ONLY <1>8, <1>9 DEF Unlinking
  <1>11. QED
    BY <1>10

LEMMA UnlinkAll ==
  ASSUME NEW C, NEW t \in C, NEW M \in SUBSET Node, \A u \in C, n \in Node : xmlUnlinkNode(u, n) \in C
  PROVE  FoldSet(LAMBDA n, u : xmlUnlinkNode(u, n), t, M) \in C
  <1>1. IsFiniteSet(M)
    BY NodeAssumption, FS_Subset
  <1>2. PICK v : v = (CHOOSE g : Unlinking(g, t, M))
    OBVIOUS
  <1>3. Unlinking(v, t, M)
    BY <1>1, <1>2, UnlinkingExists
  <1>4. FoldSet(LAMBDA n, u : xmlUnlinkNode(u, n), t, M) = v[M]
    BY <1>2 DEF FoldSet, MapThenFoldSet, Unlinking, Any
  <1> DEFINE T == {k \in Nat : \A s \in SUBSET M : Cardinality(s) <= k => v[s] \in C}
  <1>5. 0 \in T
    <2>1. ASSUME NEW s \in SUBSET M, Cardinality(s) <= 0 PROVE v[s] \in C
      <3>1. s = {}
        <4>1. ASSUME s # {} PROVE Cardinality(s) \in Nat /\ Cardinality(s) > 0
          BY <1>1, <4>1, OneLess
        <4>2. QED
          BY <2>1, <4>1
      <3>2. QED
        BY <1>3, <3>1 DEF Unlinking
    <2>2. QED
      BY <2>1
  <1>6. ASSUME NEW k \in T PROVE k + 1 \in T
    <2>1. ASSUME NEW s \in SUBSET M, Cardinality(s) <= k + 1 PROVE v[s] \in C
      <3>1. CASE s = {}
        BY <1>3, <3>1 DEF Unlinking
      <3>2. CASE s # {}
        <4>1. PICK x, r : x = Any(s) /\ r = s \ {x}
          OBVIOUS
        <4>2. r \in SUBSET M /\ Cardinality(r) <= k /\ x \in Node
          BY <1>1, <2>1, <3>2, <4>1, OneLess
        <4>3. v[r] \in C
          BY <1>6, <4>2
        <4>4. v[s] = xmlUnlinkNode(v[r], x)
          BY <1>3, <3>2, <4>1 DEF Unlinking
        <4>5. QED
          BY <4>2, <4>3, <4>4
      <3>3. QED
        BY <3>1, <3>2
    <2>2. QED
      BY <2>1
  <1>7. T = Nat
    <2>1. T \in SUBSET Nat
      OBVIOUS
    <2> HIDE DEF T
    <2>2. QED
      BY ONLY <1>5, <1>6, <2>1, SetInduction
  <1>8. Cardinality(M) \in Nat
    BY <1>1, FS_CardinalityType
  <1>9. v[M] \in C
    BY <1>7, <1>8
  <1>10. QED
    BY <1>4, <1>9

LEMMA PurgeForest ==
  ASSUME NEW t, NEW S, NEW R, Forest(t, S, R), NEW p
  PROVE  Forest(purge(t, p), S, R)
  <1>1. PICK C : C = {u \in Trees : Forest(u, S, R)}
    OBVIOUS
  <1>2. t \in C
    BY <1>1 DEF Forest
  <1>3. \A u \in C, n \in Node : xmlUnlinkNode(u, n) \in C
    <2>1. ASSUME NEW u \in C, NEW n \in Node PROVE xmlUnlinkNode(u, n) \in C
      <3>1. Forest(xmlUnlinkNode(u, n), S, R)
        BY <1>1, <2>1, UnlinkForest
      <3>2. QED
        BY <1>1, <3>1 DEF Forest
    <2>2. QED
      BY <2>1
  <1>4. PICK M : M = {n \in Along(t, "next", t.children[p]) \cap Text : t.prev[n] \in Text}
    OBVIOUS
  <1>5. M \in SUBSET Node
    BY <1>4, NodeAssumption
  <1>6. FoldSet(LAMBDA n, u : xmlUnlinkNode(u, n), t, M) \in C
    BY ONLY <1>2, <1>3, <1>5, UnlinkAll
  <1>7. purge(t, p) \in C
    BY <1>4, <1>6 DEF purge
  <1>8. QED
    BY <1>1, <1>7

LEMMA PurgeTree ==
  ASSUME NEW t \in Trees, NEW p
  PROVE  purge(t, p) \in Trees
  <1>1. \A u \in Trees, n \in Node : xmlUnlinkNode(u, n) \in Trees
    BY UnlinkIs
  <1>2. PICK M : M = {n \in Along(t, "next", t.children[p]) \cap Text : t.prev[n] \in Text}
    OBVIOUS
  <1>3. M \in SUBSET Node
    BY <1>2, NodeAssumption
  <1>4. FoldSet(LAMBDA n, u : xmlUnlinkNode(u, n), t, M) \in Trees
    BY ONLY t \in Trees, <1>1, <1>3, UnlinkAll
  <1>5. QED
    BY <1>2, <1>4 DEF purge

\* n, which stands alone, takes the place of o, a child of the document d.
Replaced(nx, pv, pa, ch, la, do, n, o, d, B, nx2, pv2, pa2, ch2, la2, do2) ==
  \A x \in Node :
    /\ nx2[x] = IF x = n THEN nx[o] ELSE IF x = o THEN Nil ELSE IF x = pv[o] THEN n ELSE nx[x]
    /\ pv2[x] = IF x = n THEN pv[o] ELSE IF x = o THEN Nil ELSE IF x = nx[o] THEN n ELSE pv[x]
    /\ pa2[x] = IF x = n THEN d ELSE IF x = o THEN Nil ELSE pa[x]
    /\ ch2[x] = IF x = d /\ pv[o] = Nil THEN n ELSE ch[x]
    /\ la2[x] = IF x = d /\ nx[o] = Nil THEN n ELSE la[x]
    /\ do2[x] = IF x \in B THEN d ELSE do[x]

ReplacedSide(nx2, pv2, pa2, ch2, do2) ==
  /\ Ranked(nx2)
  /\ \A x \in Node : nx2[x] # Nil => pv2[nx2[x]] = x /\ pa2[nx2[x]] = pa2[x] /\ do2[nx2[x]] = do2[x]
  /\ \A x \in Node : ch2[x] # Nil => pa2[ch2[x]] = x /\ pv2[ch2[x]] = Nil
  /\ \A x \in Node : pa2[x] # Nil => do2[pa2[x]] = do2[x] /\ (pv2[x] = Nil => ch2[pa2[x]] = x)

LEMMA ReplacedSides ==
  ASSUME NEW nx, NEW pv, NEW pa, NEW ch, NEW la, NEW do, NEW S, NEW R, Fit(nx, pv, pa, ch, la, do, S, R),
         NEW n \in Node, n \in S \ Document, nx[n] = Nil, pv[n] = Nil, pa[n] = Nil,
         NEW d \in Document, NEW o \in Node, pa[o] = d, NEW L, L = {n}, NEW B, B = LowerBy(pa, L),
         NEW nx2 \in Pointers, NEW pv2 \in Pointers, NEW pa2 \in Pointers,
         NEW ch2 \in Pointers, NEW la2 \in Pointers, NEW do2 \in Pointers,
         Replaced(nx, pv, pa, ch, la, do, n, o, d, B, nx2, pv2, pa2, ch2, la2, do2)
  PROVE  ReplacedSide(nx2, pv2, pa2, ch2, do2)
  <1>1. FitIs(nx, pv, pa, ch, la, do, S, R) /\ Nil \notin Node
    BY FitFacts, NodesCounted
  <1>2. \A x \in Node :
          /\ nx2[x] = IF x = n THEN nx[o] ELSE IF x = o THEN Nil ELSE IF x = pv[o] THEN n ELSE nx[x]
          /\ pv2[x] = IF x = n THEN pv[o] ELSE IF x = o THEN Nil ELSE IF x = nx[o] THEN n ELSE pv[x]
          /\ pa2[x] = IF x = n THEN d ELSE IF x = o THEN Nil ELSE pa[x]
          /\ ch2[x] = IF x = d /\ pv[o] = Nil THEN n ELSE ch[x]
          /\ do2[x] = IF x \in B THEN d ELSE do[x]
    BY DEF Replaced
  <1>3. d \in Node /\ d # Nil /\ o # n /\ pa[d] = Nil /\ d # n /\ d # o /\ d \in S /\ do[d] = d
    BY ONLY <1>1, d \in Document, n \in S \ Document, o \in Node, pa[o] = d, pa[n] = Nil DEF FitIs
  <1>4. do[o] = d
    BY ONLY <1>1, <1>3, o \in Node, pa[o] = d DEF FitIs
  <1>5. /\ \A x \in Node : nx[x] # n /\ (nx[x] = o => x = pv[o])
        /\ pv[o] # n /\ pv[o] \in Node \cup {Nil} /\ nx[o] \in Node \cup {Nil}
    BY ONLY <1>1, n \in Node, o \in Node, nx[n] = Nil, pv[n] = Nil DEF FitIs
  <1>6. nx[o] # o /\ pv[o] # o
    <2>1. ASSUME NEW r \in Pointers, Ranked(r) PROVE r[o] # o
      <3>1. o \notin Walk(r, r[o]) /\ r[o] \in Node \cup {Nil}
        BY <2>1, WalkGoesOn DEF Pointers
      <3>2. r[o] # Nil => r[o] \in Walk(r, r[o])
        BY <2>1, <3>1, WalkWithin
      <3>3. QED
        BY <1>1, <3>1, <3>2
    <2>2. QED
      BY <2>1 DEF Fit
  <1>7. /\ n \in B /\ B \in SUBSET Node /\ B \cap Document = {}
        /\ \A x \in Node : x \in B <=> x = n \/ (pa[x] # Nil /\ pa[x] \in B)
    <2>1. PICK K : K = {n}
      OBVIOUS
    <2>2. Hangs(pa, K, B, S)
      BY <2>1, LowerIs
    <2>3. QED
      BY ONLY <2>1, <2>2, n \in S \ Document DEF Hangs
  <1>8. d \notin B /\ \A x \in Node : pa[x] = d => do2[x] = d
    <2>1. \A x \in Node : pa[x] = d => do[x] = d
      BY ONLY <1>1, <1>3 DEF FitIs
    <2>2. QED
      BY ONLY <1>2, <1>7, <2>1, d \in Document
  <1>9. do2[n] = d /\ do2[d] = d /\ do2[o] = d
    BY ONLY <1>2, <1>3, <1>7, <1>8, n \in Node, o \in Node, pa[o] = d
  <1>10. ASSUME NEW x \in Node, nx2[x] # Nil
         PROVE  pv2[nx2[x]] = x /\ pa2[nx2[x]] = pa2[x] /\ do2[nx2[x]] = do2[x]
    <2>1. CASE x = n
      <3>1. PICK y \in Node : y = nx[o] /\ y = nx2[x]
        BY ONLY <1>2, <1>5, <1>10, <2>1
      <3>2. pa[y] = d /\ y # n /\ y # o
        <4>1. nx[o] # Nil /\ y = nx[o]
          BY <1>1, <3>1
        <4>2. pa[y] = d
          BY ONLY <1>1, <4>1, o \in Node, pa[o] = d DEF FitIs
        <4>3. QED
          BY ONLY <1>5, <1>6, <4>1, <4>2, o \in Node
      <3>3. pv2[y] = n /\ pa2[y] = d /\ do2[y] = d /\ pa2[n] = d
        BY ONLY <1>2, <1>8, <3>1, <3>2, n \in Node
      <3>4. QED
        BY ONLY <1>9, <2>1, <3>1, <3>3
    <2>2. CASE x # n /\ x = pv[o]
      <3>1. nx2[x] = n
        BY ONLY <1>2, <1>6, <2>2, x \in Node
      <3>2. pa[x] = d /\ x # o
        BY ONLY <1>1, <1>6, <2>2, x \in Node, o \in Node, pa[o] = d DEF FitIs
      <3>3. pa2[x] = d /\ do2[x] = d /\ pv2[n] = x /\ pa2[n] = d
        BY ONLY <1>2, <1>8, <2>2, <3>2, x \in Node, n \in Node
      <3>4. QED
        BY ONLY <1>9, <3>1, <3>3
    <2>3. CASE x # n /\ x # pv[o]
      <3>1. x # o /\ nx2[x] = nx[x] /\ nx[x] # Nil
        BY ONLY <1>2, <1>10, <2>3
      <3>2. PICK y \in Node : y = nx[x] /\ y # Nil
        BY ONLY <1>1, <3>1, x \in Node DEF FitIs
      <3>3. pv[y] = x /\ pa[y] = pa[x] /\ do[y] = do[x]
        BY ONLY <1>1, <3>1, <3>2, x \in Node DEF FitIs
      <3>4. y # n /\ y # o
        BY ONLY <1>5, <2>3, <3>2, x \in Node
      <3>5. y # nx[o]
        BY ONLY <1>1, <3>1, <3>2, <3>3, o \in Node DEF FitIs
      <3>6. x \in B <=> y \in B
        BY ONLY <1>7, <2>3, <3>3, <3>4, x \in Node, y \in Node
      <3>7. QED
        BY ONLY <1>2, <2>3, <3>1, <3>2, <3>3, <3>4, <3>5, <3>6, x \in Node
    <2>4. QED
      BY <2>1, <2>2, <2>3
  <1>11. ASSUME NEW x \in Node, ch2[x] # Nil PROVE pa2[ch2[x]] = x /\ pv2[ch2[x]] = Nil
    <2>1. CASE x = d /\ pv[o] = Nil
      BY ONLY <1>2, <2>1, x \in Node, n \in Node
    <2>2. CASE ~(x = d /\ pv[o] = Nil)
      <3>1. PICK c \in Node : c = ch[x] /\ c = ch2[x] /\ c # Nil
        BY ONLY <1>1, <1>2, <1>11, <2>2 DEF FitIs
      <3>2. pa[c] = x /\ pv[c] = Nil
        <4>1. ch[x] # Nil /\ c = ch[x]
          BY <3>1
        <4>2. QED
          BY ONLY <1>1, <4>1, x \in Node DEF FitIs
      <3>3. c # n /\ c # o
        BY ONLY <1>1, <2>2, <3>2, pa[n] = Nil, pa[o] = d, x \in Node
      <3>4. c # nx[o]
        BY ONLY <1>1, <3>1, <3>2, o \in Node DEF FitIs
      <3>5. QED
        BY ONLY <1>2, <3>1, <3>2, <3>3, <3>4
    <2>3. QED
      BY <2>1, <2>2
  <1>12. ASSUME NEW x \in Node, pa2[x] # Nil
         PROVE  do2[pa2[x]] = do2[x] /\ (pv2[x] = Nil => ch2[pa2[x]] = x)
    <2>1. CASE x = n
      BY ONLY <1>2, <1>3, <1>9, <2>1, n \in Node
    <2>2. CASE x # n
      <3>1. PICK q \in Node : q = pa[x] /\ q = pa2[x] /\ q # Nil
        BY ONLY <1>1, <1>2, <1>12, <2>2 DEF FitIs
      <3>2. x # o
        BY ONLY <1>2, <1>12, <2>2
      <3>3. do[q] = do[x] /\ (pv[x] = Nil => ch[q] = x)
        <4>1. pa[x] # Nil /\ q = pa[x]
          BY <3>1
        <4>2. QED
          BY ONLY <1>1, <4>1, x \in Node DEF FitIs
      <3>4. x \in B <=> q \in B
        <4>1. x \in B <=> x = n \/ (pa[x] # Nil /\ pa[x] \in B)
          BY <1>7
        <4>2. QED
          BY ONLY <2>2, <3>1, <4>1
      <3>5. do2[q] = do2[x]
        BY ONLY <1>2, <3>3, <3>4, x \in Node, q \in Node
      <3>6. ASSUME pv2[x] = Nil PROVE ch2[q] = x
        <4>1. pv[x] = Nil /\ x # nx[o]
          BY ONLY <1>1, <1>2, <2>2, <3>2, <3>6, x \in Node, n \in Node
        <4>2. ch[q] = x
          BY <3>3, <4>1
        <4>3. q = d => pv[o] # Nil
          BY ONLY <1>1, <3>2, <4>2, o \in Node, pa[o] = d, <1>3 DEF FitIs
        <4>4. QED
          BY ONLY <1>2, <4>2, <4>3, q \in Node
      <3>7. QED
        BY ONLY <3>1, <3>5, <3>6
    <2>3. QED
      BY <2>1, <2>2
  <1>13. Ranked(nx2)
    <2>1. nx \in Pointers /\ Ranked(nx)
      BY DEF Fit
    <2>2. ASSUME NEW x \in Node \ {n}
          PROVE  nx2[x] = Nil \/ (nx2[x] = nx[x] /\ nx[x] # n) \/ (nx2[x] = n /\ nx[x] = o)
      <3>1. x = pv[o] => nx[x] = o
        BY ONLY <1>1, <2>2, o \in Node DEF FitIs
      <3>2. QED
        BY ONLY <1>2, <1>5, <2>2, <3>1
    <2>3. nx2[n] \in {Nil, nx[o]} /\ nx[o] # n /\ n # o
      BY ONLY <1>2, <1>3, <1>5, n \in Node, o \in Node
    <2>4. \A x \in Node \ {n} : nx2[x] = Nil \/ (nx2[x] = nx[x] /\ nx[x] # n) \/ (nx2[x] = n /\ nx[x] = o)
      BY ONLY <2>2
    <2>5. QED
      BY ONLY <2>1, <2>3, <2>4, nx2 \in Pointers, n \in Node, o \in Node, RankedReplace
  <1>14. QED
    BY ONLY <1>10, <1>11, <1>12, <1>13 DEF ReplacedSide

LEMMA ReplacedFits ==
  ASSUME NEW nx, NEW pv, NEW pa, NEW ch, NEW la, NEW do, NEW S, NEW R, Fit(nx, pv, pa, ch, la, do, S, R),
         NEW n \in Node, n \in S \ Document, nx[n] = Nil, pv[n] = Nil, pa[n] = Nil,
         NEW d \in Document, d \in R, NEW o \in Node, pa[o] = d, NEW L, L = {n}, NEW B, B = LowerBy(pa, L),
         NEW nx2 \in Pointers, NEW pv2 \in Pointers, NEW pa2 \in Pointers,
         NEW ch2 \in Pointers, NEW la2 \in Pointers, NEW do2 \in Pointers,
         Replaced(nx, pv, pa, ch, la, do, n, o, d, B, nx2, pv2, pa2, ch2, la2, do2)
  PROVE  Fit(nx2, pv2, pa2, ch2, la2, do2, S, R)
  <1>1. FitIs(nx, pv, pa, ch, la, do, S, R) /\ Nil \notin Node
    BY FitFacts, NodesCounted
  <1>2. \A x \in Node :
          /\ nx2[x] = IF x = n THEN nx[o] ELSE IF x = o THEN Nil ELSE IF x = pv[o] THEN n ELSE nx[x]
          /\ pv2[x] = IF x = n THEN pv[o] ELSE IF x = o THEN Nil ELSE IF x = nx[o] THEN n ELSE pv[x]
          /\ pa2[x] = IF x = n THEN d ELSE IF x = o THEN Nil ELSE pa[x]
          /\ ch2[x] = IF x = d /\ pv[o] = Nil THEN n ELSE ch[x]
          /\ la2[x] = IF x = d /\ nx[o] = Nil THEN n ELSE la[x]
          /\ do2[x] = IF x \in B THEN d ELSE do[x]
    BY DEF Replaced
  <1>3. ReplacedSide(nx2, pv2, pa2, ch2, do2)
    BY ReplacedSides
  <1>4. ReplacedSide(pv2, nx2, pa2, la2, do2)
    <2>1. Fit(pv, nx, pa, la, ch, do, S, R)
      BY Mirrored
    <2>2. Replaced(pv, nx, pa, la, ch, do, n, o, d, B, pv2, nx2, pa2, la2, ch2, do2)
      BY ONLY <1>2 DEF Replaced
    <2>3. QED
      BY <2>1, <2>2, ReplacedSides
  <1>5. d \in Node /\ d # Nil /\ o # n /\ pa[d] = Nil /\ d # n /\ d # o /\ d \in S /\ o \in S
    BY ONLY <1>1, d \in Document, n \in S \ Document, o \in Node, pa[o] = d, pa[n] = Nil DEF FitIs
  <1>6. n \in B /\ B \subseteq S /\ B \cap Document = {}
    <2>1. PICK K : K = {n}
      OBVIOUS
    <2>2. Hangs(pa, K, B, S)
      BY <2>1, LowerIs
    <2>3. QED
      BY ONLY <2>1, <2>2, n \in S \ Document DEF Hangs
  <1>7. FitIs(nx2, pv2, pa2, ch2, la2, do2, S, R)
    <2>1. \A x \in Node : /\ nx2[x] \in Node \cup {Nil} /\ pv2[x] \in Node \cup {Nil} /\ pa2[x] \in Node \cup {Nil}
                          /\ ch2[x] \in Node \cup {Nil} /\ la2[x] \in Node \cup {Nil} /\ do2[x] \in Node \cup {Nil}
      BY DEF Pointers
    <2>2. ASSUME NEW e \in Document
          PROVE  e \in Node /\ nx2[e] = Nil /\ pv2[e] = Nil /\ pa2[e] = Nil /\ (e \in S => do2[e] = e)
      <3>1. e \in Node /\ nx[e] = Nil /\ pv[e] = Nil /\ pa[e] = Nil /\ (e \in S => do[e] = e) /\ e \notin B /\ e # n
        BY ONLY <1>1, <1>6, <2>2, n \in S \ Document DEF FitIs
      <3>2. e # pv[o] /\ e # nx[o]
        BY ONLY <1>1, <1>5, <3>1, o \in Node, pa[o] = d DEF FitIs
      <3>3. QED
        BY ONLY <1>2, <3>1, <3>2
    <2>3. \A x \in Node :
            /\ nx2[x] \in S \cup {Nil} /\ pv2[x] \in S \cup {Nil} /\ pa2[x] \in S \cup {Nil}
            /\ ch2[x] \in S \cup {Nil} /\ la2[x] \in S \cup {Nil} /\ do2[x] \in R \cup {Nil}
      BY ONLY <1>1, <1>2, <1>5, n \in S \ Document, o \in Node, d \in R DEF FitIs
    <2>4. ASSUME NEW x \in Node \ S
          PROVE  /\ nx2[x] = Nil /\ pv2[x] = Nil /\ pa2[x] = Nil
                 /\ ch2[x] = Nil /\ la2[x] = Nil /\ do2[x] = Nil
      <3>1. x \in Node /\ x # n /\ x # o /\ x # d /\ x \notin B
        BY ONLY <1>5, <1>6, <2>4, n \in S \ Document
      <3>2. x # pv[o] /\ x # nx[o]
        BY ONLY <1>1, <2>4, o \in Node DEF FitIs
      <3>3. /\ nx[x] = Nil /\ pv[x] = Nil /\ pa[x] = Nil
            /\ ch[x] = Nil /\ la[x] = Nil /\ do[x] = Nil
        BY ONLY <1>1, <2>4 DEF FitIs
      <3>4. QED
        BY ONLY <1>2, <3>1, <3>2, <3>3
    <2>5. QED
      BY ONLY <1>3, <1>4, <2>1, <2>2, <2>3, <2>4 DEF FitIs, ReplacedSide
  <1>8. Ranked(pa2)
    <2>1. PICK U : U = {d}
      OBVIOUS
    <2>2. \A x \in Node : \/ pa2[x] = Nil
                          \/ pa2[x] = pa[x] /\ (x \in U => pa2[x] \in U)
                          \/ x \notin U /\ pa2[x] \in U
      BY ONLY <1>2, <1>5, <2>1
    <2>3. pa \in Pointers /\ Ranked(pa)
      BY DEF Fit
    <2>4. QED
      BY ONLY <2>2, <2>3, pa2 \in Pointers, RankedUp
  <1>9. Ranked(nx2)
    BY <1>3 DEF ReplacedSide
  <1>10. QED
    BY <1>7, <1>8, <1>9, FitMade

\* The tree with n between two neighbours among the children of d.
Placed(s, d, n, before, after) ==
  LET b == Put(Put(s, "prev", n, before), "next", before, n)
      c == Put(Put(b, "next", n, after), "prev", after, n)
      f == IF before = Nil THEN Put(c, "children", d, n) ELSE c
  IN  IF after = Nil THEN Put(f, "last", d, n) ELSE f

IsPlaced(u, s, d, n, before, after) ==
  /\ u \in Trees /\ u.parent = s.parent /\ u.doc = s.doc
  /\ \A x \in Node :
       /\ u.prev[x] = IF x = after THEN n ELSE IF x = n THEN before ELSE s.prev[x]
       /\ u.next[x] = IF x = n THEN after ELSE IF x = before THEN n ELSE s.next[x]
       /\ u.children[x] = IF x = d /\ before = Nil THEN n ELSE s.children[x]
       /\ u.last[x] = IF x = d /\ after = Nil THEN n ELSE s.last[x]

LEMMA PlacedIs ==
  ASSUME NEW s \in Trees, NEW d \in Node, NEW n \in Node, NEW before \in Node \cup {Nil}, NEW after \in Node \cup {Nil},
         NEW u, u = Placed(s, d, n, before, after)
  PROVE  IsPlaced(u, s, d, n, before, after)
  <1>1. n \in Node \cup {Nil} /\ d \in Node \cup {Nil} /\ \A x \in Node : x # Nil
    BY NodesCounted
  <1>2. PICK b1, b, c1, c, f : /\ b1 = Put(s, "prev", n, before) /\ b = Put(b1, "next", before, n)
                               /\ c1 = Put(b, "next", n, after) /\ c = Put(c1, "prev", after, n)
                               /\ f = IF before = Nil THEN Put(c, "children", d, n) ELSE c
    OBVIOUS
  <1>3. u = IF after = Nil THEN Put(f, "last", d, n) ELSE f
    BY ONLY <1>2, u = Placed(s, d, n, before, after) DEF Placed
  <1>4. PrevPut(b1, s, n, before)
    BY <1>1, <1>2, PutPrev
  <1>5. NextPut(b, b1, before, n)
    BY <1>1, <1>2, <1>4, PutNext DEF PrevPut
  <1>11. b \in Trees
    BY <1>5 DEF NextPut
  <1>6. NextPut(c1, b, n, after)
    BY <1>1, <1>2, <1>11, PutNext
  <1>7. PrevPut(c, c1, after, n)
    BY <1>1, <1>2, <1>6, PutPrev DEF NextPut
  <1>8. /\ f \in Trees /\ f.parent = c.parent /\ f.prev = c.prev /\ f.next = c.next /\ f.last = c.last /\ f.doc = c.doc
        /\ \A x \in Node : f.children[x] = IF x = d /\ before = Nil THEN n ELSE c.children[x]
    <2>1. CASE before = Nil
      <3>1. ChildrenPut(f, c, d, n)
        BY <1>1, <1>2, <1>7, <2>1, PutChildren DEF PrevPut
      <3>2. QED
        BY ONLY <2>1, <3>1 DEF ChildrenPut
    <2>2. CASE before # Nil
      BY <1>2, <1>7, <2>2 DEF PrevPut
    <2>3. QED
      BY <2>1, <2>2
  <1>9. /\ u \in Trees /\ u.parent = f.parent /\ u.prev = f.prev /\ u.next = f.next /\ u.children = f.children /\ u.doc = f.doc
        /\ \A x \in Node : u.last[x] = IF x = d /\ after = Nil THEN n ELSE f.last[x]
    <2>1. CASE after = Nil
      <3>1. LastPut(u, f, d, n)
        BY <1>1, <1>3, <1>8, <2>1, PutLast
      <3>2. QED
        BY ONLY <2>1, <3>1 DEF LastPut
    <2>2. CASE after # Nil
      BY <1>3, <1>8, <2>2
    <2>3. QED
      BY <2>1, <2>2
  <1>10. QED
    BY ONLY <1>4, <1>5, <1>6, <1>7, <1>8, <1>9 DEF PrevPut, NextPut, IsPlaced

\* The new root leaves where it was and comes into the document.
Entered(w, d, n, u) ==
  /\ u \in Trees /\ u.next = w.next /\ u.prev = w.prev /\ u.children = w.children /\ u.last = w.last
  /\ \A x \in Node :
       /\ u.parent[x] = IF x = n THEN d ELSE w.parent[x]
       /\ u.doc[x] = IF x \in LowerBy(w.parent, {n}) THEN d ELSE w.doc[x]

\* ... at the end, or in the place of one of the children.
RootSet(w, d, n, u, v) ==
  \/ IsPlaced(v, u, d, n, u.last[d], Nil)
  \/ \E o \in Walk(u.next, u.children[d]) : \E r : IsPlaced(r, u, d, n, u.prev[o], u.next[o]) /\ Severed(v, r, o)

RootElements(u, d) ==
  {m \in Along(u, "next", u.children[d]) \cap Element : \A l \in Along(u, "prev", m) \ {m} : l \notin Element}

NewRoot(u, d, n) ==
  IF RootElements(u, d) = {} THEN Placed(u, d, n, u.last[d], Nil)
  ELSE LET o == CHOOSE m \in RootElements(u, d) : TRUE
           r == Placed(u, d, n, u.prev[o], u.next[o])
       IN  [r EXCEPT !.parent[o] = Nil, !.next[o] = Nil, !.prev[o] = Nil]

LEMMA SetRootIs ==
  ASSUME NEW t \in Trees, NEW d \in Node, NEW n \in Node, NEW w, w = xmlUnlinkNode(t, n),
         NEW v, v = xmlDocSetRootElement(t, d, n)
  PROVE  v \in Trees /\ \E u : Entered(w, d, n, u) /\ RootSet(w, d, n, u, v)
  <1>1. n \in Node \cup {Nil} /\ d \in Node \cup {Nil} /\ Nil \in Node \cup {Nil} /\ w \in Trees
    BY UnlinkIs
  <1>2. PICK s, u : s = xmlSetTreeDoc(w, {n}, d) /\ u = Put(s, "parent", n, d)
    OBVIOUS
  <1>3. s = PutAll(w, "doc", LowerBy(w.parent, {n}), d)
    BY <1>2, AlongIs DEF xmlSetTreeDoc
  <1>4. DocPutAll(s, w, LowerBy(w.parent, {n}), d)
    BY <1>1, <1>3, PutAllDoc
  <1>5. ParentPut(u, s, n, d)
    BY <1>1, <1>2, <1>4, PutParent DEF DocPutAll
  <1>6. Entered(w, d, n, u)
    BY ONLY <1>4, <1>5 DEF DocPutAll, ParentPut, Entered
  <1>7. PICK old : old = RootElements(u, d)
    OBVIOUS
  <1>8. PICK o, r : /\ o = (CHOOSE m \in RootElements(u, d) : TRUE)
                    /\ r = Placed(u, d, n, u.prev[o], u.next[o])
    OBVIOUS
  <1>9. v = IF old = {} THEN Placed(u, d, n, u.last[d], Nil)
            ELSE [r EXCEPT !.parent[o] = Nil, !.next[o] = Nil, !.prev[o] = Nil]
    <2>1. xmlDocSetRootElement(t, d, n) = NewRoot(Put(xmlSetTreeDoc(xmlUnlinkNode(t, n), {n}, d), "parent", n, d), d, n)
      BY ZenonT(60) DEF xmlDocSetRootElement, NewRoot, RootElements, Placed
    <2>2. v = NewRoot(u, d, n)
      BY ONLY <1>2, <2>1, v = xmlDocSetRootElement(t, d, n), w = xmlUnlinkNode(t, n)
    <2>3. QED
      BY ONLY <1>7, <1>8, <2>2 DEF NewRoot
  <1>10. u \in Trees
    BY <1>6 DEF Entered
  <1>11. CASE old = {}
    <2>1. v = Placed(u, d, n, u.last[d], Nil)
      BY <1>9, <1>11
    <2>2. u.last[d] \in Node \cup {Nil}
      BY <1>10, Dots
    <2>3. IsPlaced(v, u, d, n, u.last[d], Nil)
      BY <1>1, <1>10, <2>1, <2>2, PlacedIs
    <2>4. QED
      BY <1>6, <2>3 DEF RootSet, IsPlaced
  <1>12. CASE old # {}
    <2>1. o \in old
      BY <1>7, <1>8, <1>12
    <2>2. o \in Walk(u.next, u.children[d])
      BY <1>7, <2>1, AlongIs DEF RootElements
    <2>3. o \in Node
      <3>1. u.next \in Pointers /\ u.children[d] \in Node \cup {Nil}
        BY <1>10, Dots
      <3>2. QED
        BY <2>2, <3>1, WalkWithin
    <2>4. u.prev[o] \in Node \cup {Nil} /\ u.next[o] \in Node \cup {Nil}
      BY <1>10, <2>3, Dots
    <2>5. IsPlaced(r, u, d, n, u.prev[o], u.next[o])
      BY <1>8, <1>10, <2>4, PlacedIs
    <2>6. v = [r EXCEPT !.parent[o] = Nil, !.next[o] = Nil, !.prev[o] = Nil]
      BY ONLY <1>9, <1>12
    <2>7. Severed(v, r, o)
      BY <2>3, <2>5, <2>6, Severs DEF IsPlaced
    <2>8. RootSet(w, d, n, u, v)
      BY ONLY <2>2, <2>5, <2>7 DEF RootSet
    <2>9. QED
      BY <1>6, <2>7, <2>8 DEF Severed
  <1>13. QED
    BY <1>11, <1>12

LEMMA SetRootForest ==
  ASSUME NEW t, NEW S, NEW R, Forest(t, S, R), NEW n \in Node, n \in S \ Document,
         NEW d \in Document, d \in S, d \in R
  PROVE  Forest(xmlDocSetRootElement(t, d, n), S, R)
  <1>1. PICK w, v, B : /\ w = xmlUnlinkNode(t, n) /\ v = xmlDocSetRootElement(t, d, n)
                       /\ B = LowerBy(w.parent, {n})
    OBVIOUS
  <1>2. d \in Node /\ t \in Trees
    BY NodeAssumption DEF Forest
  <1>3. /\ w \in Trees /\ Forest(w, S, R)
        /\ Unlinks(t.next, t.prev, t.parent, t.children, t.last, t.doc, n,
                   w.next, w.prev, w.parent, w.children, w.last, w.doc)
    BY <1>1, <1>2, UnlinkIs, UnlinkForest
  <1>4. PICK u : v \in Trees /\ Entered(w, d, n, u) /\ RootSet(w, d, n, u, v)
    BY <1>1, <1>2, SetRootIs
  <1>5. Fit(w.next, w.prev, w.parent, w.children, w.last, w.doc, S, R)
    BY <1>3 DEF Forest
  <1>6. FitIs(w.next, w.prev, w.parent, w.children, w.last, w.doc, S, R) /\ Nil \notin Node
    BY <1>5, FitFacts, NodesCounted
  <1>7. w.next[n] = Nil /\ w.prev[n] = Nil /\ w.parent[n] = Nil
    BY <1>3 DEF Unlinks
  <1>8. /\ u.next = w.next /\ u.prev = w.prev /\ u.children = w.children /\ u.last = w.last
        /\ \A x \in Node :
             /\ u.parent[x] = IF x = n THEN d ELSE w.parent[x]
             /\ u.doc[x] = IF x \in B THEN d ELSE w.doc[x]
    BY <1>1, <1>4 DEF Entered
  <1>9. w.doc[d] = d /\ d # n /\ w.parent[d] = Nil
    BY ONLY <1>6, <1>2, d \in Document, d \in S, n \in S \ Document DEF FitIs
  <1>10. /\ n \in B /\ B \cap Document = {}
         /\ \A x \in Node : x \in B <=> x = n \/ (w.parent[x] # Nil /\ w.parent[x] \in B)
    <2>1. PICK K : K = {n}
      OBVIOUS
    <2>2. Hangs(w.parent, K, B, S)
      BY <1>1, <1>5, <2>1, LowerIs
    <2>3. QED
      BY ONLY <2>1, <2>2, n \in S \ Document DEF Hangs
  <1>16. PICK L : L = {n}
    OBVIOUS
  <1>11. L = Walk(w.next, n) /\ IsEnd(w.next, n, n) /\ B = LowerBy(w.parent, L)
    <2>1. Walk(w.next, n) = {n} /\ IsEnd(w.next, n, n)
      BY <1>3, <1>7, Dots, LoneWalk
    <2>2. QED
      BY ONLY <1>1, <1>16, <2>1
  <1>17. n \in S \ Document /\ n \in Node
    OBVIOUS
  <1>15. /\ v.next \in Pointers /\ v.prev \in Pointers /\ v.parent \in Pointers
         /\ v.children \in Pointers /\ v.last \in Pointers /\ v.doc \in Pointers
    BY <1>4, Dots
  <1>12. CASE IsPlaced(v, u, d, n, u.last[d], Nil)
    <2>1. PICK end : end = w.last[d]
      OBVIOUS
    <2>2. /\ v.parent = u.parent /\ v.doc = u.doc
          /\ \A x \in Node :
               /\ v.prev[x] = IF x = n THEN end ELSE w.prev[x]
               /\ v.next[x] = IF x = n THEN Nil ELSE IF x = end THEN n ELSE w.next[x]
               /\ v.children[x] = IF x = d /\ end = Nil THEN n ELSE w.children[x]
               /\ v.last[x] = IF x = d THEN n ELSE w.last[x]
      BY ONLY <1>6, <1>8, <1>12, <2>1 DEF IsPlaced
    <2>3. end # Nil => /\ end \in Node /\ end \in S \ Document /\ w.next[end] = Nil /\ w.parent[end] = d
                       /\ w.doc[end] = d /\ end # n
      <3>1. ASSUME end # Nil PROVE end \in Node /\ end \in S /\ w.next[end] = Nil /\ w.parent[end] = d
        BY ONLY <1>2, <1>6, <2>1, <3>1 DEF FitIs
      <3>2. \A e \in Document : w.parent[e] = Nil
        BY <1>6 DEF FitIs
      <3>3. ASSUME end # Nil PROVE w.doc[end] = w.doc[d]
        BY ONLY <1>2, <1>6, <3>1, <3>3 DEF FitIs
      <3>4. QED
        BY ONLY <1>2, <1>6, <1>7, <1>9, <3>1, <3>2, <3>3
    <2>4. CASE end # Nil
      <3>1. Joined(w.next, w.prev, w.parent, w.children, w.last, w.doc, end, n, n, L, B,
                   v.next, v.prev, v.parent, v.children, v.last, v.doc)
        BY ONLY <1>2, <1>6, <1>7, <1>8, <1>16, <2>2, <2>3, <2>4 DEF Joined
      <3>2. end \notin B
        BY ONLY <1>6, <1>9, <1>10, <2>3, <2>4, d \in Document
      <3>3. Fit(v.next, v.prev, v.parent, v.children, v.last, v.doc, S, R)
        <4>1. end \in Node /\ end \in S \ Document /\ w.next[end] = Nil
          BY <2>3, <2>4
        <4>2. QED
          BY ONLY <1>5, <1>11, <1>15, <1>17, <3>1, <3>2, <4>1, JoinedFits
      <3>4. QED
        BY <1>1, <1>4, <3>3 DEF Forest
    <2>5. CASE end = Nil
      <3>1. Filled(w.next, w.prev, w.parent, w.children, w.last, w.doc, n, d, n, L, B,
                   v.next, v.prev, v.parent, v.children, v.last, v.doc)
        BY ONLY <1>2, <1>6, <1>7, <1>8, <1>9, <1>16, <2>2, <2>5 DEF Filled
      <3>2. w.children[d] = Nil /\ w.last[d] = Nil
        <4>1. w.children[d] = Nil <=> w.last[d] = Nil
          BY <1>2, <1>5, ChildrenAre
        <4>2. QED
          BY <2>1, <2>5, <4>1
      <3>3. d \notin B
        BY <1>10
      <3>4. Fit(v.next, v.prev, v.parent, v.children, v.last, v.doc, S, R)
        BY ONLY <1>2, <1>5, <1>7, <1>11, <1>15, <1>17, <3>1, <3>2, <3>3, d \in S, FilledFits
      <3>5. QED
        BY <1>1, <1>4, <3>4 DEF Forest
    <2>6. QED
      BY <2>4, <2>5
  <1>13. CASE \E o \in Walk(u.next, u.children[d]) : \E r : IsPlaced(r, u, d, n, u.prev[o], u.next[o]) /\ Severed(v, r, o)
    <2>9. PICK o \in Walk(w.next, w.children[d]) :
              \E r : IsPlaced(r, u, d, n, w.prev[o], w.next[o]) /\ Severed(v, r, o)
      BY <1>8, <1>13
    <2>1. PICK r : IsPlaced(r, u, d, n, w.prev[o], w.next[o]) /\ Severed(v, r, o)
      BY <2>9
    <2>2. o \in Node /\ w.parent[o] = d
      BY <1>2, <1>5, <2>9, ChildrenAre
    <2>3. o # n /\ w.next[o] # n /\ w.prev[o] # n
      BY ONLY <1>2, <1>6, <1>7, <2>2, n \in Node DEF FitIs
    <2>4. \A x \in Node :
            /\ r.prev[x] = IF x = w.next[o] THEN n ELSE IF x = n THEN w.prev[o] ELSE w.prev[x]
            /\ r.next[x] = IF x = n THEN w.next[o] ELSE IF x = w.prev[o] THEN n ELSE w.next[x]
            /\ r.children[x] = IF x = d /\ w.prev[o] = Nil THEN n ELSE w.children[x]
            /\ r.last[x] = IF x = d /\ w.next[o] = Nil THEN n ELSE w.last[x]
            /\ r.parent[x] = u.parent[x] /\ r.doc[x] = u.doc[x]
      BY ONLY <1>8, <2>1 DEF IsPlaced
    <2>5. \A x \in Node :
            /\ v.children[x] = r.children[x] /\ v.last[x] = r.last[x] /\ v.doc[x] = r.doc[x]
            /\ v.parent[x] = IF x = o THEN Nil ELSE r.parent[x]
            /\ v.next[x] = IF x = o THEN Nil ELSE r.next[x]
            /\ v.prev[x] = IF x = o THEN Nil ELSE r.prev[x]
      BY ONLY <2>1 DEF Severed
    <2>6. Replaced(w.next, w.prev, w.parent, w.children, w.last, w.doc, n, o, d, B,
                   v.next, v.prev, v.parent, v.children, v.last, v.doc)
      BY ONLY <1>8, <2>3, <2>4, <2>5 DEF Replaced
    <2>7. Fit(v.next, v.prev, v.parent, v.children, v.last, v.doc, S, R)
      <3>1. o \in Node /\ w.parent[o] = d /\ L = {n}
        BY <1>16, <2>2
      <3>2. QED
        BY ONLY <1>5, <1>7, <1>11, <1>15, <1>17, <2>6, <3>1, d \in Document, d \in R, ReplacedFits
    <2>8. QED
      BY <1>1, <1>4, <2>7 DEF Forest
  <1>14. QED
    BY <1>4, <1>12, <1>13 DEF RootSet

\* S is n, or n and all below it.
Subtree(nx, pv, pa, ch, la, n, S) ==
  /\ n \in S /\ S \subseteq Node
  /\ \A m \in S :
       /\ m # n => /\ pa[m] \in S /\ m \notin Document
                   /\ nx[m] \in S \cup {Nil} /\ pv[m] \in S \cup {Nil} /\ nx[m] # n /\ pv[m] # n
       /\ ch[m] # n /\ la[m] # n

LEMMA AloneSubtree ==
  ASSUME NEW nx, NEW pv, NEW pa, NEW ch, NEW la, NEW do, NEW E, NEW R, Fit(nx, pv, pa, ch, la, do, E, R),
         NEW n \in Node
  PROVE  pa[n] # n /\ ch[n] # n /\ la[n] # n
  <1>1. FitIs(nx, pv, pa, ch, la, do, E, R) /\ Nil \notin Node /\ pa \in Pointers /\ Ranked(pa)
    BY FitFacts, NodesCounted DEF Fit
  <1>2. pa[n] # n
    <2>1. n \notin Walk(pa, pa[n])
      BY <1>1, WalkGoesOn
    <2>2. n \in Walk(pa, n)
      BY <1>1, WalkWithin
    <2>3. QED
      BY <2>1, <2>2
  <1>3. QED
    BY ONLY <1>1, <1>2, n \in Node DEF FitIs

LEMMA OneSubtree ==
  ASSUME NEW nx, NEW pv, NEW pa, NEW ch, NEW la, NEW do, NEW E, NEW R, Fit(nx, pv, pa, ch, la, do, E, R),
         NEW n \in Node, NEW S, S = {n}
  PROVE  Subtree(nx, pv, pa, ch, la, n, S)
  BY AloneSubtree DEF Subtree

LEMMA WholeSubtree ==
  ASSUME NEW nx, NEW pv, NEW pa, NEW ch, NEW la, NEW do, NEW E, NEW R, Fit(nx, pv, pa, ch, la, do, E, R),
         NEW n \in Node, NEW K, K = {n}, NEW S, S = LowerBy(pa, K)
  PROVE  Subtree(nx, pv, pa, ch, la, n, S)
  <1>1. FitIs(nx, pv, pa, ch, la, do, E, R) /\ Nil \notin Node /\ pa \in Pointers /\ Ranked(pa)
    BY FitFacts, NodesCounted DEF Fit
  <1>2. Hangs(pa, K, S, E)
    BY LowerIs
  <1>3. /\ n \in S /\ S \subseteq Node
        /\ \A x \in Node : x \in S <=> x = n \/ (pa[x] # Nil /\ pa[x] \in S)
    BY ONLY <1>2, K = {n} DEF Hangs
  <1>4. pa[n] \notin S
    <2>1. n \notin Walk(pa, pa[n])
      BY <1>1, WalkGoesOn
    <2>2. \A x \in S : n \in Walk(pa, x)
      BY DEF LowerBy
    <2>3. QED
      BY <2>1, <2>2
  <1>5. ASSUME NEW m \in S
        PROVE  /\ m # n => /\ pa[m] \in S /\ m \notin Document
                           /\ nx[m] \in S \cup {Nil} /\ pv[m] \in S \cup {Nil} /\ nx[m] # n /\ pv[m] # n
               /\ ch[m] # n /\ la[m] # n
    <2>1. m \in Node /\ n \in Node
      BY <1>3
    <2>2. m # n => pa[m] # Nil /\ pa[m] \in S
      BY <1>3, <2>1
    <2>3. m \in Document => pa[m] = Nil
      BY ONLY <1>1 DEF FitIs
    <2>4. nx[m] # Nil => nx[m] \in Node /\ pa[nx[m]] = pa[m]
      BY ONLY <1>1, <2>1 DEF FitIs
    <2>5. pv[m] # Nil => pv[m] \in Node /\ pa[pv[m]] = pa[m]
      BY ONLY <1>1, <2>1 DEF FitIs
    <2>6. /\ ch[m] # Nil => pa[ch[m]] = m
          /\ la[m] # Nil => pa[la[m]] = m
      BY ONLY <1>1, <2>1 DEF FitIs
    <2>7. QED
      BY ONLY <1>1, <1>3, <1>4, <2>1, <2>2, <2>3, <2>4, <2>5, <2>6, m \in S
  <1>6. QED
    BY <1>3, <1>5 DEF Subtree

\* The nodes of S are copied by f, to free places; the copies are of v.
Copies(nx, pv, pa, ch, la, do, n, S, f, I, v, nx2, pv2, pa2, ch2, la2, do2) ==
  /\ \A x \in Node \ I : /\ nx2[x] = nx[x] /\ pv2[x] = pv[x] /\ pa2[x] = pa[x]
                         /\ ch2[x] = ch[x] /\ la2[x] = la[x] /\ do2[x] = do[x]
  /\ \A m \in S :
       /\ nx2[f[m]] = IF m = n \/ nx[m] \notin S THEN Nil ELSE f[nx[m]]
       /\ pv2[f[m]] = IF m = n \/ pv[m] \notin S THEN Nil ELSE f[pv[m]]
       /\ pa2[f[m]] = IF m = n \/ pa[m] \notin S THEN Nil ELSE f[pa[m]]
       /\ ch2[f[m]] = IF ch[m] \notin S THEN Nil ELSE f[ch[m]]
       /\ la2[f[m]] = IF la[m] \notin S THEN Nil ELSE f[la[m]]
       /\ do2[f[m]] = v

\* f takes the nodes of S to those of I, one to one; from takes them back.
Pairs(f, from, S, I) ==
  /\ \A m \in S : f[m] \in I /\ from[f[m]] = m
  /\ \A c \in I : from[c] \in S /\ f[from[c]] = c
  /\ I \subseteq Node /\ \A m \in S : f[m] \in Document <=> m \in Document

LEMMA CopiedFits ==
  ASSUME NEW nx, NEW pv, NEW pa, NEW ch, NEW la, NEW do, NEW E, NEW R, Fit(nx, pv, pa, ch, la, do, E, R),
         NEW n \in Node, NEW S, NEW I, NEW f, NEW from, E \subseteq R,
         Subtree(nx, pv, pa, ch, la, n, S), Pairs(f, from, S, I), I \cap E = {},
         NEW v, v = IF n \in Document THEN f[n] ELSE Nil,
         NEW nx2 \in Pointers, NEW pv2 \in Pointers, NEW pa2 \in Pointers,
         NEW ch2 \in Pointers, NEW la2 \in Pointers, NEW do2 \in Pointers,
         Copies(nx, pv, pa, ch, la, do, n, S, f, I, v, nx2, pv2, pa2, ch2, la2, do2)
  PROVE  Fit(nx2, pv2, pa2, ch2, la2, do2, E \cup I, R \cup I)
  <1>1. FitIs(nx, pv, pa, ch, la, do, E, R) /\ Nil \notin Node
    BY FitFacts, NodesCounted
  <1>2. /\ n \in S /\ S \subseteq Node
        /\ \A m \in S :
             /\ m # n => /\ pa[m] \in S /\ m \notin Document
                         /\ nx[m] \in S \cup {Nil} /\ pv[m] \in S \cup {Nil} /\ nx[m] # n /\ pv[m] # n
             /\ ch[m] # n /\ la[m] # n
    BY DEF Subtree
  <1>3. /\ \A m \in S : f[m] \in I /\ from[f[m]] = m /\ (f[m] \in Document <=> m \in Document)
        /\ \A c \in I : from[c] \in S /\ f[from[c]] = c
        /\ I \subseteq Node
    BY DEF Pairs
  \* What the copies have.
  <1>4. ASSUME NEW m \in S
        PROVE  /\ m = n => nx2[f[m]] = Nil /\ pv2[f[m]] = Nil /\ pa2[f[m]] = Nil
               /\ m # n => /\ nx2[f[m]] = IF nx[m] = Nil THEN Nil ELSE f[nx[m]]
                           /\ pv2[f[m]] = IF pv[m] = Nil THEN Nil ELSE f[pv[m]]
                           /\ pa2[f[m]] = f[pa[m]]
               /\ ch2[f[m]] = IF ch[m] \notin S THEN Nil ELSE f[ch[m]]
               /\ la2[f[m]] = IF la[m] \notin S THEN Nil ELSE f[la[m]]
               /\ do2[f[m]] = v
    <2>1. Nil \notin S
      BY <1>1, <1>2
    <2>2. QED
      BY <1>2, <2>1 DEF Copies
  \* What the others have.
  <1>5. ASSUME NEW x \in Node \ I
        PROVE  /\ nx2[x] = nx[x] /\ pv2[x] = pv[x] /\ pa2[x] = pa[x]
               /\ ch2[x] = ch[x] /\ la2[x] = la[x] /\ do2[x] = do[x]
               /\ nx2[x] \notin I /\ pv2[x] \notin I /\ pa2[x] \notin I /\ ch2[x] \notin I /\ la2[x] \notin I
    <2>1. /\ nx2[x] = nx[x] /\ pv2[x] = pv[x] /\ pa2[x] = pa[x]
          /\ ch2[x] = ch[x] /\ la2[x] = la[x] /\ do2[x] = do[x]
      BY DEF Copies
    <2>2. Nil \notin I /\ x \in Node
      BY <1>1, <1>3
    <2>3. /\ nx[x] \in E \cup {Nil} /\ pv[x] \in E \cup {Nil} /\ pa[x] \in E \cup {Nil}
          /\ ch[x] \in E \cup {Nil} /\ la[x] \in E \cup {Nil}
      BY ONLY <1>1, <2>2 DEF FitIs
    <2>4. QED
      BY ONLY <2>1, <2>2, <2>3, I \cap E = {}
  <1>6. Ranked(nx2) /\ Ranked(pa2)
    <2>1. nx \in Pointers /\ pa \in Pointers /\ Ranked(nx) /\ Ranked(pa)
      BY DEF Fit
    <2>2. \A c \in I : from[c] \in Node
      BY <1>2, <1>3
    <2>3. \A x \in Node \ I : nx2[x] = nx[x] /\ nx2[x] \notin I /\ pa2[x] = pa[x] /\ pa2[x] \notin I
      BY <1>5
    <2>4. ASSUME NEW c \in I
          PROVE  /\ nx2[c] # Nil => nx2[c] \in I /\ from[nx2[c]] = nx[from[c]]
                 /\ pa2[c] # Nil => pa2[c] \in I /\ from[pa2[c]] = pa[from[c]]
      <3>1. PICK m \in S : m = from[c] /\ c = f[m]
        BY <1>3
      <3>2. nx2[c] # Nil => nx[m] \in S /\ nx2[c] = f[nx[m]]
        BY <1>2, <1>4, <3>1
      <3>3. pa2[c] # Nil => pa[m] \in S /\ pa2[c] = f[pa[m]]
        BY <1>2, <1>4, <3>1
      <3>4. QED
        BY <1>3, <3>1, <3>2, <3>3
    <2>5. \A c \in I : nx2[c] # Nil => nx2[c] \in I /\ from[nx2[c]] = nx[from[c]]
      BY <2>4
    <2>6. \A c \in I : pa2[c] # Nil => pa2[c] \in I /\ from[pa2[c]] = pa[from[c]]
      BY <2>4
    <2>7. GoesAlike(nx, nx2, I, from) /\ GoesAlike(pa, pa2, I, from)
      BY ONLY <2>2, <2>3, <2>5, <2>6 DEF GoesAlike
    <2>8. nx2 \in Pointers /\ pa2 \in Pointers
      OBVIOUS
    <2>9. QED
      BY ONLY <2>1, <2>7, <2>8, RankedCopy
  <1>7. \A x \in Node : /\ nx2[x] \in Node \cup {Nil} /\ pv2[x] \in Node \cup {Nil} /\ pa2[x] \in Node \cup {Nil}
                        /\ ch2[x] \in Node \cup {Nil} /\ la2[x] \in Node \cup {Nil} /\ do2[x] \in Node \cup {Nil}
    BY DEF Pointers
  <1>8. ASSUME NEW x \in Node
        PROVE  /\ nx2[x] # Nil => pv2[nx2[x]] = x /\ pa2[nx2[x]] = pa2[x] /\ do2[nx2[x]] = do2[x]
               /\ pv2[x] # Nil => nx2[pv2[x]] = x /\ pa2[pv2[x]] = pa2[x] /\ do2[pv2[x]] = do2[x]
               /\ ch2[x] # Nil => pa2[ch2[x]] = x /\ pv2[ch2[x]] = Nil
               /\ la2[x] # Nil => pa2[la2[x]] = x /\ nx2[la2[x]] = Nil
               /\ pa2[x] # Nil => do2[pa2[x]] = do2[x] /\ (pv2[x] = Nil => ch2[pa2[x]] = x)
                                                       /\ (nx2[x] = Nil => la2[pa2[x]] = x)
    <2>1. CASE x \notin I
      <3>1. /\ nx[x] # Nil => pv[nx[x]] = x /\ pa[nx[x]] = pa[x] /\ do[nx[x]] = do[x]
            /\ pv[x] # Nil => nx[pv[x]] = x /\ pa[pv[x]] = pa[x] /\ do[pv[x]] = do[x]
            /\ ch[x] # Nil => pa[ch[x]] = x /\ pv[ch[x]] = Nil
            /\ la[x] # Nil => pa[la[x]] = x /\ nx[la[x]] = Nil
            /\ pa[x] # Nil => do[pa[x]] = do[x] /\ (pv[x] = Nil => ch[pa[x]] = x) /\ (nx[x] = Nil => la[pa[x]] = x)
        BY ONLY <1>1, x \in Node DEF FitIs
      <3>2. /\ nx2[x] = nx[x] /\ pv2[x] = pv[x] /\ pa2[x] = pa[x]
            /\ ch2[x] = ch[x] /\ la2[x] = la[x] /\ do2[x] = do[x]
            /\ nx[x] \in (Node \ I) \cup {Nil} /\ pv[x] \in (Node \ I) \cup {Nil} /\ pa[x] \in (Node \ I) \cup {Nil}
            /\ ch[x] \in (Node \ I) \cup {Nil} /\ la[x] \in (Node \ I) \cup {Nil}
        BY <1>5, <1>7, <2>1
      <3>3. QED
        BY ONLY <1>5, <3>1, <3>2
    <2>2. CASE x \in I
      <3>1. PICK m \in S : m = from[x] /\ x = f[m]
        BY <1>3, <2>2
      <3>2. m \in Node /\ \A y \in S : f[y] # Nil
        BY <1>1, <1>2, <1>3
      <3>3. /\ nx[m] # Nil => pv[nx[m]] = m /\ pa[nx[m]] = pa[m] /\ do[nx[m]] = do[m]
            /\ pv[m] # Nil => nx[pv[m]] = m /\ pa[pv[m]] = pa[m] /\ do[pv[m]] = do[m]
            /\ ch[m] # Nil => pa[ch[m]] = m /\ pv[ch[m]] = Nil
            /\ la[m] # Nil => pa[la[m]] = m /\ nx[la[m]] = Nil
            /\ pa[m] # Nil => do[pa[m]] = do[m] /\ (pv[m] = Nil => ch[pa[m]] = m) /\ (nx[m] = Nil => la[pa[m]] = m)
        BY ONLY <1>1, <3>2 DEF FitIs
      <3>4. Nil \notin S
        BY <1>1, <1>2
      <3>5. nx2[x] # Nil => pv2[nx2[x]] = x /\ pa2[nx2[x]] = pa2[x] /\ do2[nx2[x]] = do2[x]
        BY ONLY <1>2, <1>4, <3>1, <3>2, <3>3, <3>4
      <3>6. pv2[x] # Nil => nx2[pv2[x]] = x /\ pa2[pv2[x]] = pa2[x] /\ do2[pv2[x]] = do2[x]
        BY ONLY <1>2, <1>4, <3>1, <3>2, <3>3, <3>4
      <3>7. ch2[x] # Nil => pa2[ch2[x]] = x /\ pv2[ch2[x]] = Nil
        BY ONLY <1>2, <1>4, <3>1, <3>2, <3>3, <3>4
      <3>8. la2[x] # Nil => pa2[la2[x]] = x /\ nx2[la2[x]] = Nil
        BY ONLY <1>2, <1>4, <3>1, <3>2, <3>3, <3>4
      <3>9. pa2[x] # Nil => do2[pa2[x]] = do2[x] /\ (pv2[x] = Nil => ch2[pa2[x]] = x)
                                                 /\ (nx2[x] = Nil => la2[pa2[x]] = x)
        BY ONLY <1>2, <1>4, <3>1, <3>2, <3>3, <3>4
      <3>10. QED
        BY ONLY <3>5, <3>6, <3>7, <3>8, <3>9
    <2>3. QED
      BY ONLY <2>1, <2>2
  <1>9. ASSUME NEW d \in Document
        PROVE  d \in Node /\ nx2[d] = Nil /\ pv2[d] = Nil /\ pa2[d] = Nil /\ (d \in E \cup I => do2[d] = d)
    <2>1. d \in Node /\ nx[d] = Nil /\ pv[d] = Nil /\ pa[d] = Nil /\ (d \in E => do[d] = d)
      BY ONLY <1>1, d \in Document DEF FitIs
    <2>2. CASE d \notin I
      BY ONLY <1>5, <2>1, <2>2
    <2>3. CASE d \in I
      <3>1. from[d] \in S /\ f[from[d]] = d /\ from[d] \in Document
        BY <1>3, <2>3
      <3>2. from[d] = n
        BY <1>2, <3>1
      <3>3. QED
        BY <1>2, <1>4, <2>1, <3>1, <3>2
    <2>4. QED
      BY ONLY <2>2, <2>3
  <1>10. v \in I \cup {Nil}
    BY <1>2, <1>3
  <1>11. ASSUME NEW x \in Node
         PROVE  /\ nx2[x] \in (E \cup I) \cup {Nil} /\ pv2[x] \in (E \cup I) \cup {Nil}
                /\ pa2[x] \in (E \cup I) \cup {Nil} /\ ch2[x] \in (E \cup I) \cup {Nil}
                /\ la2[x] \in (E \cup I) \cup {Nil} /\ do2[x] \in (R \cup I) \cup {Nil}
    <2>1. CASE x \notin I
      <3>1. /\ nx[x] \in E \cup {Nil} /\ pv[x] \in E \cup {Nil} /\ pa[x] \in E \cup {Nil}
            /\ ch[x] \in E \cup {Nil} /\ la[x] \in E \cup {Nil} /\ do[x] \in R \cup {Nil}
        BY ONLY <1>1, x \in Node DEF FitIs
      <3>2. QED
        BY ONLY <1>5, <2>1, <3>1, x \in Node
    <2>2. CASE x \in I
      <3>1. PICK m \in S : m = from[x] /\ x = f[m]
        BY <1>3, <2>2
      <3>2. QED
        BY <1>2, <1>3, <1>4, <1>10, <3>1
    <2>3. QED
      BY ONLY <2>1, <2>2
  <1>12. ASSUME NEW x \in Node \ (E \cup I)
         PROVE  /\ nx2[x] = Nil /\ pv2[x] = Nil /\ pa2[x] = Nil
                /\ ch2[x] = Nil /\ la2[x] = Nil /\ do2[x] = Nil
    <2>1. x \in Node \ E /\ x \in Node \ I
      OBVIOUS
    <2>2. /\ nx[x] = Nil /\ pv[x] = Nil /\ pa[x] = Nil /\ ch[x] = Nil /\ la[x] = Nil /\ do[x] = Nil
      BY ONLY <1>1, <2>1 DEF FitIs
    <2>3. QED
      BY ONLY <1>5, <2>1, <2>2
  <1>13. FitIs(nx2, pv2, pa2, ch2, la2, do2, E \cup I, R \cup I)
    BY ONLY <1>7, <1>8, <1>9, <1>11, <1>12 DEF FitIs
  <1>14. QED
    BY <1>6, <1>13, FitMade

\* The pointer p of c once the nodes of S are copied.
CopiedValue(n, S, copy, I, p, c) ==
  LET m == CHOOSE o \in S : copy[o] = c
      to == tree[p][m]
  IN  IF c \notin I THEN tree[p][c]
      ELSE IF p = "doc" THEN IF n \in Document THEN copy[n] ELSE Nil
      ELSE IF m = n /\ p \notin {"children", "last"} THEN Nil
      ELSE IF to \in S THEN copy[to] ELSE Nil

LEMMA CopiedIs ==
  ASSUME tree \in Trees, NEW S \in SUBSET Node, NEW n \in S, NEW copy \in [S -> Node],
         \A m, o \in S : copy[m] = copy[o] => m = o,
         NEW I, I = {copy[m] : m \in S}, NEW v, v = IF n \in Document THEN copy[n] ELSE Nil,
         NEW u, u = Copied(n, S, copy)
  PROVE  /\ u \in Trees
         /\ Copies(tree.next, tree.prev, tree.parent, tree.children, tree.last, tree.doc, n, S, copy, I, v,
                   u.next, u.prev, u.parent, u.children, u.last, u.doc)
  <1>1. u = [p \in Pointer |-> [c \in Node |-> CopiedValue(n, S, copy, I, p, c)]]
    BY DEF Copied, CopiedValue
  <1>2. ASSUME NEW p \in Pointer, NEW c \in Node \ I PROVE CopiedValue(n, S, copy, I, p, c) = tree[p][c]
    BY <1>2 DEF CopiedValue
  <1>3. ASSUME NEW p \in Pointer, NEW m \in S
        PROVE  CopiedValue(n, S, copy, I, p, copy[m]) =
                 IF p = "doc" THEN v
                 ELSE IF m = n /\ p \notin {"children", "last"} THEN Nil
                 ELSE IF tree[p][m] \in S THEN copy[tree[p][m]] ELSE Nil
    <2>1. (CHOOSE o \in S : copy[o] = copy[m]) = m
      OBVIOUS
    <2>2. copy[m] \in I
      OBVIOUS
    <2>3. QED
      BY <2>1, <2>2 DEF CopiedValue
  <1>4. ASSUME NEW p \in Pointer, NEW c \in Node PROVE CopiedValue(n, S, copy, I, p, c) \in Node \cup {Nil}
    <2>1. CASE c \notin I
      BY <1>2, <2>1 DEF Trees
    <2>2. CASE c \in I
      <3>1. PICK m \in S : c = copy[m]
        BY <2>2
      <3>2. CopiedValue(n, S, copy, I, p, c) =
                 IF p = "doc" THEN v
                 ELSE IF m = n /\ p \notin {"children", "last"} THEN Nil
                 ELSE IF tree[p][m] \in S THEN copy[tree[p][m]] ELSE Nil
        BY <1>3, <3>1
      <3>3. v \in Node \cup {Nil} /\ (tree[p][m] \in S => copy[tree[p][m]] \in Node)
        OBVIOUS
      <3>4. QED
        BY ONLY <3>2, <3>3
    <2>3. QED
      BY <2>1, <2>2
  <1>5. u \in Trees
    BY <1>1, <1>4 DEF Trees
  <1>6. ASSUME NEW p \in Pointer, NEW c \in Node PROVE u[p][c] = CopiedValue(n, S, copy, I, p, c)
    BY <1>1
  <1>7. ASSUME NEW p \in Pointer PROVE \A x \in Node \ I : u[p][x] = tree[p][x]
    BY <1>2, <1>6
  <1>8. ASSUME NEW p \in Pointer, p \notin {"doc", "children", "last"}
        PROVE  \A m \in S : u[p][copy[m]] = IF m = n \/ tree[p][m] \notin S THEN Nil ELSE copy[tree[p][m]]
    <2>1. ASSUME NEW m \in S PROVE u[p][copy[m]] = IF m = n \/ tree[p][m] \notin S THEN Nil ELSE copy[tree[p][m]]
      <3>1. u[p][copy[m]] = CopiedValue(n, S, copy, I, p, copy[m])
        BY <1>6
      <3>2. QED
        BY <1>3, <1>8, <3>1
    <2>2. QED
      BY <2>1
  <1>9. ASSUME NEW p \in Pointer, p \in {"children", "last"}
        PROVE  \A m \in S : u[p][copy[m]] = IF tree[p][m] \notin S THEN Nil ELSE copy[tree[p][m]]
    <2>1. ASSUME NEW m \in S PROVE u[p][copy[m]] = IF tree[p][m] \notin S THEN Nil ELSE copy[tree[p][m]]
      <3>1. u[p][copy[m]] = CopiedValue(n, S, copy, I, p, copy[m])
        BY <1>6
      <3>2. QED
        BY <1>3, <1>9, <3>1
    <2>2. QED
      BY <2>1
  <1>10. /\ "next" \in Pointer /\ "prev" \in Pointer /\ "parent" \in Pointer
         /\ "children" \in Pointer /\ "last" \in Pointer /\ "doc" \in Pointer
    BY DEF Pointer
  <1>11. \A m \in S : u["doc"][copy[m]] = v
    <2>1. ASSUME NEW m \in S PROVE u["doc"][copy[m]] = v
      <3>1. u["doc"][copy[m]] = CopiedValue(n, S, copy, I, "doc", copy[m])
        BY <1>6, <1>10
      <3>2. QED
        BY <1>3, <1>10, <3>1
    <2>2. QED
      BY <2>1
  <1>12. \A m \in S :
           /\ u["next"][copy[m]] = IF m = n \/ tree["next"][m] \notin S THEN Nil ELSE copy[tree["next"][m]]
           /\ u["prev"][copy[m]] = IF m = n \/ tree["prev"][m] \notin S THEN Nil ELSE copy[tree["prev"][m]]
           /\ u["parent"][copy[m]] = IF m = n \/ tree["parent"][m] \notin S THEN Nil ELSE copy[tree["parent"][m]]
           /\ u["children"][copy[m]] = IF tree["children"][m] \notin S THEN Nil ELSE copy[tree["children"][m]]
           /\ u["last"][copy[m]] = IF tree["last"][m] \notin S THEN Nil ELSE copy[tree["last"][m]]
    <2>1. \A m \in S : u["next"][copy[m]] = IF m = n \/ tree["next"][m] \notin S THEN Nil ELSE copy[tree["next"][m]]
      BY <1>8, <1>10
    <2>2. \A m \in S : u["prev"][copy[m]] = IF m = n \/ tree["prev"][m] \notin S THEN Nil ELSE copy[tree["prev"][m]]
      BY <1>8, <1>10
    <2>3. \A m \in S : u["parent"][copy[m]] = IF m = n \/ tree["parent"][m] \notin S THEN Nil ELSE copy[tree["parent"][m]]
      BY <1>8, <1>10
    <2>4. \A m \in S : u["children"][copy[m]] = IF tree["children"][m] \notin S THEN Nil ELSE copy[tree["children"][m]]
      BY <1>9, <1>10
    <2>5. \A m \in S : u["last"][copy[m]] = IF tree["last"][m] \notin S THEN Nil ELSE copy[tree["last"][m]]
      BY <1>9, <1>10
    <2>6. QED
      BY ONLY <2>1, <2>2, <2>3, <2>4, <2>5
  <1>13. \A x \in Node \ I :
           /\ u["next"][x] = tree["next"][x] /\ u["prev"][x] = tree["prev"][x] /\ u["parent"][x] = tree["parent"][x]
           /\ u["children"][x] = tree["children"][x] /\ u["last"][x] = tree["last"][x] /\ u["doc"][x] = tree["doc"][x]
    BY <1>7, <1>10
  <1>14. QED
    BY ONLY <1>5, <1>11, <1>12, <1>13 DEF Copies

LEMMA CopyForest ==
  ASSUME Forest(tree, exists, exists), exists \in SUBSET Node, NEW n \in exists,
         NEW S, S = {n} \/ S = Below(tree, {n}), NEW copy \in [S -> Node],
         \A m \in S : copy[m] \notin exists /\ (copy[m] \in Document <=> m \in Document),
         \A m, o \in S : copy[m] = copy[o] => m = o,
         NEW I, I = {copy[m] : m \in S}
  PROVE  Forest(Copied(n, S, copy), exists \cup I, exists \cup I)
  <1>1. PICK u, v, K, from : /\ u = Copied(n, S, copy) /\ v = (IF n \in Document THEN copy[n] ELSE Nil)
                             /\ K = {n} /\ from = [c \in I |-> CHOOSE o \in S : copy[o] = c]
    OBVIOUS
  <1>2. tree \in Trees /\ n \in Node
    BY DEF Forest
  <1>3. Fit(tree.next, tree.prev, tree.parent, tree.children, tree.last, tree.doc, exists, exists)
    BY DEF Forest
  <1>4. Subtree(tree.next, tree.prev, tree.parent, tree.children, tree.last, n, S)
    <2>1. CASE S = {n}
      BY <1>2, <1>3, <2>1, OneSubtree
    <2>2. CASE S = Below(tree, {n})
      <3>1. S = LowerBy(tree.parent, K)
        BY <1>1, <2>2, AlongIs
      <3>2. QED
        BY <1>1, <1>2, <1>3, <3>1, WholeSubtree
    <2>3. QED
      BY <2>1, <2>2
  <1>5. n \in S /\ S \in SUBSET Node
    BY <1>4 DEF Subtree
  <1>6. /\ u \in Trees
        /\ Copies(tree.next, tree.prev, tree.parent, tree.children, tree.last, tree.doc, n, S, copy, I, v,
                  u.next, u.prev, u.parent, u.children, u.last, u.doc)
    BY <1>1, <1>2, <1>5, CopiedIs
  <1>7. Pairs(copy, from, S, I)
    BY <1>1, <1>5 DEF Pairs
  <1>8. I \cap exists = {}
    OBVIOUS
  <1>9. /\ u.next \in Pointers /\ u.prev \in Pointers /\ u.parent \in Pointers
        /\ u.children \in Pointers /\ u.last \in Pointers /\ u.doc \in Pointers
    BY <1>6, Dots
  <1>10. Fit(u.next, u.prev, u.parent, u.children, u.last, u.doc, exists \cup I, exists \cup I)
    BY ONLY <1>1, <1>2, <1>3, <1>4, <1>6, <1>7, <1>8, <1>9, CopiedFits
  <1>11. QED
    BY <1>1, <1>6, <1>10 DEF Forest

LEMMA ClearedIs ==
  ASSUME NEW t \in Trees, NEW S, NEW u, u = Cleared(t, S)
  PROVE  /\ u \in Trees
         /\ Erased(t.next, t.prev, t.parent, t.children, t.last, t.doc, S,
                   u.next, u.prev, u.parent, u.children, u.last, u.doc)
  <1>1. \A p \in Pointer, n \in Node : u[p][n] = IF n \in S THEN Nil ELSE t[p][n]
    BY DEF Cleared
  <1>2. u \in Trees
    <2>1. \A p \in Pointer, n \in Node : (IF n \in S THEN Nil ELSE t[p][n]) \in Node \cup {Nil}
      BY DEF Trees
    <2>2. QED
      BY <2>1 DEF Trees, Cleared
  <1>3. QED
    BY <1>1, <1>2 DEF Erased, Pointer

LEMMA FinalizeNodeForest ==
  ASSUME NEW t, NEW S, NEW R, Forest(t, S, R), NEW n \in Node
  PROVE  Forest(Cleared(PutAll(xmlUnlinkNode(t, n), "parent", Along(t, "next", t.children[n]), Nil), {n}), S \ {n}, R)
  <1>1. PICK w, L, u, v, G, x : /\ w = xmlUnlinkNode(t, n) /\ L = Walk(t.next, t.children[n])
                                /\ u = PutAll(w, "parent", L, Nil)
                                /\ v = [u EXCEPT !.children[n] = Nil, !.last[n] = Nil]
                                /\ G = {n} /\ x = Cleared(u, G)
    OBVIOUS
  <1>2. t \in Trees /\ Fit(t.next, t.prev, t.parent, t.children, t.last, t.doc, S, R)
    BY DEF Forest
  <1>3. /\ w \in Trees /\ Forest(w, S, R)
        /\ Unlinks(t.next, t.prev, t.parent, t.children, t.last, t.doc, n,
                   w.next, w.prev, w.parent, w.children, w.last, w.doc)
    BY <1>1, <1>2, UnlinkIs, UnlinkForest
  <1>4. ParentPutAll(u, w, L, Nil)
    BY <1>1, <1>3, PutAllParent
  <1>5. u \in Trees
    BY <1>4 DEF ParentPutAll
  <1>6. Beheaded(v, u, n)
    BY <1>1, <1>5, Beheads
  <1>7. v \in Trees
    BY <1>6 DEF Beheaded
  <1>8. L = {y \in Node : t.parent[y] = n}
    BY <1>1, <1>2, ChildrenAre
  <1>9. \A y \in Node : w.parent[y] = IF y = n THEN Nil ELSE t.parent[y]
    BY <1>3 DEF Unlinks
  <1>10. Nil \notin Node
    BY NodesCounted
  <1>11. Leaves(w.next, w.prev, w.parent, w.children, w.last, w.doc, n,
                v.next, v.prev, v.parent, v.children, v.last, v.doc)
    BY ONLY <1>4, <1>6, <1>8, <1>9, <1>10, n \in Node DEF ParentPutAll, Beheaded, Leaves
  <1>12. Fit(w.next, w.prev, w.parent, w.children, w.last, w.doc, S, R)
    BY <1>3 DEF Forest
  <1>13. Fit(v.next, v.prev, v.parent, v.children, v.last, v.doc, S, R)
    BY <1>7, <1>11, <1>12, Dots, LeavesFits
  <1>14. FitIs(v.next, v.prev, v.parent, v.children, v.last, v.doc, S, R)
    BY <1>13, FitFacts
  <1>15. w.next[n] = Nil /\ w.prev[n] = Nil /\ w.parent[n] = Nil
    BY <1>3 DEF Unlinks
  <1>16. v.next[n] = Nil /\ v.prev[n] = Nil /\ v.parent[n] = Nil
    BY ONLY <1>4, <1>6, <1>15, n \in Node DEF ParentPutAll, Beheaded
  <1>17. \A y \in Node : v.parent[y] # n
    BY ONLY <1>11, <1>10, n \in Node DEF Leaves
  <1>18. Apart(v.next, v.prev, v.parent, v.children, v.last, G)
    <2>1. \A y \in Node : v.next[y] # n /\ v.prev[y] # n /\ v.children[y] # n /\ v.last[y] # n
      BY ONLY <1>10, <1>14, <1>16, n \in Node DEF FitIs
    <2>2. QED
      BY ONLY <1>1, <1>17, <2>1 DEF Apart
  <1>19. /\ x \in Trees
         /\ Erased(u.next, u.prev, u.parent, u.children, u.last, u.doc, G,
                   x.next, x.prev, x.parent, x.children, x.last, x.doc)
    BY <1>1, <1>5, ClearedIs
  <1>20. Erased(v.next, v.prev, v.parent, v.children, v.last, v.doc, G,
                x.next, x.prev, x.parent, x.children, x.last, x.doc)
    BY ONLY <1>1, <1>6, <1>19 DEF Beheaded, Erased
  <1>21. G \in SUBSET Node
    BY <1>1
  <1>22. /\ x.next \in Pointers /\ x.prev \in Pointers /\ x.parent \in Pointers
         /\ x.children \in Pointers /\ x.last \in Pointers /\ x.doc \in Pointers
    BY <1>19, Dots
  <1>23. Fit(x.next, x.prev, x.parent, x.children, x.last, x.doc, S \ G, R)
    BY ONLY <1>13, <1>18, <1>20, <1>21, <1>22, ErasedFits
  <1>24. Forest(x, S \ G, R)
    BY ONLY <1>19, <1>23 DEF Forest
  <1>25. x = Cleared(PutAll(xmlUnlinkNode(t, n), "parent", Along(t, "next", t.children[n]), Nil), {n})
    BY <1>1, AlongIs
  <1>26. QED
    BY ONLY <1>1, <1>24, <1>25

LEMMA FinalizeDocumentForest ==
  ASSUME NEW t, NEW S, NEW R, Forest(t, S, R), NEW d \in Document
  PROVE  Forest(Cleared(t, Below(t, {d})), S \ Below(t, {d}), R)
  <1>1. PICK K, G, x : K = {d} /\ G = LowerBy(t.parent, K) /\ x = Cleared(t, G)
    OBVIOUS
  <1>2. t \in Trees /\ Fit(t.next, t.prev, t.parent, t.children, t.last, t.doc, S, R)
    BY DEF Forest
  <1>3. FitIs(t.next, t.prev, t.parent, t.children, t.last, t.doc, S, R) /\ Nil \notin Node /\ d \in Node
    BY <1>2, FitFacts, NodesCounted, NodeAssumption
  <1>4. Hangs(t.parent, K, G, S)
    BY <1>1, <1>2, <1>3, LowerIs
  <1>5. /\ G \in SUBSET Node
        /\ \A x1 \in Node : x1 \in G <=> x1 = d \/ (t.parent[x1] # Nil /\ t.parent[x1] \in G)
    BY ONLY <1>1, <1>4 DEF Hangs
  <1>6. t.next[d] = Nil /\ t.prev[d] = Nil /\ t.parent[d] = Nil
    BY ONLY <1>3, d \in Document DEF FitIs
  <1>7. Apart(t.next, t.prev, t.parent, t.children, t.last, G)
    <2>1. ASSUME NEW y \in Node \ G
          PROVE  t.next[y] \notin G /\ t.prev[y] \notin G /\ t.parent[y] \notin G /\ t.children[y] \notin G /\ t.last[y] \notin G
      <3>1. y \in Node
        OBVIOUS
      <3>2. /\ t.next[y] # Nil => t.next[y] \in Node /\ t.prev[t.next[y]] = y /\ t.parent[t.next[y]] = t.parent[y]
            /\ t.prev[y] # Nil => t.prev[y] \in Node /\ t.next[t.prev[y]] = y /\ t.parent[t.prev[y]] = t.parent[y]
            /\ t.parent[y] # Nil => t.parent[y] \in Node
            /\ t.children[y] # Nil => t.children[y] \in Node /\ t.parent[t.children[y]] = y
            /\ t.last[y] # Nil => t.last[y] \in Node /\ t.parent[t.last[y]] = y
        BY ONLY <1>3, <3>1 DEF FitIs
      <3>3. Nil \notin G
        BY <1>3, <1>5
      <3>4. QED
        BY ONLY <1>3, <1>5, <1>6, <3>1, <3>2, <3>3, y \notin G
    <2>2. QED
      BY <2>1 DEF Apart
  <1>8. /\ x \in Trees
        /\ Erased(t.next, t.prev, t.parent, t.children, t.last, t.doc, G,
                  x.next, x.prev, x.parent, x.children, x.last, x.doc)
    BY <1>1, <1>2, ClearedIs
  <1>9. /\ x.next \in Pointers /\ x.prev \in Pointers /\ x.parent \in Pointers
        /\ x.children \in Pointers /\ x.last \in Pointers /\ x.doc \in Pointers
    BY <1>8, Dots
  <1>10. G \in SUBSET Node
    BY <1>5
  <1>11. Fit(x.next, x.prev, x.parent, x.children, x.last, x.doc, S \ G, R)
    BY ONLY <1>2, <1>7, <1>8, <1>9, <1>10, ErasedFits
  <1>12. G = Below(t, {d})
    BY <1>1, AlongIs
  <1>13. QED
    BY ONLY <1>1, <1>8, <1>11, <1>12 DEF Forest

LEMMA NearNodes ==
  ASSUME tree \in Trees
  PROVE  \A n \in Node : Near(n) \in SUBSET Node
  BY DEF Trees, Near

LEMMA TracedNodes ==
  ASSUME tree \in Trees
  PROVE  \A n \in Node : Traces(n) \in SUBSET Node
  <1> SUFFICES ASSUME NEW n \in Node PROVE Traces(n) \in SUBSET Node
    OBVIOUS
  <1>1. Walk(tree.next, tree.children[n]) \in SUBSET Node /\ Walk(tree.parent, tree.parent[n]) \in SUBSET Node
    BY Dots, WalkWithin
  <1>2. Along(tree, "next", tree.children[n]) \in SUBSET Node /\ Along(tree, "parent", tree.parent[n]) \in SUBSET Node
    BY <1>1, AlongIs
  <1>3. QED
    BY <1>2, Dots DEF Traces

\* What script comes by from S.
LEMMA NearLeads ==
  ASSUME tree \in Trees, NEW S \in SUBSET Node
  PROVE  \E G \in [Node -> SUBSET Node] :
           (\A n \in Node : G[n] = Near(n)) /\ Closes(Closure(S, Near), Node, S, G)
  <1>1. PICK n, G : n = Cardinality(Node) /\ G = [x \in Node |-> Near(x)]
    OBVIOUS
  <1>2. Counts(n, Node) /\ n \in Nat
    BY <1>1, NodesCounted
  <1>3. \A x \in Node : G[x] = Near(x) /\ G[x] \in SUBSET Node
    BY <1>1, NearNodes
  <1>4. G \in [Node -> SUBSET Node]
    BY <1>1, <1>3
  <1> DEFINE On(B) == B \cup UNION {Near(x) : x \in B}
             Widening(s) == s = [i \in 0 .. n |-> IF i = 0 THEN S ELSE On(s[i - 1])]
  <1>5. ASSUME NEW B \in SUBSET Node
        PROVE  \A y : y \in On(B) <=> y \in B \/ \E x \in B : y \in G[x]
    <2>1. PICK T : T = {Near(x) : x \in B}
      OBVIOUS
    <2>2. \A y : y \in UNION T <=> \E x \in B : y \in Near(x)
      <3>1. \A t : t \in T <=> \E x \in B : t = Near(x)
        BY <2>1
      <3>2. QED
        BY <3>1
    <2>3. \A x \in B : G[x] = Near(x)
      BY <1>3
    <2>4. On(B) = B \cup UNION T
      BY ONLY <2>1
    <2> HIDE DEF On
    <2>5. QED
      BY ONLY <2>2, <2>3, <2>4
  <1> HIDE DEF On
  <1>6. PICK f \in [0 .. n -> SUBSET Node] : Spreads(f, Node, S, G, n)
    BY <1>2, <1>4, SpreadExists
  <1>7. Widening(f)
    <2>1. ASSUME NEW i \in 0 .. n PROVE f[i] = IF i = 0 THEN S ELSE On(f[i - 1])
      <3>1. CASE i = 0
        BY <1>6, <3>1 DEF Spreads
      <3>2. CASE i # 0
        <4>1. i \in 1 .. n /\ i - 1 \in 0 .. n
          BY <1>2, <3>2
        <4>2. f[i - 1] \in SUBSET Node
          BY <1>6, <4>1
        <4>3. \A y : y \in f[i] <=> y \in f[i - 1] \/ \E x \in f[i - 1] : y \in G[x]
          BY <1>6, <4>1, <4>2 DEF Spreads
        <4>4. \A y : y \in f[i] <=> y \in On(f[i - 1])
          BY ONLY <1>5, <4>2, <4>3
        <4>5. f[i] = On(f[i - 1])
          BY ONLY <4>4
        <4>6. QED
          BY ONLY <3>2, <4>5
      <3>3. QED
        BY <3>1, <3>2
    <2>2. f = [i \in 0 .. n |-> f[i]]
      BY <1>6
    <2>3. QED
      BY ONLY <2>1, <2>2
  <1>8. PICK h : h = CHOOSE s : Widening(s)
    OBVIOUS
  <1>9. Widening(h)
    BY <1>7, <1>8
  <1>10. Spreads(h, Node, S, G, n)
    <2>1. h[0] = S
      BY <1>2, <1>9
    <2>2. ASSUME NEW i \in 1 .. n, h[i - 1] \in SUBSET Node
          PROVE  \A y : y \in h[i] <=> y \in h[i - 1] \/ \E x \in h[i - 1] : y \in G[x]
      <3>1. h[i] = On(h[i - 1])
        BY <1>2, <1>9, <2>2
      <3>2. QED
        BY <1>5, <2>2, <3>1
    <2>3. QED
      BY ONLY <2>1, <2>2 DEF Spreads
  <1>11. Closes(h[n], Node, S, G)
    BY <1>2, <1>4, <1>10, SpreadEnds
  <1>12. Closure(S, Near) = h[n]
    BY ONLY <1>1, <1>8 DEF Closure, On
  <1>13. QED
    BY <1>3, <1>4, <1>11, <1>12

\* What is marked from S.
LEMMA TracedLeads ==
  ASSUME tree \in Trees, NEW S \in SUBSET Node
  PROVE  \E G \in [Node -> SUBSET Node] :
           (\A n \in Node : G[n] = Traces(n)) /\ Closes(Closure(S, Traces), Node, S, G)
  <1>1. PICK n, G : n = Cardinality(Node) /\ G = [x \in Node |-> Traces(x)]
    OBVIOUS
  <1>2. Counts(n, Node) /\ n \in Nat
    BY <1>1, NodesCounted
  <1>3. \A x \in Node : G[x] = Traces(x) /\ G[x] \in SUBSET Node
    BY <1>1, TracedNodes
  <1>4. G \in [Node -> SUBSET Node]
    BY <1>1, <1>3
  <1> DEFINE On(B) == B \cup UNION {Traces(x) : x \in B}
             Widening(s) == s = [i \in 0 .. n |-> IF i = 0 THEN S ELSE On(s[i - 1])]
  <1>5. ASSUME NEW B \in SUBSET Node
        PROVE  \A y : y \in On(B) <=> y \in B \/ \E x \in B : y \in G[x]
    <2>1. PICK T : T = {Traces(x) : x \in B}
      OBVIOUS
    <2>2. \A y : y \in UNION T <=> \E x \in B : y \in Traces(x)
      <3>1. \A t : t \in T <=> \E x \in B : t = Traces(x)
        BY <2>1
      <3>2. QED
        BY <3>1
    <2>3. \A x \in B : G[x] = Traces(x)
      BY <1>3
    <2>4. On(B) = B \cup UNION T
      BY ONLY <2>1
    <2> HIDE DEF On
    <2>5. QED
      BY ONLY <2>2, <2>3, <2>4
  <1> HIDE DEF On
  <1>6. PICK f \in [0 .. n -> SUBSET Node] : Spreads(f, Node, S, G, n)
    BY <1>2, <1>4, SpreadExists
  <1>7. Widening(f)
    <2>1. ASSUME NEW i \in 0 .. n PROVE f[i] = IF i = 0 THEN S ELSE On(f[i - 1])
      <3>1. CASE i = 0
        BY <1>6, <3>1 DEF Spreads
      <3>2. CASE i # 0
        <4>1. i \in 1 .. n /\ i - 1 \in 0 .. n
          BY <1>2, <3>2
        <4>2. f[i - 1] \in SUBSET Node
          BY <1>6, <4>1
        <4>3. \A y : y \in f[i] <=> y \in f[i - 1] \/ \E x \in f[i - 1] : y \in G[x]
          BY <1>6, <4>1, <4>2 DEF Spreads
        <4>4. \A y : y \in f[i] <=> y \in On(f[i - 1])
          BY ONLY <1>5, <4>2, <4>3
        <4>5. f[i] = On(f[i - 1])
          BY ONLY <4>4
        <4>6. QED
          BY ONLY <3>2, <4>5
      <3>3. QED
        BY <3>1, <3>2
    <2>2. f = [i \in 0 .. n |-> f[i]]
      BY <1>6
    <2>3. QED
      BY ONLY <2>1, <2>2
  <1>8. PICK h : h = CHOOSE s : Widening(s)
    OBVIOUS
  <1>9. Widening(h)
    BY <1>7, <1>8
  <1>10. Spreads(h, Node, S, G, n)
    <2>1. h[0] = S
      BY <1>2, <1>9
    <2>2. ASSUME NEW i \in 1 .. n, h[i - 1] \in SUBSET Node
          PROVE  \A y : y \in h[i] <=> y \in h[i - 1] \/ \E x \in h[i - 1] : y \in G[x]
      <3>1. h[i] = On(h[i - 1])
        BY <1>2, <1>9, <2>2
      <3>2. QED
        BY <1>5, <2>2, <3>1
    <2>3. QED
      BY ONLY <2>1, <2>2 DEF Spreads
  <1>11. Closes(h[n], Node, S, G)
    BY <1>2, <1>4, <1>10, SpreadEnds
  <1>12. Closure(S, Traces) = h[n]
    BY ONLY <1>1, <1>8 DEF Closure, On
  <1>13. QED
    BY <1>3, <1>4, <1>11, <1>12

\* Every setter leaves a tree, whatever it is called with.
LEMMA SettersTrees ==
  ASSUME NEW t \in Trees, NEW n \in Node, NEW m \in Node
  PROVE  /\ xmlUnlinkNode(t, n) \in Trees /\ SetParent(t, n, m) \in Trees /\ ClearParent(t, n) \in Trees
         /\ SetNext(t, n, m) \in Trees /\ SetPrev(t, n, m) \in Trees /\ ClearNext(t, n) \in Trees
         /\ ClearPrev(t, n) \in Trees /\ SetFirstChild(t, n, m) \in Trees /\ ClearFirstChild(t, n) \in Trees
         /\ xmlDocSetRootElement(t, n, m) \in Trees
  <1>1. xmlUnlinkNode(t, n) \in Trees
    BY UnlinkIs
  <1>2. SetParent(t, n, m) \in Trees
    BY SetParentIs DEF ParentSet
  <1>3. ClearParent(t, n) \in Trees
    <2>1. CASE t.parent[n] = Nil
      BY <2>1 DEF ClearParent
    <2>2. CASE t.parent[n] # Nil
      BY <2>2, ClearParentIs DEF ParentCleared
    <2>3. QED
      BY <2>1, <2>2
  <1>4. SetNext(t, n, m) \in Trees
    BY SetNextIs DEF NextSet
  <1>5. SetPrev(t, n, m) \in Trees
    BY SetPrevIs DEF PrevSet
  <1>6. ClearNext(t, n) \in Trees
    BY ClearNextIs
  <1>7. ClearPrev(t, n) \in Trees
    BY ClearPrevIs
  <1>8. SetFirstChild(t, n, m) \in Trees
    BY SetFirstChildIs DEF FirstChildSet
  <1>9. ClearFirstChild(t, n) \in Trees
    BY ClearFirstChildIs DEF FirstChildCleared
  <1>10. xmlDocSetRootElement(t, n, m) \in Trees
    BY SetRootIs
  <1>11. QED
    BY <1>1, <1>2, <1>3, <1>4, <1>5, <1>6, <1>7, <1>8, <1>9, <1>10

LEMMA AddersTrees ==
  ASSUME NEW t \in Trees, NEW n \in Node, NEW p \in Node
  PROVE  add_child_list(t, p, n) \in Trees /\ add_child(t, p, n) \in Trees
  <1>1. ASSUME NEW u \in Trees PROVE add_child_list(u, p, n) \in Trees
    <2>1. SetParent(u, n, p) \in Trees
      BY SettersTrees
    <2>2. QED
      BY <2>1, PurgeTree DEF add_child_list
  <1>2. QED
    BY <1>1, SettersTrees DEF add_child

-----------------------------------------------------------------------------
(* The inductive invariant of XmlTree. *)

Live == exists \ garbage

\* From what no finalizer waits for, no pointer leads to what one does.
Sheltered(t, L) ==
  \A n \in L :
    /\ t.parent[n] \in L \cup {Nil} /\ t.prev[n] \in L \cup {Nil} /\ t.next[n] \in L \cup {Nil}
    /\ t.children[n] \in L \cup {Nil} /\ t.last[n] \in L \cup {Nil} /\ t.doc[n] \in L \cup {Nil}

TreeInv ==
  /\ TreeTypeOK
  /\ careful => Forest(tree, exists, Node) /\ Sheltered(tree, Live) /\ refs \subseteq Live

LEMMA WiderForest ==
  ASSUME NEW t, NEW S \in SUBSET Node, Forest(t, S, S)
  PROVE  Forest(t, S, Node) /\ Sheltered(t, S)
  <1>1. FitIs(t.next, t.prev, t.parent, t.children, t.last, t.doc, S, S)
    BY FitFacts DEF Forest
  <1>2. Sheltered(t, S)
    BY ONLY <1>1, S \in SUBSET Node DEF FitIs, Sheltered
  <1>3. Within(t.next, t.prev, t.parent, t.children, t.last, t.doc, S, Node)
    BY DEF Forest, Fit, Within
  <1>4. QED
    BY <1>2, <1>3 DEF Forest, Fit

LEMMA ScriptForest ==
  ASSUME TreeInv, Script
  PROVE  /\ Forest(tree, exists, exists) /\ tree \in Trees /\ garbage = {} /\ careful = TRUE
         /\ exists \in SUBSET Node /\ refs \subseteq exists
  <1>1. /\ Forest(tree, exists, Node) /\ Sheltered(tree, exists) /\ garbage = {}
        /\ exists \in SUBSET Node /\ refs \subseteq exists /\ careful = TRUE
    BY DEF TreeInv, Script, Live, TreeTypeOK
  <1>2. Within(tree.next, tree.prev, tree.parent, tree.children, tree.last, tree.doc, exists, Node)
    BY <1>1 DEF Forest, Fit
  <1>3. Within(tree.next, tree.prev, tree.parent, tree.children, tree.last, tree.doc, exists, exists)
    BY <1>1, <1>2 DEF Within, Sheltered
  <1>4. QED
    BY <1>1, <1>3 DEF Forest, Fit

LEMMA ForestKept ==
  ASSUME exists' \in SUBSET Node, refs' \subseteq exists', garbage' = {}, careful' = TRUE,
         Forest(tree', exists', exists')
  PROVE  TreeInv'
  <1>1. Forest(tree', exists', Node) /\ Sheltered(tree', exists')
    BY WiderForest
  <1>2. TreeTypeOK'
    BY DEF TreeTypeOK, Forest, Trees
  <1>3. Live' = exists'
    BY DEF Live
  <1>4. QED
    BY <1>1, <1>2, <1>3 DEF TreeInv

\* What script can get at is there, and is not about to be finalized.
LEMMA ReachableLive ==
  ASSUME TreeInv, careful
  PROVE  Reachable \subseteq Live
  <1>1. tree \in Trees /\ refs \in SUBSET Node /\ refs \subseteq Live /\ Live \in SUBSET Node /\ Sheltered(tree, Live)
    BY DEF TreeInv, TreeTypeOK, Forest, Live
  <1>2. PICK G \in [Node -> SUBSET Node] :
          (\A n \in Node : G[n] = Near(n)) /\ Closes(Closure(refs, Near), Node, refs, G)
    BY <1>1, NearLeads
  <1>3. \A n \in Live : Near(n) \subseteq Live
    BY <1>1 DEF Near, Sheltered, Pointer
  <1>4. \A n \in Live : G[n] \subseteq Live
    BY <1>1, <1>2, <1>3
  <1>5. PICK L, K : L = Live /\ K = Closure(refs, Near)
    OBVIOUS
  <1>6. K \subseteq L
    BY <1>1, <1>2, <1>4, <1>5 DEF Closes
  <1>7. QED
    BY <1>5, <1>6 DEF Reachable

LEMMA ComesForest ==
  ASSUME TreeInv, Script, NEW S \in SUBSET Node, NEW H \in SUBSET S, Comes(S, H),
         Forest(tree', exists \cup S, exists \cup S)
  PROVE  TreeInv'
  <1>1. /\ exists' = exists \cup S /\ refs' = refs \cup H /\ garbage' = garbage /\ careful' = careful
    BY DEF Comes
  <1>2. exists \in SUBSET Node /\ refs \subseteq exists /\ garbage = {} /\ careful = TRUE
    BY ScriptForest
  <1>3. exists' \in SUBSET Node /\ refs' \subseteq exists' /\ garbage' = {} /\ careful' = TRUE
    BY <1>1, <1>2
  <1>4. Forest(tree', exists', exists')
    BY <1>1
  <1>5. QED
    BY <1>3, <1>4, ForestKept

LEMMA NewDocumentKeeps ==
  ASSUME TreeInv, NEW d \in Node, NewDocument(d)
  PROVE  TreeInv'
  <1>1. /\ Script /\ d \in Document /\ tree' = Made(d, d) /\ Comes({d}, {d}) /\ d \notin exists
    BY DEF NewDocument, New, Comes
  <1>2. Forest(tree', exists \cup {d}, exists \cup {d})
    BY <1>1, ScriptForest, MadeForest
  <1>3. {d} \in SUBSET Node /\ {d} \in SUBSET {d}
    OBVIOUS
  <1>4. QED
    BY <1>1, <1>2, <1>3, ComesForest

LEMMA OutsideKeeps ==
  ASSUME TreeInv, NEW n \in Node \ Document, Outside(n)
  PROVE  TreeInv'
  <1>1. Script /\ Comes({n}, {n}) /\ n \notin exists
    BY DEF Outside, New, Comes
  <1>2. PICK d \in (Reachable \cap Document) \cup {Nil} : tree' = Made(n, d)
    BY DEF Outside
  <1>3. d \in exists \cup {n, Nil} /\ n \in Node /\ (n \in Document => d = n)
    BY <1>1, ReachableLive, ScriptForest DEF Live
  <1>4. Forest(tree', exists \cup {n}, exists \cup {n})
    BY <1>1, <1>2, <1>3, ScriptForest, MadeForest
  <1>5. {n} \in SUBSET Node /\ {n} \in SUBSET {n}
    OBVIOUS
  <1>6. QED
    BY <1>1, <1>4, <1>5, ComesForest

LEMMA CopyKeeps ==
  ASSUME TreeInv, NEW n \in Reachable, NEW deep \in BOOLEAN, Copy(n, deep)
  PROVE  TreeInv'
  <1>1. PICK S : S = IF deep THEN Below(tree, {n}) ELSE {n}
    OBVIOUS
  <1> DEFINE alike(m) == {c \in Node \ exists : \A T \in {Document, Text} : c \in T <=> m \in T}
             copies == {f \in [S -> UNION {alike(m) : m \in S}] : \A m \in S : f[m] \in alike(m)}
  <1>2. /\ Script
        /\ \E copy \in copies :
             /\ \A m, o \in S : copy[m] = copy[o] => m = o
             /\ tree' = Copied(n, S, copy)
             /\ Comes({copy[m] : m \in S}, {copy[n]})
    BY ONLY <1>1, Copy(n, deep) DEF Copy
  <1>3. PICK copy \in copies :
          /\ \A m, o \in S : copy[m] = copy[o] => m = o
          /\ tree' = Copied(n, S, copy)
          /\ Comes({copy[m] : m \in S}, {copy[n]})
    BY ONLY <1>2
  <1>4. \A m \in S : copy[m] \in Node /\ copy[m] \notin exists /\ (copy[m] \in Document <=> m \in Document)
    OBVIOUS
  <1>5. copy \in [S -> Node]
    <2>1. \E R : copy \in [S -> R]
      OBVIOUS
    <2>2. QED
      BY <1>4, <2>1
  <1> HIDE DEF copies
  <1>6. PICK I : I = {copy[m] : m \in S}
    OBVIOUS
  <1>7. n \in exists /\ n \in Node
    BY <1>2, ReachableLive, ScriptForest DEF Live
  <1>8. S = {n} \/ S = Below(tree, {n})
    BY <1>1
  <1>9. Forest(tree', exists \cup I, exists \cup I)
    <2>1. Forest(tree, exists, exists) /\ exists \in SUBSET Node
      BY <1>2, ScriptForest
    <2>2. \A m \in S : copy[m] \notin exists /\ (copy[m] \in Document <=> m \in Document)
      BY <1>4
    <2>3. Forest(Copied(n, S, copy), exists \cup I, exists \cup I)
      BY ONLY <1>3, <1>5, <1>6, <1>7, <1>8, <2>1, <2>2, CopyForest
    <2>4. QED
      BY <1>3, <2>3
  <1>10. n \in S
    <2>1. tree \in Trees
      BY <1>2, ScriptForest
    <2>2. n \in Walk(tree.parent, n)
      BY <1>7, <2>1, Dots, WalkWithin, NodesCounted
    <2>3. n \in Below(tree, {n})
      BY <1>7, <2>2, AlongIs DEF Below
    <2>4. QED
      BY <1>8, <2>3
  <1>11. I \in SUBSET Node /\ {copy[n]} \in SUBSET I /\ Comes(I, {copy[n]})
    BY <1>3, <1>4, <1>6, <1>10
  <1>12. QED
    BY <1>2, <1>9, <1>11, ComesForest

LEMMA AddsKeep ==
  ASSUME TreeInv, NEW p \in Reachable, NEW n \in Node, AddNode(p, n) \/ AddText(p, n)
  PROVE  TreeInv'
  <1>1. Script
    BY DEF AddNode, AddText
  <1>2. p \in exists /\ Forest(tree, exists, exists) /\ exists \in SUBSET Node
    BY <1>1, ReachableLive, ScriptForest DEF Live
  <1>3. {n} \in SUBSET Node /\ {n} \in SUBSET {n} /\ {} \in SUBSET {n}
    OBVIOUS
  <1>4. CASE AddNode(p, n)
    <2>1. n \in Element /\ n \notin exists /\ tree' = SetParent(Made(n, tree.doc[p]), n, p) /\ Comes({n}, {n})
      BY <1>4 DEF AddNode, New
    <2>2. Forest(tree', exists \cup {n}, exists \cup {n})
      BY <1>2, <2>1, AddNodeForest
    <2>3. QED
      BY <1>1, <1>3, <2>1, <2>2, ComesForest
  <1>5. CASE AddText(p, n)
    <2>1. n \in Text /\ n \notin exists /\ tree' = Appending(Made(n, tree.doc[p]), p, n) /\ Comes({n}, {})
      BY <1>5 DEF AddText, Comes
    <2>2. Forest(tree', exists \cup {n}, exists \cup {n})
      BY <1>2, <2>1, AddTextForest
    <2>3. QED
      BY <1>1, <1>3, <2>1, <2>2, ComesForest
  <1>6. QED
    BY <1>4, <1>5

LEMMA AssignContentKeeps ==
  ASSUME TreeInv, NEW p \in Reachable, NEW n \in Node, AssignContent(p, n)
  PROVE  TreeInv'
  <1>1. CASE AddText(p, n)
    BY <1>1, AddsKeep
  <1>2. ASSUME NEW t, NEW G, t = [tree EXCEPT !.children[p] = Nil, !.last[p] = Nil],
               Script, p \in Element, Freed(t, G), careful' = FALSE, refs' = refs, garbage' = garbage
        PROVE  TreeInv'
    <2>1. tree \in Trees /\ p \in Node /\ exists \in SUBSET Node /\ refs \in SUBSET Node /\ garbage = {}
      BY <1>2, ScriptForest DEF Element
    <2>2. Beheaded(t, tree, p)
      BY <1>2, <2>1, Beheads
    <2>3. Cleared(t, G) \in Trees
      BY <2>2, ClearedIs DEF Beheaded
    <2>4. QED
      BY <1>2, <2>1, <2>3 DEF Freed, TreeInv, TreeTypeOK, Trees
  <1>3. QED
    BY <1>1, <1>2 DEF AssignContent

\* The facts of a call.
Calls(safe, t) ==
  /\ Script /\ tree' = t /\ t \in Trees /\ careful' \in BOOLEAN /\ (careful' <=> safe)
  /\ UNCHANGED <<exists, refs, garbage>>

LEMMA CallsKeep ==
  ASSUME TreeInv, NEW t, NEW safe, Calls(safe, t), safe => Forest(t, exists, exists)
  PROVE  TreeInv'
  <1>1. /\ Script /\ tree' = t /\ t \in Trees /\ careful' \in BOOLEAN /\ (careful' <=> safe)
        /\ exists' = exists /\ refs' = refs /\ garbage' = garbage
    BY DEF Calls
  <1>2. exists \in SUBSET Node /\ refs \subseteq exists /\ garbage = {}
    BY <1>1, ScriptForest
  <1>3. CASE careful'
    BY <1>1, <1>2, <1>3, ForestKept
  <1>4. CASE ~careful'
    BY <1>1, <1>2, <1>4 DEF TreeInv, TreeTypeOK, Trees
  <1>5. QED
    BY <1>3, <1>4

LEMMA UnlinkKeeps ==
  ASSUME TreeInv, NEW n \in Reachable, Unlink(n)
  PROVE  TreeInv'
  <1>1. Script /\ n \in Node
    BY ReachableLive, ScriptForest DEF Unlink, Call, Live, Script
  <1>2. Forest(tree, exists, exists) /\ tree \in Trees
    BY <1>1, ScriptForest
  <1>3. Calls(TRUE, xmlUnlinkNode(tree, n))
    BY <1>1, <1>2, SettersTrees DEF Unlink, Call, Calls
  <1>4. Forest(xmlUnlinkNode(tree, n), exists, exists)
    BY <1>1, <1>2, UnlinkForest
  <1>5. QED
    BY <1>3, <1>4, CallsKeep

LEMMA PurgeKeeps ==
  ASSUME TreeInv, NEW p \in Reachable, Purge(p)
  PROVE  TreeInv'
  <1>1. Script
    BY DEF Purge, Call
  <1>2. Forest(tree, exists, exists) /\ tree \in Trees
    BY <1>1, ScriptForest
  <1>3. Calls(TRUE, purge(tree, p))
    BY <1>1, <1>2, PurgeTree DEF Purge, Call, Calls
  <1>4. Forest(purge(tree, p), exists, exists)
    BY <1>2, PurgeForest
  <1>5. QED
    BY <1>3, <1>4, CallsKeep

LEMMA AddChildKeeps ==
  ASSUME TreeInv, NEW p \in Reachable, NEW n \in Reachable \ Document, AddChild(p, n)
  PROVE  TreeInv'
  <1>1. Script /\ n \in Node /\ p \in Node /\ n \in exists \ Document /\ p \in exists
    BY ReachableLive, ScriptForest DEF AddChild, Call, Live, Script
  <1>2. Forest(tree, exists, exists) /\ tree \in Trees
    BY <1>1, ScriptForest
  <1>3. Calls(p \notin Below(tree, {n}), add_child(tree, p, n))
    BY <1>1, <1>2, AddersTrees DEF AddChild, Call, Calls
  <1>4. ASSUME p \notin Below(tree, {n}) PROVE Forest(add_child(tree, p, n), exists, exists)
    <2>1. Forest(SetParent(xmlUnlinkNode(tree, n), n, p), exists, exists)
      BY <1>1, <1>2, <1>4, AddChildForest
    <2>2. QED
      BY <2>1, PurgeForest DEF add_child, add_child_list
  <1>5. QED
    BY <1>3, <1>4, CallsKeep

LEMMA AddChildListKeeps ==
  ASSUME TreeInv, NEW p \in Reachable, NEW n \in Reachable \ Document, AddChildList(p, n)
  PROVE  TreeInv'
  <1>1. Script /\ n \in Node /\ p \in Node /\ n \in exists \ Document /\ p \in exists
    BY ReachableLive, ScriptForest DEF AddChildList, Call, Live, Script
  <1>2. Forest(tree, exists, exists) /\ tree \in Trees
    BY <1>1, ScriptForest
  <1>3. Calls(SetParentSafe(tree, n, p), add_child_list(tree, p, n))
    BY <1>1, <1>2, AddersTrees DEF AddChildList, Call, Calls, SetParentSafe
  <1>4. ASSUME SetParentSafe(tree, n, p) PROVE Forest(add_child_list(tree, p, n), exists, exists)
    <2>1. Forest(SetParent(tree, n, p), exists, exists)
      BY <1>1, <1>2, <1>4, SetParentForest
    <2>2. QED
      BY <2>1, PurgeForest DEF add_child_list
  <1>5. QED
    BY <1>3, <1>4, CallsKeep

LEMMA AssignParentKeeps ==
  ASSUME TreeInv, NEW n \in Reachable \ Document, AssignParent(n)
  PROVE  TreeInv'
  <1>1. Script
    BY DEF AssignParent, Call
  <1>2. Forest(tree, exists, exists) /\ tree \in Trees /\ n \in Node /\ n \in exists \ Document
        /\ Reachable \subseteq exists /\ exists \in SUBSET Node
    BY <1>1, ReachableLive, ScriptForest DEF Live
  <1>3. CASE \E p \in Reachable : Call(SetParentSafe(tree, n, p), SetParent(tree, n, p))
    <2>1. PICK p \in Reachable : Call(SetParentSafe(tree, n, p), SetParent(tree, n, p))
      BY <1>3
    <2>2. p \in Node /\ p \in exists
      BY <1>2
    <2>3. Calls(SetParentSafe(tree, n, p), SetParent(tree, n, p))
      BY <1>2, <2>1, <2>2, SettersTrees DEF Call, Calls, SetParentSafe
    <2>4. ASSUME SetParentSafe(tree, n, p) PROVE Forest(SetParent(tree, n, p), exists, exists)
      BY <1>2, <2>2, <2>4, SetParentForest
    <2>5. QED
      BY <2>3, <2>4, CallsKeep
  <1>4. CASE Call(ClearParentSafe(tree, n), ClearParent(tree, n))
    <2>1. Calls(ClearParentSafe(tree, n), ClearParent(tree, n))
      BY <1>2, <1>4, SettersTrees DEF Call, Calls, ClearParentSafe
    <2>2. ASSUME ClearParentSafe(tree, n) PROVE Forest(ClearParent(tree, n), exists, exists)
      BY <1>2, <2>2, ClearParentForest
    <2>3. QED
      BY <2>1, <2>2, CallsKeep
  <1>5. QED
    BY <1>3, <1>4 DEF AssignParent

LEMMA AssignNextKeeps ==
  ASSUME TreeInv, NEW n \in Reachable \ Document, AssignNext(n)
  PROVE  TreeInv'
  <1>1. Script
    BY DEF AssignNext, Call
  <1>2. Forest(tree, exists, exists) /\ tree \in Trees /\ n \in Node /\ n \in exists \ Document
        /\ Reachable \subseteq exists /\ exists \in SUBSET Node
    BY <1>1, ReachableLive, ScriptForest DEF Live
  <1>3. CASE \E m \in Reachable \ Document : Call(SetNextSafe(tree, n, m), SetNext(tree, n, m))
    <2>1. PICK m \in Reachable \ Document : Call(SetNextSafe(tree, n, m), SetNext(tree, n, m))
      BY <1>3
    <2>2. m \in Node /\ m \in exists \ Document
      BY <1>2
    <2>3. Calls(SetNextSafe(tree, n, m), SetNext(tree, n, m))
      BY <1>2, <2>1, <2>2, SettersTrees DEF Call, Calls, SetNextSafe
    <2>4. ASSUME SetNextSafe(tree, n, m) PROVE Forest(SetNext(tree, n, m), exists, exists)
      BY <1>2, <2>2, <2>4, SetNextForest
    <2>5. QED
      BY <2>3, <2>4, CallsKeep
  <1>4. CASE Call(tree.next[n] = Nil, ClearNext(tree, n))
    <2>1. Calls(tree.next[n] = Nil, ClearNext(tree, n))
      BY <1>2, <1>4, SettersTrees DEF Call, Calls
    <2>2. ASSUME tree.next[n] = Nil PROVE Forest(ClearNext(tree, n), exists, exists)
      BY <1>2, <2>2, ClearNextForest
    <2>3. QED
      BY <2>1, <2>2, CallsKeep
  <1>5. QED
    BY <1>3, <1>4 DEF AssignNext

LEMMA AssignPrevKeeps ==
  ASSUME TreeInv, NEW n \in Reachable \ Document, AssignPrev(n)
  PROVE  TreeInv'
  <1>1. Script
    BY DEF AssignPrev, Call
  <1>2. Forest(tree, exists, exists) /\ tree \in Trees /\ n \in Node /\ n \in exists \ Document
        /\ Reachable \subseteq exists /\ exists \in SUBSET Node
    BY <1>1, ReachableLive, ScriptForest DEF Live
  <1>3. CASE \E m \in Reachable \ Document : Call(SetPrevSafe(tree, n, m), SetPrev(tree, n, m))
    <2>1. PICK m \in Reachable \ Document : Call(SetPrevSafe(tree, n, m), SetPrev(tree, n, m))
      BY <1>3
    <2>2. m \in Node /\ m \in exists \ Document
      BY <1>2
    <2>3. Calls(SetPrevSafe(tree, n, m), SetPrev(tree, n, m))
      BY <1>2, <2>1, <2>2, SettersTrees DEF Call, Calls, SetPrevSafe
    <2>4. ASSUME SetPrevSafe(tree, n, m) PROVE Forest(SetPrev(tree, n, m), exists, exists)
      BY <1>2, <2>2, <2>4, SetPrevForest
    <2>5. QED
      BY <2>3, <2>4, CallsKeep
  <1>4. CASE Call(tree.prev[n] = Nil, ClearPrev(tree, n))
    <2>1. Calls(tree.prev[n] = Nil, ClearPrev(tree, n))
      BY <1>2, <1>4, SettersTrees DEF Call, Calls
    <2>2. ASSUME tree.prev[n] = Nil PROVE Forest(ClearPrev(tree, n), exists, exists)
      BY <1>2, <2>2, ClearPrevForest
    <2>3. QED
      BY <2>1, <2>2, CallsKeep
  <1>5. QED
    BY <1>3, <1>4 DEF AssignPrev

LEMMA AssignFirstChildKeeps ==
  ASSUME TreeInv, NEW p \in Reachable, AssignFirstChild(p)
  PROVE  TreeInv'
  <1>1. Script
    BY DEF AssignFirstChild, Call
  <1>2. Forest(tree, exists, exists) /\ tree \in Trees /\ p \in Node /\ p \in exists
        /\ Reachable \subseteq exists /\ exists \in SUBSET Node
    BY <1>1, ReachableLive, ScriptForest DEF Live
  <1>3. CASE \E m \in Reachable \ Document : Call(SetFirstChildSafe(tree, p, m), SetFirstChild(tree, p, m))
    <2>1. PICK m \in Reachable \ Document : Call(SetFirstChildSafe(tree, p, m), SetFirstChild(tree, p, m))
      BY <1>3
    <2>2. m \in Node /\ m \in exists \ Document
      BY <1>2
    <2>3. Calls(SetFirstChildSafe(tree, p, m), SetFirstChild(tree, p, m))
      BY <1>2, <2>1, <2>2, SettersTrees DEF Call, Calls, SetFirstChildSafe
    <2>4. ASSUME SetFirstChildSafe(tree, p, m) PROVE Forest(SetFirstChild(tree, p, m), exists, exists)
      BY <1>2, <2>2, <2>4, SetFirstChildForest
    <2>5. QED
      BY <2>3, <2>4, CallsKeep
  <1>4. CASE Call(TRUE, ClearFirstChild(tree, p))
    <2>1. Calls(TRUE, ClearFirstChild(tree, p))
      BY <1>2, <1>4, SettersTrees DEF Call, Calls
    <2>2. Forest(ClearFirstChild(tree, p), exists, exists)
      BY <1>2, ClearFirstChildForest
    <2>3. QED
      BY <2>1, <2>2, CallsKeep
  <1>5. QED
    BY <1>3, <1>4 DEF AssignFirstChild

LEMMA AssignRootKeeps ==
  ASSUME TreeInv, NEW d \in Reachable \cap Document, AssignRoot(d)
  PROVE  TreeInv'
  <1>1. Script
    BY DEF AssignRoot, Call
  <1>2. Forest(tree, exists, exists) /\ tree \in Trees /\ d \in Node /\ d \in exists /\ d \in Document
        /\ Reachable \subseteq exists /\ exists \in SUBSET Node
    BY <1>1, ReachableLive, ScriptForest DEF Live
  <1>3. CASE \E n \in Reachable \cap Element : Call(TRUE, xmlDocSetRootElement(tree, d, n))
    <2>1. PICK n \in Reachable \cap Element : Call(TRUE, xmlDocSetRootElement(tree, d, n))
      BY <1>3
    <2>2. n \in Node /\ n \in exists \ Document
      BY <1>2 DEF Element
    <2>3. Calls(TRUE, xmlDocSetRootElement(tree, d, n))
      BY <1>2, <2>1, <2>2, SettersTrees DEF Call, Calls
    <2>4. Forest(xmlDocSetRootElement(tree, d, n), exists, exists)
      BY <1>2, <2>2, SetRootForest
    <2>5. QED
      BY <2>3, <2>4, CallsKeep
  <1>4. CASE Call(TRUE, IF Root(tree, d) = Nil THEN tree ELSE xmlUnlinkNode(tree, Root(tree, d)))
    <2>1. PICK r : r = Root(tree, d)
      OBVIOUS
    <2>2. r # Nil => r \in Node
      <3>1. PICK F : F = {n \in Along(tree, "next", tree.children[d]) \cap Element :
                            Along(tree, "prev", n) \cap (Along(tree, "next", tree.children[d]) \cap Element) = {n}}
        OBVIOUS
      <3>2. r = IF F = {} THEN Nil ELSE CHOOSE n \in F : TRUE
        BY <2>1, <3>1 DEF Root
      <3>3. F \subseteq Node
        BY <3>1 DEF Element
      <3>4. QED
        BY <3>2, <3>3
    <2>3. PICK t : t = IF r = Nil THEN tree ELSE xmlUnlinkNode(tree, r)
      OBVIOUS
    <2>4. Forest(t, exists, exists) /\ t \in Trees
      BY <1>2, <2>2, <2>3, SettersTrees, UnlinkForest
    <2>5. Calls(TRUE, t)
      BY <1>4, <2>1, <2>3, <2>4 DEF Call, Calls
    <2>6. QED
      BY <2>4, <2>5, CallsKeep
  <1>5. QED
    BY <1>3, <1>4 DEF AssignRoot

LEMMA HoldKeeps ==
  ASSUME TreeInv, NEW n \in Reachable, Hold(n)
  PROVE  TreeInv'
  <1>1. Script /\ refs' = refs \cup {n} /\ exists' = exists /\ garbage' = garbage /\ careful' = careful /\ tree' = tree
    BY DEF Hold
  <1>2. n \in exists
    BY <1>1, ReachableLive, ScriptForest DEF Live
  <1>3. QED
    BY <1>1, <1>2, ScriptForest, ForestKept

LEMMA DropWrapperKeeps ==
  ASSUME TreeInv, NEW n \in Node, DropWrapper(n)
  PROVE  TreeInv'
  <1>1. Script /\ refs' = refs \ {n} /\ exists' = exists /\ garbage' = garbage /\ careful' = careful /\ tree' = tree
    BY DEF DropWrapper
  <1>2. QED
    BY <1>1, ScriptForest, ForestKept

LEMMA CollectTreesKeeps ==
  ASSUME TreeInv, CollectTrees
  PROVE  TreeInv'
  <1>1. /\ Script /\ garbage' = exists \ MarkedNodes(refs)
        /\ tree' = tree /\ exists' = exists /\ refs' = refs /\ careful' = careful
    BY DEF CollectTrees
  <1>2. /\ Forest(tree, exists, exists) /\ tree \in Trees /\ careful = TRUE
        /\ exists \in SUBSET Node /\ refs \subseteq exists
    BY <1>1, ScriptForest
  <1>3. PICK G, M : /\ G \in [Node -> SUBSET Node] /\ M = Closure(refs, Traces)
                    /\ (\A n \in Node : G[n] = Traces(n)) /\ Closes(M, Node, refs, G)
    <2>1. refs \in SUBSET Node
      BY <1>2
    <2>2. QED
      BY <1>2, <2>1, TracedLeads
  <1>4. refs \subseteq M /\ M \in SUBSET Node /\ \A n \in M : Traces(n) \subseteq M
    <2>1. refs \subseteq M /\ M \in SUBSET Node /\ \A n \in M : G[n] \subseteq M
      BY ONLY <1>3 DEF Closes
    <2>2. \A n \in M : G[n] = Traces(n)
      BY <1>3, <2>1
    <2>3. QED
      BY ONLY <2>1, <2>2
  <1>5. FitIs(tree.next, tree.prev, tree.parent, tree.children, tree.last, tree.doc, exists, exists) /\ Nil \notin Node
    BY <1>2, FitFacts, NodesCounted DEF Forest
  <1>6. PICK L : L = exists \cap M
    OBVIOUS
  <1>7. ASSUME NEW n \in L
        PROVE  /\ tree.parent[n] \in L \cup {Nil} /\ tree.prev[n] \in L \cup {Nil} /\ tree.next[n] \in L \cup {Nil}
               /\ tree.children[n] \in L \cup {Nil} /\ tree.last[n] \in L \cup {Nil} /\ tree.doc[n] \in L \cup {Nil}
    <2>1. n \in Node /\ Traces(n) \subseteq M
      BY <1>4, <1>6
    <2>2. /\ tree.parent[n] \in exists \cup {Nil} /\ tree.prev[n] \in exists \cup {Nil} /\ tree.next[n] \in exists \cup {Nil}
          /\ tree.children[n] \in exists \cup {Nil} /\ tree.last[n] \in exists \cup {Nil} /\ tree.doc[n] \in exists \cup {Nil}
      BY ONLY <1>5, <2>1 DEF FitIs
    <2>3. tree.next[n] \in M \cup {Nil} /\ tree.prev[n] \in M \cup {Nil} /\ tree.doc[n] \in M \cup {Nil}
      BY <2>1 DEF Traces
    <2>4. Walk(tree.next, tree.children[n]) \subseteq M \cup {Nil} /\ Walk(tree.parent, tree.parent[n]) \subseteq M \cup {Nil}
      BY <2>1, AlongIs DEF Traces
    <2>5. tree.parent[n] # Nil => tree.parent[n] \in Walk(tree.parent, tree.parent[n])
      BY <1>2, <2>1, Dots, WalkWithin
    <2>6. tree.children[n] # Nil => tree.children[n] \in Walk(tree.next, tree.children[n])
      BY <1>2, <2>1, Dots, WalkWithin
    <2>7. tree.last[n] # Nil => tree.last[n] \in Walk(tree.next, tree.children[n])
      <3>1. Walk(tree.next, tree.children[n]) = {x \in Node : tree.parent[x] = n}
        BY <1>2, <2>1, ChildrenAre DEF Forest
      <3>2. tree.last[n] # Nil => tree.last[n] \in Node /\ tree.parent[tree.last[n]] = n
        BY ONLY <1>5, <2>1 DEF FitIs
      <3>3. QED
        BY <3>1, <3>2
    <2>8. QED
      BY ONLY <1>6, <2>2, <2>3, <2>4, <2>5, <2>6, <2>7
  <1>8. Live' = L
    BY <1>1, <1>3, <1>6 DEF Live, MarkedNodes
  <1>9. Sheltered(tree', L)
    BY <1>1, <1>7 DEF Sheltered
  <1>10. Forest(tree', exists', Node)
    BY <1>1, <1>2, WiderForest
  <1>11. TreeTypeOK'
    BY <1>1, <1>2 DEF TreeTypeOK, TreeInv
  <1>12. refs' \subseteq L
    BY <1>1, <1>2, <1>4, <1>6
  <1>13. careful' = TRUE
    BY <1>1, <1>2
  <1>14. QED
    BY <1>8, <1>9, <1>10, <1>11, <1>12, <1>13 DEF TreeInv

Finalized(x, t, n) ==
  x = Cleared(PutAll(xmlUnlinkNode(t, n), "parent", Along(t, "next", t.children[n]), Nil), {n})
Misses(t, y, n) ==
  t.next[y] # n /\ t.prev[y] # n /\ t.parent[y] # n /\ t.children[y] # n /\ t.last[y] # n
SameAt(x, t, y) ==
  /\ x.next[y] = t.next[y] /\ x.prev[y] = t.prev[y] /\ x.parent[y] \in {t.parent[y], Nil}
  /\ x.children[y] = t.children[y] /\ x.last[y] = t.last[y] /\ x.doc[y] = t.doc[y]

\* What the finalizer of n leaves of the pointers of other nodes, if none of
\* them leads to n.
LEMMA FinalizeNodeOthers ==
  ASSUME NEW t, NEW S, NEW R, Forest(t, S, R), NEW n \in Node,
         NEW x, Finalized(x, t, n), NEW y \in Node, y # n, Misses(t, y, n)
  PROVE  SameAt(x, t, y)
  <1>1. PICK w, L, u, G : /\ w = xmlUnlinkNode(t, n) /\ L = Along(t, "next", t.children[n])
                          /\ u = PutAll(w, "parent", L, Nil) /\ G = {n} /\ x = Cleared(u, G)
    BY DEF Finalized
  <1>10. t.next[y] # n /\ t.prev[y] # n /\ t.parent[y] # n /\ t.children[y] # n /\ t.last[y] # n
    BY DEF Misses
  <1>2. t \in Trees /\ FitIs(t.next, t.prev, t.parent, t.children, t.last, t.doc, S, R) /\ Nil \notin Node
    BY FitFacts, NodesCounted DEF Forest
  <1>3. /\ w \in Trees
        /\ Unlinks(t.next, t.prev, t.parent, t.children, t.last, t.doc, n,
                   w.next, w.prev, w.parent, w.children, w.last, w.doc)
    BY <1>1, <1>2, UnlinkIs
  <1>4. ParentPutAll(u, w, L, Nil)
    BY <1>1, <1>3, PutAllParent
  <1>5. Erased(u.next, u.prev, u.parent, u.children, u.last, u.doc, G, x.next, x.prev, x.parent, x.children, x.last, x.doc)
    BY <1>1, <1>4, ClearedIs DEF ParentPutAll
  <1>6. y \notin G
    BY <1>1
  <1>7. /\ x.next[y] = w.next[y] /\ x.prev[y] = w.prev[y] /\ x.parent[y] \in {w.parent[y], Nil}
        /\ x.children[y] = w.children[y] /\ x.last[y] = w.last[y] /\ x.doc[y] = w.doc[y]
    BY ONLY <1>4, <1>5, <1>6, y \in Node DEF Erased, ParentPutAll
  <1>8. y # t.prev[n] /\ y # t.next[n]
    BY ONLY <1>2, <1>10, y \in Node, n \in Node DEF FitIs
  <1>9. QED
    BY ONLY <1>3, <1>7, <1>8, <1>10, y \in Node, y # n DEF Unlinks, SameAt

LEMMA FinalizeNodeKeeps ==
  ASSUME TreeInv, NEW n \in Node, FinalizeNode(n)
  PROVE  TreeInv'
  <1>1. /\ careful /\ n \in garbage \ Document /\ garbage' = garbage \ {n} /\ refs' = refs
        /\ n \notin exists => tree' = tree /\ exists' = exists
        /\ n \in exists =>
             /\ tree' = Cleared(PutAll(xmlUnlinkNode(tree, n), "parent", Along(tree, "next", tree.children[n]), Nil), {n})
             /\ exists' = exists \ {n}
    BY DEF FinalizeNode, Freed
  <1>6. careful' \in BOOLEAN
    BY DEF FinalizeNode, LooksAtDocument, TreeInv, TreeTypeOK
  <1>2. /\ careful = TRUE /\ Forest(tree, exists, Node) /\ Sheltered(tree, Live) /\ refs \subseteq Live
        /\ TreeTypeOK /\ Nil \notin Node
    BY <1>1, NodesCounted DEF TreeInv, TreeTypeOK
  <1>3. CASE n \notin exists
    <2>1. Live' = Live
      BY <1>1, <1>3 DEF Live
    <2>2. QED
      BY <1>1, <1>2, <1>3, <1>6, <2>1 DEF TreeInv, TreeTypeOK
  <1>4. CASE n \in exists
    <2>1. PICK x : x = Cleared(PutAll(xmlUnlinkNode(tree, n), "parent", Along(tree, "next", tree.children[n]), Nil), {n})
      OBVIOUS
    <2>10. Finalized(x, tree, n)
      BY <2>1 DEF Finalized
    <2>2. tree' = x /\ exists' = exists \ {n}
      BY <1>1, <1>4, <2>1
    <2>3. Live' = Live /\ n \notin Live
      BY <1>1, <2>2 DEF Live
    <2>4. Forest(x, exists \ {n}, Node)
      BY <1>2, <2>1, FinalizeNodeForest
    <2>5. ASSUME NEW y \in Live
          PROVE  /\ x.parent[y] \in Live \cup {Nil} /\ x.prev[y] \in Live \cup {Nil} /\ x.next[y] \in Live \cup {Nil}
                 /\ x.children[y] \in Live \cup {Nil} /\ x.last[y] \in Live \cup {Nil} /\ x.doc[y] \in Live \cup {Nil}
      <3>1. /\ tree.parent[y] \in Live \cup {Nil} /\ tree.prev[y] \in Live \cup {Nil} /\ tree.next[y] \in Live \cup {Nil}
            /\ tree.children[y] \in Live \cup {Nil} /\ tree.last[y] \in Live \cup {Nil} /\ tree.doc[y] \in Live \cup {Nil}
        BY <1>2 DEF Sheltered
      <3>2. y \in Node /\ y # n /\ n # Nil
        BY <1>2, <2>3 DEF Live, TreeTypeOK
      <3>3. Misses(tree, y, n)
        BY <2>3, <3>1, <3>2 DEF Misses
      <3>4. SameAt(x, tree, y)
        BY ONLY <1>2, <2>10, <3>2, <3>3, n \in Node, FinalizeNodeOthers
      <3>5. QED
        BY ONLY <3>1, <3>4 DEF SameAt
    <2>6. Sheltered(tree', Live')
      BY <2>2, <2>3, <2>5 DEF Sheltered
    <2>7. TreeTypeOK'
      <3>1. tree' \in Trees
        BY <2>2, <2>4 DEF Forest
      <3>2. QED
        BY <1>1, <1>2, <1>6, <2>2, <2>3, <3>1 DEF TreeTypeOK, Trees, Live
    <2>8. Forest(tree', exists', Node)
      BY <2>2, <2>4
    <2>9. QED
      BY <1>1, <1>2, <2>3, <2>6, <2>7, <2>8 DEF TreeInv
  <1>5. QED
    BY <1>3, <1>4

LEMMA FinalizeDocumentKeeps ==
  ASSUME TreeInv, NEW d \in Node, FinalizeDocument(d)
  PROVE  TreeInv'
  <1>1. PICK G : G = Below(tree, {d})
    OBVIOUS
  <1>2. /\ careful /\ d \in garbage /\ d \in Document /\ garbage' = garbage \ {d} /\ refs' = refs /\ careful' = careful
        /\ tree' = Cleared(tree, G) /\ exists' = exists \ G
    BY <1>1 DEF FinalizeDocument, Freed
  <1>3. /\ careful = TRUE /\ Forest(tree, exists, Node) /\ Sheltered(tree, Live) /\ refs \subseteq Live
        /\ TreeTypeOK /\ Nil \notin Node /\ tree \in Trees
    BY <1>2, NodesCounted DEF TreeInv, TreeTypeOK, Trees
  <1>4. Live \in SUBSET Node /\ d \notin Live
    BY <1>2, <1>3 DEF Live, TreeTypeOK
  <1>5. d \in G /\ G \cap Live = {}
    <2>1. G = LowerBy(tree.parent, {d}) /\ tree.parent \in Pointers
      BY <1>1, <1>3, AlongIs, Dots
    <2>2. d \in Walk(tree.parent, d)
      BY <1>3, <2>1, WalkWithin
    <2>3. ASSUME NEW y \in Live PROVE d \notin Walk(tree.parent, y)
      <3>1. PICK C : C = Live
        OBVIOUS
      <3>2. \A b \in C : tree.parent[b] \in C \cup {Nil}
        BY <1>3, <3>1 DEF Sheltered
      <3>3. Walk(tree.parent, y) \subseteq C
        BY <1>4, <2>1, <3>1, <3>2, WalkWithin
      <3>4. QED
        BY <1>4, <3>1, <3>3
    <2>4. QED
      BY <2>1, <2>2, <2>3 DEF LowerBy
  <1>6. Live' = Live
    BY <1>2, <1>5 DEF Live
  <1>7. Forest(tree', exists', Node)
    BY <1>1, <1>2, <1>3, FinalizeDocumentForest
  <1>8. Sheltered(tree', Live')
    <2>1. PICK x : x = Cleared(tree, G)
      OBVIOUS
    <2>2. Erased(tree.next, tree.prev, tree.parent, tree.children, tree.last, tree.doc, G,
                 x.next, x.prev, x.parent, x.children, x.last, x.doc)
      BY <1>3, <2>1, ClearedIs
    <2>3. Sheltered(x, Live)
      BY ONLY <1>3, <1>4, <1>5, <2>2 DEF Sheltered, Erased
    <2>4. QED
      BY <1>2, <1>6, <2>1, <2>3
  <1>9. TreeTypeOK'
    <2>1. tree' \in Trees
      BY <1>7 DEF Forest
    <2>2. QED
      BY <1>2, <1>3, <1>6, <2>1 DEF TreeTypeOK, Trees, Live
  <1>10. QED
    BY <1>2, <1>3, <1>6, <1>7, <1>8, <1>9 DEF TreeInv

LEMMA TreeBegins ==
  ASSUME TreeInit
  PROVE  TreeInv
  <1>1. /\ tree = [p \in Pointer |-> [n \in Node |-> Nil]] /\ exists = {} /\ refs = {} /\ garbage = {} /\ careful = TRUE
    BY DEF TreeInit
  <1>2. tree \in Trees
    BY <1>1 DEF Trees
  <1>3. \A n \in Node : /\ tree.next[n] = Nil /\ tree.prev[n] = Nil /\ tree.parent[n] = Nil
                        /\ tree.children[n] = Nil /\ tree.last[n] = Nil /\ tree.doc[n] = Nil
    BY <1>1 DEF Pointer
  <1>4. ASSUME NEW r, \A n \in Node : r[n] = Nil PROVE Ranked(r)
    <2>1. PICK f : f = [n \in Node |-> 0]
      OBVIOUS
    <2>2. Numbers(f, r, 0)
      BY <1>4, <2>1 DEF Numbers
    <2>3. QED
      BY <2>2 DEF Ranked
  <1>5. Ranked(tree.next) /\ Ranked(tree.parent)
    <2>1. \A n \in Node : tree.next[n] = Nil
      BY <1>3
    <2>2. \A n \in Node : tree.parent[n] = Nil
      BY <1>3
    <2>3. QED
      BY ONLY <1>4, <2>1, <2>2
  <1>6. FitIs(tree.next, tree.prev, tree.parent, tree.children, tree.last, tree.doc, {}, {})
    BY ONLY <1>3, NodeAssumption DEF FitIs
  <1>7. Fit(tree.next, tree.prev, tree.parent, tree.children, tree.last, tree.doc, {}, {})
    BY <1>2, <1>5, <1>6, Dots, FitMade
  <1>8. Forest(tree, {}, {})
    BY <1>2, <1>7 DEF Forest
  <1>9. Forest(tree, {}, Node)
    BY <1>8, WiderForest
  <1>10. Sheltered(tree, Live) /\ refs \subseteq Live
    BY <1>1 DEF Sheltered, Live
  <1>11. QED
    BY <1>1, <1>2, <1>9, <1>10 DEF TreeInv, TreeTypeOK, Trees

LEMMA TreeKeeps ==
  ASSUME TreeInv, [TreeNext]_treeVars
  PROVE  TreeInv'
  <1>1. CASE UNCHANGED treeVars
    BY <1>1 DEF treeVars, TreeInv, TreeTypeOK, Live
  <1>2. CASE TreeNext
    <2>1. ASSUME NEW n \in Node, NewNode(n) \/ NewText(n) PROVE TreeInv'
      <3>1. Outside(n) /\ n \in Node \ Document
        BY <2>1, NodeAssumption DEF NewNode, NewText, Element
      <3>2. QED
        BY <3>1, OutsideKeeps
    <2>2. ASSUME NEW n \in Node, NewDocument(n) \/ DropWrapper(n) \/ FinalizeNode(n) \/ FinalizeDocument(n) PROVE TreeInv'
      BY <2>2, NewDocumentKeeps, DropWrapperKeeps, FinalizeNodeKeeps, FinalizeDocumentKeeps
    <2>3. ASSUME NEW p \in Reachable, Hold(p) \/ Purge(p) \/ AssignFirstChild(p) PROVE TreeInv'
      BY <2>3, HoldKeeps, PurgeKeeps, AssignFirstChildKeeps
    <2>4. ASSUME NEW p \in Reachable, NEW n \in Node, AddNode(p, n) \/ AddText(p, n) \/ AssignContent(p, n)
          PROVE  TreeInv'
      BY <2>4, AddsKeep, AssignContentKeeps
    <2>5. ASSUME NEW n \in Reachable, NEW deep \in BOOLEAN, Copy(n, deep) PROVE TreeInv'
      BY <2>5, CopyKeeps
    <2>6. ASSUME NEW n \in Reachable \ Document, Unlink(n) \/ AssignParent(n) \/ AssignNext(n) \/ AssignPrev(n)
          PROVE  TreeInv'
      BY <2>6, UnlinkKeeps, AssignParentKeeps, AssignNextKeeps, AssignPrevKeeps
    <2>7. ASSUME NEW p \in Reachable, NEW n \in Reachable \ Document, AddChild(p, n) \/ AddChildList(p, n) PROVE TreeInv'
      BY <2>7, AddChildKeeps, AddChildListKeeps
    <2>8. ASSUME NEW d \in Reachable \cap Document, AssignRoot(d) PROVE TreeInv'
      BY <2>8, AssignRootKeeps
    <2>9. ASSUME CollectTrees PROVE TreeInv'
      BY <2>9, CollectTreesKeeps
    <2>10. QED
      BY <1>2, <2>1, <2>2, <2>3, <2>4, <2>5, <2>6, <2>7, <2>8, <2>9 DEF TreeNext
  <1>3. QED
    BY <1>1, <1>2

\* What the invariant says is what is meant by a tree in order.
LEMMA TreeInvSound ==
  ASSUME TreeInv
  PROVE  TreesSound
  <1>1. TreeTypeOK
    BY DEF TreeInv
  <1>2. KeepsReachable
    <2>1. careful => Reachable \subseteq Live
      BY ReachableLive
    <2>2. QED
      BY <2>1 DEF KeepsReachable, Live
  <1>3. NoDangling
    <2>1. SUFFICES ASSUME careful, NEW n \in exists
                   PROVE  /\ \A p \in Pointer \ {"doc"} : tree[p][n] \in exists \cup {Nil}
                          /\ n \notin garbage => tree.doc[n] \in exists \cup {Nil}
      BY DEF NoDangling
    <2>2. Forest(tree, exists, Node) /\ Sheltered(tree, Live) /\ n \in Node
      BY <1>1, <2>1 DEF TreeInv, TreeTypeOK
    <2>3. FitIs(tree.next, tree.prev, tree.parent, tree.children, tree.last, tree.doc, exists, Node)
      BY <2>2, FitFacts DEF Forest
    <2>4. /\ tree.next[n] \in exists \cup {Nil} /\ tree.prev[n] \in exists \cup {Nil} /\ tree.parent[n] \in exists \cup {Nil}
          /\ tree.children[n] \in exists \cup {Nil} /\ tree.last[n] \in exists \cup {Nil}
      BY ONLY <2>2, <2>3 DEF FitIs
    <2>5. n \notin garbage => tree.doc[n] \in exists \cup {Nil}
      BY <2>2 DEF Sheltered, Live
    <2>6. QED
      BY <2>4, <2>5 DEF Pointer
  <1>4. WellFormed
    <2>1. SUFFICES ASSUME careful, NEW n \in exists PROVE Neighbours(n) /\ Children(n) /\ Acyclic(n)
      BY DEF WellFormed
    <2>2. Forest(tree, exists, Node) /\ n \in Node /\ exists \in SUBSET Node
      BY <1>1, <2>1 DEF TreeInv, TreeTypeOK
    <2>3. Fit(tree.next, tree.prev, tree.parent, tree.children, tree.last, tree.doc, exists, Node) /\ tree \in Trees
      BY <2>2 DEF Forest
    <2>4. FitIs(tree.next, tree.prev, tree.parent, tree.children, tree.last, tree.doc, exists, Node) /\ Nil \notin Node
      BY <2>3, FitFacts, NodesCounted
    <2>5. Neighbours(n)
      BY ONLY <2>2, <2>4 DEF FitIs, Neighbours
    <2>6. Children(n)
      <3>1. Walk(tree.next, tree.children[n]) = {x \in Node : tree.parent[x] = n}
        BY <2>2, <2>3, ChildrenAre
      <3>2. Walk(tree.prev, tree.last[n]) = {x \in Node : tree.parent[x] = n}
        <4>1. Fit(tree.prev, tree.next, tree.parent, tree.last, tree.children, tree.doc, exists, Node)
          BY <2>3, Mirrored
        <4>2. QED
          BY <2>2, <4>1, ChildrenAre
      <3>3. \A x \in Node : tree.parent[x] = n => x \in exists /\ tree.doc[x] = tree.doc[n]
        BY ONLY <2>2, <2>4 DEF FitIs
      <3>4. {x \in Node : tree.parent[x] = n} = {m \in exists : tree.parent[m] = n}
        BY <2>2, <3>3
      <3>5. QED
        BY <2>2, <3>1, <3>2, <3>3, <3>4, AlongIs DEF Children
    <2>7. Acyclic(n)
      <3>1. tree.next \in Pointers /\ tree.parent \in Pointers /\ Ranked(tree.next) /\ Ranked(tree.parent)
        BY <2>3 DEF Fit
      <3>2. n \notin Walk(tree.next, tree.next[n]) /\ n \notin Walk(tree.parent, tree.parent[n])
        BY <2>2, <3>1, WalkGoesOn
      <3>3. QED
        BY <3>2, AlongIs DEF Acyclic
    <2>8. QED
      BY <2>5, <2>6, <2>7
  <1>5. QED
    BY <1>1, <1>2, <1>3, <1>4 DEF TreesSound

\* As long as the calls are among those the setters provide for, and whatever
\* the collector does, trees are in order (their chains of siblings agree with
\* the parents, and nothing is its own ancestor or sibling), no pointer of a
\* node that is left leads to a freed one, except to the document of a node
\* that is about to be finalized, and what script can get at is not collected
\* (the setters, node::trace, ~node and ~document). Nothing is said after an
\* assignment to the content of an element that has children, or after the
\* finalizer of a node has been misled by its freed document.
THEOREM TreesSoundHolds == TreeSpec => []TreesSound
  <1>1. TreeInit => TreeInv
    BY TreeBegins
  <1>2. TreeInv /\ [TreeNext]_treeVars => TreeInv'
    BY TreeKeeps
  <1>3. TreeInv => TreesSound
    BY TreeInvSound
  <1>4. QED
    BY <1>1, <1>2, <1>3, PTL DEF TreeSpec
=============================================================================
