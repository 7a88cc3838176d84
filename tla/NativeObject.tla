---------------------------- MODULE NativeObject ----------------------------
(***************************************************************************)
(* The life of native objects and native functions: a C++ object and a     *)
(* script object that point to each other, made by create_native_object    *)
(* or create_native_function, kept by what roots and traces reach, and     *)
(* deleted by the finalizer of the script object; and the registry of      *)
(* classes, whose constructors are native functions (native_object_base,   *)
(* native_function_base, create, root, local_root_scope, tracer, class).   *)
(***************************************************************************)
EXTENDS Naturals, Sequences, FiniteSets

CONSTANTS
    Objs,      \* script objects, as places that the engine may use again
    Natives,   \* C++ objects: native_object_base and native_function_base
    None,      \* a null pointer
    MaxDepth   \* bound: how many creations, hooks and loads are nested

ASSUME NoneAssumption == None \notin Objs /\ None \notin Natives
ASSUME DepthAssumption == MaxDepth \in Nat

VARIABLES
    class,     \* what each script object is: "free", "object" (of the class
               \* NativeObject), "function" (a function with the object of
               \* class FunctionParent in its slot) or "plain"
    priv,      \* its private pointer, or slot 1 of the function
    life,      \* the C++ object: "unborn", "building", "live" or "deleted"
    handle,    \* what it points to as the class object that it is
    member,    \* the object that its trace reports
    frames,    \* the C++ code that runs, innermost first
    held,      \* what script refers to
    rooted,    \* what a root<T> of C++ code names
    ctor,      \* the registered constructor of the class T
    proto,     \* its registered prototype
    exported,  \* whether the container has the constructor
    sweeping,  \* what the collection under way has still to finalize
    open,      \* whether the context exists
    twice,     \* C++ objects that have been deleted a second time
    spoilt,    \* native functions whose creation failed half way
    escaped    \* whether a trace has thrown through the engine

vars == <<class, priv, life, handle, member, frames, held, rooted, ctor, proto,
          exported, sweeping, open, twice, spoilt, escaped>>

bodies == <<class, priv, life, handle, member, twice, spoilt>>
registry == <<ctor, proto, exported>>
rest == <<rooted, sweeping, open, escaped>>

-----------------------------------------------------------------------------
(***************************************************************************)
(* A frame is C++ code under way: what it is, the script object that it    *)
(* keeps alive (in its local_root_scope, or as the object on which the     *)
(* engine calls a hook), the C++ object, an argument, and how far it got.  *)
(***************************************************************************)
Frame == [kind : {"new", "function", "load", "hook"},
          obj : Objs \cup {None}, native : Natives \cup {None},
          arg : Objs \cup {None},
          at : {"args", "body", "parent", "ctor", "proto", "augment", "hook"}]

Init ==
    /\ class = [o \in Objs |-> "free"]
    /\ priv = [o \in Objs |-> None]
    /\ life = [n \in Natives |-> "unborn"]
    /\ handle = [n \in Natives |-> None]
    /\ member = [n \in Natives |-> None]
    /\ frames = <<>>
    /\ held = {} /\ rooted = {}
    /\ ctor = None /\ proto = None /\ exported = FALSE
    /\ sweeping = {} /\ open = TRUE
    /\ twice = {} /\ spoilt = {} /\ escaped = FALSE

(***************************************************************************)
(* C++ code or script goes on: no collection is under way.                 *)
(***************************************************************************)
Running == sweeping = {} /\ open /\ ~escaped

(***************************************************************************)
(* The innermost code may call others, script included: it converts its    *)
(* arguments, runs the rest of its constructor, or is script.              *)
(***************************************************************************)
At == IF frames = <<>> THEN "script" ELSE frames[1].at

MayCall ==
    /\ Running
    /\ Len(frames) < MaxDepth
    /\ At \in {"script", "args", "body", "proto", "augment", "hook"}

Top(at) == Running /\ At = at

Push(f) == frames' = <<f>> \o frames
Pop == frames' = Tail(frames)
GoTo(at) == frames' = [frames EXCEPT ![1].at = at]

(***************************************************************************)
(* delete p: the object is gone, or was gone already.                      *)
(***************************************************************************)
Deleted(n) ==
    /\ life' = [life EXCEPT ![n] = "deleted"]
    /\ twice' = IF life[n] = "deleted" THEN twice \cup {n} ELSE twice

(***************************************************************************)
(* get_native: the C++ object behind o, None where it throws.              *)
(***************************************************************************)
GetNative(o) == IF o # None /\ class[o] = "object" THEN priv[o] ELSE None

-----------------------------------------------------------------------------
(***************************************************************************)
(* create_native_object<T>, its parts: the script object, in a local root  *)
(* scope; what the initialisers of T do before native_object_base is       *)
(* constructed; load_into; the rest of the constructor.                    *)
(***************************************************************************)
do_create_object(o) ==
    /\ class[o] = "free"
    /\ class' = [class EXCEPT ![o] = "object"]
    /\ UNCHANGED <<priv, life, handle, member, twice, spoilt>>

NewFrame(o, a) ==
    [kind |-> "new", obj |-> o, native |-> None, arg |-> a, at |-> "args"]

\* Mutant of CreateNativeObject: script, not the scope, keeps the object.
CreateNativeObjectHeld(o, a) ==
    /\ MayCall
    /\ do_create_object(o)
    /\ Push(NewFrame(o, a))
    /\ held' = held \cup {o}
    /\ UNCHANGED <<registry, rest>>

CreateNativeObject(o, a) ==
    /\ MayCall
    /\ do_create_object(o)
    /\ Push(NewFrame(o, a))
    /\ UNCHANGED <<held, registry, rest>>

ArgsThrow ==
    /\ Top("args")
    /\ Pop
    /\ UNCHANGED <<bodies, held, registry, rest>>

LoadInto(n) ==
    /\ Top("args") /\ life[n] = "unborn"
    /\ life' = [life EXCEPT ![n] = "building"]
    /\ handle' = [handle EXCEPT ![n] = frames[1].obj]
    /\ priv' = [priv EXCEPT ![frames[1].obj] = n]
    /\ frames' = [frames EXCEPT ![1].at = "body", ![1].native = n]
    /\ UNCHANGED <<class, member, twice, spoilt, held, registry, rest>>

\* Mutant of Destroyed: the private pointer stays.
DestroyedOnly(n) ==
    /\ Deleted(n)
    /\ handle' = [handle EXCEPT ![n] = None]
    /\ priv' = priv

(***************************************************************************)
(* The destructor of native_object_base, on all ways to it.                *)
(***************************************************************************)
Destroyed(n) ==
    /\ Deleted(n)
    /\ handle' = [handle EXCEPT ![n] = None]
    /\ priv' = IF handle[n] = None THEN priv ELSE [priv EXCEPT ![handle[n]] = None]

BodyThrows ==
    /\ Top("body")
    /\ Destroyed(frames[1].native)
    /\ Pop
    /\ UNCHANGED <<class, member, spoilt, held, registry, rest>>

(***************************************************************************)
(* The object is returned, to someone who keeps it or not.                 *)
(***************************************************************************)
Created ==
    /\ Top("body")
    /\ LET f == frames[1] IN
         /\ life' = [life EXCEPT ![f.native] = "live"]
         /\ member' = [member EXCEPT ![f.native] = f.arg]
         /\ held' \in {held, held \cup {f.obj}}
    /\ Pop
    /\ UNCHANGED <<class, priv, handle, twice, spoilt, registry, rest>>

-----------------------------------------------------------------------------
(***************************************************************************)
(* native_function_base::create_function, called by create_native_function *)
(* with a C++ object just made: the parent object gets it as its private   *)
(* pointer, then the function is made, which may fail.                     *)
(***************************************************************************)
MakeParent(o, n) ==
    /\ class[o] = "free" /\ life[n] = "unborn"
    /\ class' = [class EXCEPT ![o] = "function"]
    /\ priv' = [priv EXCEPT ![o] = n]
    /\ life' = [life EXCEPT ![n] = "live"]
    /\ UNCHANGED <<handle, member, twice, spoilt>>

ParentFrame(o, n) ==
    [kind |-> "function", obj |-> o, native |-> n, arg |-> None, at |-> "parent"]

CreateFunction(o, n) ==
    /\ MayCall
    /\ MakeParent(o, n)
    /\ Push(ParentFrame(o, n))
    /\ UNCHANGED <<held, registry, rest>>

(***************************************************************************)
(* JS_NewFunction fails: the exception makes create_native_function delete *)
(* the C++ object, to which the parent object still points, and takes the  *)
(* load_class that may have asked for the function with it.                *)
(***************************************************************************)
ForClass == Len(frames) > 1 /\ frames[2].at = "ctor"

FunctionFails ==
    /\ Top("parent")
    /\ LET n == frames[1].native IN Deleted(n) /\ spoilt' = spoilt \cup {n}
    /\ frames' = IF ForClass THEN Tail(Tail(frames)) ELSE Tail(frames)
    /\ UNCHANGED <<class, priv, handle, member, held, registry, rest>>

(***************************************************************************)
(* The function is made and the slots point to the parent and to the C++   *)
(* object. What is made for a script is defined as a property or dropped,  *)
(* what is made for a class is registered at once.                         *)
(***************************************************************************)
Connected ==
    LET f == frames[1] IN handle' = [handle EXCEPT ![f.native] = f.obj]

FunctionMade ==
    /\ Top("parent") /\ ~ForClass
    /\ Connected
    /\ held' \in {held, held \cup {frames[1].obj}}
    /\ Pop
    /\ UNCHANGED <<class, priv, life, member, twice, spoilt, registry, rest>>

-----------------------------------------------------------------------------
(***************************************************************************)
(* load_class<T>: nothing if the container has it; a registered            *)
(* constructor is defined in the container; else one is made, registered,  *)
(* given its prototype, and augmented. What has been registered before a   *)
(* failure stays registered.                                               *)
(***************************************************************************)
LoadKnown ==
    /\ MayCall
    /\ ~exported /\ ctor # None
    /\ exported' = TRUE
    /\ UNCHANGED <<bodies, frames, held, ctor, proto, rest>>

LoadClass(o, n) ==
    /\ MayCall /\ Len(frames) + 1 < MaxDepth
    /\ ~exported /\ ctor = None
    /\ MakeParent(o, n)
    /\ frames' = <<ParentFrame(o, n),
                   [kind |-> "load", obj |-> None, native |-> None,
                    arg |-> None, at |-> "ctor"]>> \o frames
    /\ UNCHANGED <<held, registry, rest>>

(***************************************************************************)
(* add_constructor: the root of the registry takes over.                   *)
(***************************************************************************)
AddConstructor ==
    /\ Top("parent") /\ ForClass
    /\ Connected
    /\ ctor' = frames[1].obj
    /\ frames' = [Tail(frames) EXCEPT ![1].at = "proto"]
    /\ UNCHANGED <<class, priv, life, member, twice, spoilt, held, proto, exported, rest>>

(***************************************************************************)
(* The prototype is made and registered.                                   *)
(***************************************************************************)
AddPrototype(p) ==
    /\ Top("proto") /\ class[p] = "free"
    /\ class' = [class EXCEPT ![p] = "plain"]
    /\ proto' = p
    /\ GoTo("augment")
    /\ UNCHANGED <<priv, life, handle, member, twice, spoilt, held, ctor, exported, rest>>

LoadThrows ==
    /\ Top("proto") \/ Top("augment")
    /\ Pop
    /\ UNCHANGED <<bodies, held, registry, rest>>

ClassLoaded ==
    /\ Top("augment")
    /\ exported' = TRUE
    /\ Pop
    /\ UNCHANGED <<bodies, held, ctor, proto, rest>>

(***************************************************************************)
(* Script takes the constructor out of the container.                      *)
(***************************************************************************)
Unexport ==
    /\ Running /\ exported
    /\ exported' = FALSE
    /\ UNCHANGED <<bodies, frames, held, ctor, proto, rest>>

-----------------------------------------------------------------------------
(***************************************************************************)
(* The hooks of native objects. Each finds the C++ object or throws, and   *)
(* runs its virtual function, with the object protected by the engine. A   *)
(* call asks the object it is made on and then the function itself; a      *)
(* native function is found by its slot.                                   *)
(***************************************************************************)
HookFrame(o, n) ==
    [kind |-> "hook", obj |-> o, native |-> n, arg |-> None, at |-> "hook"]

\* Mutant of HookOn: no check that there is a C++ object.
HookOnAny(o, n) ==
    /\ MayCall
    /\ Push(HookFrame(o, n))
    /\ UNCHANGED <<bodies, held, registry, rest>>

HookOn(o, n) ==
    /\ MayCall
    /\ n # None
    /\ Push(HookFrame(o, n))
    /\ UNCHANGED <<bodies, held, registry, rest>>

property_op(o) == HookOn(o, GetNative(o))

new_resolve(o) == HookOn(o, GetNative(o))

\* enumerate_start and enumerate_next, of a class that enumerates by itself;
\* the iterator that the engine keeps between them is left out.
new_enumerate(o) == HookOn(o, GetNative(o))

call_helper(obj, function) ==
    IF GetNative(obj) # None THEN HookOn(obj, GetNative(obj))
    ELSE HookOn(function, GetNative(function))

CallFunction(f) == class[f] = "function" /\ HookOn(f, priv[f])

(***************************************************************************)
(* A native member function runs on the C++ object of self, if it has one  *)
(* of the class T.                                                         *)
(***************************************************************************)
CallMember(f, self) == class[f] = "function" /\ HookOn(self, GetNative(self))

HookReturns ==
    /\ Top("hook")
    /\ Pop
    /\ UNCHANGED <<bodies, held, registry, rest>>

(***************************************************************************)
(* Script lets go of an object; a root of C++ code begins and ends.        *)
(***************************************************************************)
Drop(o) ==
    /\ Running
    /\ held' = held \ {o}
    /\ UNCHANGED <<bodies, frames, registry, rest>>

AddRoot(o) ==
    /\ Running
    /\ rooted' = rooted \cup {o}
    /\ UNCHANGED <<bodies, frames, held, registry, sweeping, open, escaped>>

RemoveRoot(o) ==
    /\ Running
    /\ rooted' = rooted \ {o}
    /\ UNCHANGED <<bodies, frames, held, registry, sweeping, open, escaped>>

-----------------------------------------------------------------------------
(***************************************************************************)
(* What a collection starts from: references, roots, those of the registry *)
(* among them, local root scopes, and the arguments on the engine's stack. *)
(***************************************************************************)
Scoped == {frames[i].obj : i \in DOMAIN frames} \cup {frames[i].arg : i \in DOMAIN frames}

ScopedArgs == {frames[i].arg : i \in DOMAIN frames}

\* Mutant of Roots: local root scopes keep the arguments only.
RootsUnscoped == (held \cup rooted \cup {ctor, proto} \cup ScopedArgs) \ {None}

Roots == (held \cup rooted \cup {ctor, proto} \cup Scoped) \ {None}

\* Mutant of Traced: trace reports nothing.
TracedNone(o) == {}

(***************************************************************************)
(* What trace reports of o. While its constructor runs the object is still *)
(* a native_object_base, whose trace reports nothing.                      *)
(***************************************************************************)
Traced(o) ==
    LET n == GetNative(o) IN
    IF n # None /\ life[n] = "live" THEN {member[n]} \ {None} ELSE {}

Reached(from) ==
    {o \in Objs : \A s \in SUBSET Objs :
        (from \subseteq s /\ \A p \in s : Traced(p) \subseteq s) => o \in s}

Marked == Reached(Roots)

Allocated == {o \in Objs : class[o] # "free"}

(***************************************************************************)
(* A marked native object without a C++ object: get_native throws in       *)
(* trace_op, which has no handler, into the engine. Nothing is known of    *)
(* the program after that.                                                 *)
(***************************************************************************)
Unloaded == {o \in Marked : class[o] = "object" /\ priv[o] = None}

TraceThrows ==
    /\ Running
    /\ Unloaded # {}
    /\ escaped' = TRUE
    /\ UNCHANGED <<bodies, frames, held, rooted, registry, sweeping, open>>

Collect ==
    /\ Running
    /\ Unloaded = {} /\ Allocated # Marked
    /\ sweeping' = Allocated \ Marked
    /\ UNCHANGED <<bodies, frames, held, rooted, registry, open, escaped>>

(***************************************************************************)
(* The finalizers delete what the private pointer names.                   *)
(***************************************************************************)
Finalize(o) ==
    /\ o \in sweeping
    /\ class' = [class EXCEPT ![o] = "free"]
    /\ sweeping' = sweeping \ {o}
    /\ CASE class[o] = "object" /\ priv[o] # None -> Destroyed(priv[o])
         [] class[o] = "function" ->
              /\ Deleted(priv[o])
              /\ handle' = [handle EXCEPT ![priv[o]] = None]
              /\ priv' = [priv EXCEPT ![o] = None]
         [] OTHER -> UNCHANGED <<life, twice, handle, priv>>
    /\ UNCHANGED <<member, spoilt, frames, held, rooted, registry, open, escaped>>

(***************************************************************************)
(* ~impl: the registry and its roots go, then JS_DestroyContext collects   *)
(* all but what roots elsewhere still name.                                *)
(***************************************************************************)
Closed ==
    /\ Running /\ frames = <<>>
    /\ open' = FALSE
    /\ ctor' = None /\ proto' = None /\ exported' = FALSE
    /\ held' = {}
    /\ UNCHANGED <<bodies, frames, rooted, escaped>>

\* Mutant of DestroyContext: the last collection comes before the registry
\* is given up.
DestroyContextFirst ==
    /\ Closed
    /\ sweeping' = Allocated \ Reached(rooted \cup ({ctor, proto} \ {None}))

DestroyContext ==
    /\ Closed
    /\ sweeping' = Allocated \ Reached(rooted)

-----------------------------------------------------------------------------
Next ==
    \/ \E o \in Objs, a \in held \cup {None} : CreateNativeObject(o, a)
    \/ ArgsThrow
    \/ \E n \in Natives : LoadInto(n)
    \/ BodyThrows
    \/ Created
    \/ \E o \in Objs, n \in Natives : CreateFunction(o, n)
    \/ FunctionFails
    \/ FunctionMade
    \/ LoadKnown
    \/ \E o \in Objs, n \in Natives : LoadClass(o, n)
    \/ AddConstructor
    \/ \E p \in Objs : AddPrototype(p)
    \/ LoadThrows
    \/ ClassLoaded
    \/ Unexport
    \/ \E o \in held : property_op(o) \/ new_resolve(o) \/ new_enumerate(o) \/ CallFunction(o)
    \/ \E o, f \in held : call_helper(o, f) \/ CallMember(f, o)
    \/ HookReturns
    \/ \E o \in held : Drop(o)
    \/ \E o \in held : AddRoot(o)
    \/ \E o \in rooted : RemoveRoot(o)
    \/ Collect
    \/ TraceThrows
    \/ \E o \in sweeping : Finalize(o)
    \/ DestroyContext

(***************************************************************************)
(* A sweep is a loop of the engine's that waits for nothing.               *)
(***************************************************************************)
Spec == Init /\ [][Next]_vars /\ WF_vars(\E o \in sweeping : Finalize(o))

-----------------------------------------------------------------------------
TypeOK ==
    /\ class \in [Objs -> {"free", "object", "function", "plain"}]
    /\ priv \in [Objs -> Natives \cup {None}]
    /\ life \in [Natives -> {"unborn", "building", "live", "deleted"}]
    /\ handle \in [Natives -> Objs \cup {None}]
    /\ member \in [Natives -> Objs \cup {None}]
    /\ frames \in Seq(Frame) /\ Len(frames) <= MaxDepth
    /\ \A i \in DOMAIN frames : frames[i].at = "hook" => frames[i].native \in Natives
    /\ held \subseteq Objs /\ rooted \subseteq Objs /\ sweeping \subseteq Objs
    /\ ctor \in Objs \cup {None} /\ proto \in Objs \cup {None}
    /\ exported \in BOOLEAN /\ open \in BOOLEAN /\ escaped \in BOOLEAN
    /\ twice \subseteq Natives /\ spoilt \subseteq Natives

(***************************************************************************)
(* A private pointer names a C++ object that exists and that points back,  *)
(* so that no hook, trace or finalizer runs on one that is gone, not even  *)
(* one whose constructor threw. Left out are the functions whose creation  *)
(* failed: theirs keep pointing to the deleted object                      *)
(* (native_function_base.cpp:79-89).                                       *)
(***************************************************************************)
BeingMade(o) == \E i \in DOMAIN frames : frames[i].at = "parent" /\ frames[i].obj = o

Paired ==
    /\ \A o \in Objs :
         LET n == priv[o] IN
         n # None /\ n \notin spoilt =>
             life[n] \in {"building", "live"} /\ (handle[n] = o \/ BeingMade(o))
    /\ \A n \in Natives : handle[n] # None => priv[handle[n]] = n

(***************************************************************************)
(* While a hook runs, also through nested calls and collections, its C++   *)
(* object is there; what the registry, roots and the C++ objects that a    *)
(* collection has spared point to has been spared as well.                 *)
(***************************************************************************)
Spared == (Allocated \ sweeping) \cup {None}

NotCollected ==
    /\ \A i \in DOMAIN frames :
         frames[i].at = "hook" => life[frames[i].native] \in {"building", "live"}
    /\ {ctor, proto} \cup rooted \subseteq Spared
    /\ \A o \in Spared \ {None} : priv[o] # None => member[priv[o]] \in Spared

(***************************************************************************)
(* A trace throws into the engine only for an object that is still         *)
(* waiting for the arguments of its constructor (as those of text and      *)
(* attribute_, which are converted before the base class is constructed).  *)
(***************************************************************************)
EscapesOnlyEarly == escaped => \E i \in DOMAIN frames : frames[i].at = "args"

(***************************************************************************)
(* All of the above: script objects and C++ objects belong to each other,  *)
(* and neither goes while the other, a hook or a root needs it.            *)
(***************************************************************************)
ObjectsSound == TypeOK /\ Paired /\ NotCollected /\ EscapesOnlyEarly

(***************************************************************************)
(* Each C++ object has one owner and is deleted once, by it, whatever      *)
(* constructors and class loaders throw; but a native function whose       *)
(* creation has failed, which the caller has deleted, is deleted again by  *)
(* the parent object that still points to it, see DeletedOnce.             *)
(***************************************************************************)
OwnerOf(n) ==
    CASE n \in twice -> "twice"
      [] n \in spoilt \ twice -> "abandoned"
      [] life[n] = "building" -> "cpp"
      [] life[n] = "live" /\ handle[n] = None -> "shared"
      [] life[n] = "live" /\ handle[n] # None -> "script"
      [] OTHER -> life[n]

O == INSTANCE Ownership WITH owner <- [n \in Natives |-> OwnerOf(n)]

\* The life of the C++ objects is one of Ownership: made by C++ code, handed
\* over to script or given up, and deleted once; only native functions are
\* shared while they are made, and only one whose creation has failed is
\* deleted a second time (native_function_base.cpp:79-89, create.cpp:99-106).
ImplementsOwnership == O!Spec

(***************************************************************************)
(* "ptr will be deleted by Flusspferd" (create.hpp:158): what is given to  *)
(* create_native_function, and any other C++ object, is deleted no more    *)
(* than once.                                                              *)
(***************************************************************************)
DeletedOnce == twice = {}

(***************************************************************************)
(* A context that is destroyed leaves no C++ object behind, unless a root  *)
(* outlives it.                                                            *)
(***************************************************************************)
NothingLeaks ==
    ~open /\ rooted = {} ~> \A n \in Natives : life[n] \in {"unborn", "deleted"}
=============================================================================
