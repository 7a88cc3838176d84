------------------------------ MODULE Require -------------------------------
(***************************************************************************)
(* The module loader of core/modules.cpp: require(), its cache, and the    *)
(* property require.id that relative names are resolved against.  A module *)
(* is loaded by running its code (a preload function, the flusspferd_load  *)
(* function of a shared object, a script), and that code calls require     *)
(* again: calls nest, they meet modules that are still being loaded, and   *)
(* each may end by an exception that its caller catches or passes on.      *)
(*                                                                         *)
(* An exports object is a number, in the order of creation.                *)
(***************************************************************************)
EXTENDS Naturals, Sequences, Functions

CONSTANTS
  Name,         \* the names code calls require with
  Key,          \* all keys those names can resolve to
  KeyOf(_, _),  \* process_name(name, require.id)
  FileOf(_),    \* the file, in the search paths, that a key stands for
  NoId,         \* require.id outside every module: the empty string
  Alias,        \* require.alias: a function from keys to names
  Loader,       \* keys with a function in require.preload
  NullLoader,   \* keys whose entry in require.preload is null
  So, Js,       \* files that exist as shared object, as script
  BrokenSo,     \* shared objects that dlopen or dlsym fails on
  MaxObjects    \* bound: exports objects created

ASSUME KeyAssumption ==
  /\ NoId \in Key
  /\ \A n \in Name, i \in Key : KeyOf(n, i) \in Key
  /\ DOMAIN Alias \subseteq Key
  /\ \A k \in DOMAIN Alias : KeyOf(Alias[k], NoId) \in Key
ASSUME MaxObjectsAssumption == MaxObjects \in Nat

VARIABLES
  id,       \* require.id
  cache,    \* require.module_cache: a function from keys to exports objects
  calls,    \* the require calls whose module code is running, innermost last
  created,  \* exports objects created so far
  done,     \* exports objects of loads that ended normally
  thrown    \* an exception is on its way to the code of the innermost call

vars == <<id, cache, calls, created, done, thrown>>

Object == 1 .. MaxObjects

\* What a require call keeps while module code runs: its key, the id it
\* found (the variable module), its exports, and which code runs.
Stage == {"preload", "so", "js"}
CallRec == [key : Key, module : Key, exports : Object, stage : Stage]

Depth == Len(calls)
Top == calls[Depth]

\* The key after the one alias lookup, which is not repeated.
Resolved(key) == IF key \in DOMAIN Alias THEN KeyOf(Alias[key], NoId) ELSE key

\* Mutants of Without: nothing is removed; everything is.
KeepKey(key) == cache
DropAll(key) == Restrict(cache, {})

Without(key) == Restrict(cache, DOMAIN cache \ {key})
With(key, obj) == [k \in DOMAIN cache \cup {key} |-> IF k = key THEN obj ELSE cache[k]]

-----------------------------------------------------------------------------
Init ==
  /\ id = NoId
  /\ cache = [k \in {} |-> 0]
  /\ calls = <<>>
  /\ created = 0
  /\ done = {}
  /\ thrown = FALSE

\* Code runs: that of the innermost call, or the program's outside them all.
Running == ~thrown

\* Mutants of Begin: the exports are cached before they are created; the
\* cache is not written until the load has ended.
BeginEarly(asked, key, stage) ==
  /\ created < MaxObjects
  /\ created' = created + 1
  /\ cache' = With(key, created)
  /\ id' = asked
  /\ calls' = Append(calls, [key |-> key, module |-> id, exports |-> created', stage |-> stage])
  /\ UNCHANGED <<done, thrown>>
BeginUncached(asked, key, stage) ==
  /\ created < MaxObjects
  /\ created' = created + 1
  /\ id' = asked
  /\ calls' = Append(calls, [key |-> key, module |-> id, exports |-> created', stage |-> stage])
  /\ UNCHANGED <<cache, done, thrown>>

\* A require call whose key is not in the cache enters its exports there
\* and runs module code; id has the key before alias lookup.
Begin(asked, key, stage) ==
  /\ created < MaxObjects
  /\ created' = created + 1
  /\ cache' = With(key, created')
  /\ id' = asked
  /\ calls' = Append(calls, [key |-> key, module |-> id, exports |-> created', stage |-> stage])
  /\ UNCHANGED <<done, thrown>>

\* Hit: the cached exports, be they complete or not.  The early return skips
\* the line that puts id back.
Hit(n) ==
  /\ Running
  /\ LET asked == KeyOf(n, id) IN
       /\ Resolved(asked) \in DOMAIN cache
       /\ id' = asked
  /\ UNCHANGED <<cache, calls, created, done, thrown>>

\* A preload function is found: it is called.
StartPreload(n) ==
  /\ Running
  /\ LET asked == KeyOf(n, id)
         key == Resolved(asked)
     IN  /\ key \notin DOMAIN cache
         /\ key \in Loader
         /\ Begin(asked, key, "preload")

\* A null preload entry: the empty exports are the module.
NullPreload(n) ==
  /\ Running
  /\ created < MaxObjects
  /\ LET asked == KeyOf(n, id)
         key == Resolved(asked)
     IN  /\ key \notin DOMAIN cache
         /\ key \in NullLoader \ Loader
         /\ created' = created + 1
         /\ cache' = With(key, created')
         /\ done' = done \cup {created'}
         /\ id' = asked
  /\ UNCHANGED <<calls, thrown>>

\* A module looked for in the search paths.
Searched(key) == key \notin DOMAIN cache /\ key \notin Loader \cup NullLoader

StartSo(n) ==
  /\ Running
  /\ LET asked == KeyOf(n, id)
         key == Resolved(asked)
     IN  /\ Searched(key)
         /\ FileOf(key) \in So \ BrokenSo
         /\ Begin(asked, key, "so")

StartJs(n) ==
  /\ Running
  /\ LET asked == KeyOf(n, id)
         key == Resolved(asked)
     IN  /\ Searched(key)
         /\ FileOf(key) \in Js \ So
         /\ Begin(asked, key, "js")

\* Neither file exists, or the shared object cannot be loaded: the entry
\* made for the key is removed again and id is put back before the
\* exception reaches the caller; nothing refers to its exports object.
NotLoaded(n) ==
  /\ Running
  /\ LET key == Resolved(KeyOf(n, id)) IN
       /\ Searched(key)
       /\ FileOf(key) \in BrokenSo \/ FileOf(key) \notin So \cup Js
  /\ thrown' = TRUE
  /\ UNCHANGED <<id, cache, calls, created, done>>

\* The innermost call's code has ended normally and so does the call.
Finish(exports) ==
  /\ done' = done \cup {exports}
  /\ id' = IF Top.stage = "preload" THEN id ELSE Top.module
  /\ calls' = SubSeq(calls, 1, Depth - 1)

EndPreload ==
  /\ Running /\ calls # <<>> /\ Top.stage = "preload"
  /\ Finish(Top.exports)
  /\ UNCHANGED <<cache, created, thrown>>

\* The script has ended, or quit() has stopped it: there is no exception
\* then, and execute returns as from its end.  In a preload function or a
\* shared object the call that was stopped throws an exception (Fail).
EndJs ==
  /\ Running /\ calls # <<>> /\ Top.stage = "js"
  /\ Finish(Top.exports)
  /\ UNCHANGED <<cache, created, thrown>>

\* flusspferd_load returns, with its reference to the exports unchanged or
\* bound to another object, which is then what is cached.  A script of the
\* same name is run after it.
EndSo ==
  /\ Running /\ calls # <<>> /\ Top.stage = "so"
  /\ \E exports \in {Top.exports, created + 1} :
       /\ exports <= MaxObjects
       /\ created' = IF exports = Top.exports THEN created ELSE exports
       /\ cache' = With(Top.key, exports)
       /\ IF FileOf(Top.key) \in Js
            THEN /\ calls' = [calls EXCEPT ![Depth].exports = exports, ![Depth].stage = "js"]
                 /\ UNCHANGED <<id, done>>
            ELSE Finish(exports)
  /\ UNCHANGED thrown

\* Mutant of Fail: id is not put back.
FailKeepsId ==
  /\ calls # <<>>
  /\ cache' = Without(Top.key)
  /\ calls' = SubSeq(calls, 1, Depth - 1)
  /\ thrown' = TRUE
  /\ UNCHANGED <<id, created, done>>

\* The innermost call's code throws, or lets an exception pass: catch (...)
\* takes the entry out of the cache, puts id back and throws it on.
Fail ==
  /\ calls # <<>>
  /\ cache' = Without(Top.key)
  /\ id' = Top.module
  /\ calls' = SubSeq(calls, 1, Depth - 1)
  /\ thrown' = TRUE
  /\ UNCHANGED <<created, done>>

\* The code of the innermost call, or the program, catches the exception.
Catch ==
  /\ thrown
  /\ thrown' = FALSE
  /\ UNCHANGED <<id, cache, calls, created, done>>

Next ==
  \/ \E n \in Name :
       \/ Hit(n) \/ StartPreload(n) \/ NullPreload(n)
       \/ StartSo(n) \/ StartJs(n) \/ NotLoaded(n)
  \/ EndPreload \/ EndSo \/ EndJs
  \/ Fail \/ Catch

Spec == Init /\ [][Next]_vars

-----------------------------------------------------------------------------
(* Properties *)

\* The state has its types.
TypeOK ==
  /\ id \in Key
  /\ DOMAIN cache \subseteq Key
  /\ \A k \in DOMAIN cache : cache[k] \in 1 .. created
  /\ calls \in Seq(CallRec)
  /\ \A i \in DOMAIN calls : calls[i].exports <= created
  /\ created \in 0 .. MaxObjects
  /\ done \subseteq 1 .. created
  /\ thrown \in BOOLEAN

\* A cyclic require never starts a module a second time while it is being
\* loaded: the nesting of require calls ends (module_cache is written before
\* the module's code runs).
NoReentry ==
  \A i, j \in DOMAIN calls : calls[i].key = calls[j].key => i = j

\* The cache holds exactly what has been loaded and what is being loaded:
\* no exports of a load that failed, and the exports each unfinished call
\* will return.
CacheSound ==
  /\ \A k \in DOMAIN cache :
       \/ cache[k] \in done
       \/ \E i \in DOMAIN calls : calls[i].key = k
  /\ \A i \in DOMAIN calls :
       /\ calls[i].key \in DOMAIN cache
       /\ cache[calls[i].key] = calls[i].exports
       /\ calls[i].exports \notin done

\* Relative names are never resolved against a module that failed to load:
\* id, and each id a call will put back, names a module that is in the
\* cache.
Known(key) == key = NoId \/ Resolved(key) \in DOMAIN cache
IdKnown ==
  /\ Known(id)
  /\ \A i \in DOMAIN calls : Known(calls[i].module)

\* Why these hold: no two keys share an exports object, and an id that a
\* call will put back was in the cache before the modules loaded since.
CacheInjective ==
  \A k, l \in DOMAIN cache : cache[k] = cache[l] => k = l
SavedBefore ==
  \A i, j \in DOMAIN calls :
    i <= j /\ calls[i].module # NoId => Resolved(calls[i].module) # calls[j].key

CacheInv == CacheSound /\ NoReentry /\ CacheInjective
IdInv == IdKnown /\ SavedBefore

\* The loader implements the registry of ModuleRegistry, whatever order
\* loads nest, fail and end in.
PhaseOf(k) ==
  IF k \notin DOMAIN cache THEN "absent"
  ELSE IF cache[k] \in done THEN "loaded" ELSE "loading"
Registry == INSTANCE ModuleRegistry
  WITH None <- 0,
       phase <- [k \in Key |-> PhaseOf(k)],
       exports <- [k \in Key |-> IF k \in DOMAIN cache THEN cache[k] ELSE 0]
ImplementsRegistry == Registry!RegistrySpec
=============================================================================
