--------------------------- MODULE ModuleRegistry ---------------------------
(***************************************************************************)
(* What require() promises about the modules it has loaded, seen from      *)
(* outside: each key is absent, being loaded, or loaded; it is loaded at   *)
(* most once at a time; a load that fails leaves no trace; and a module    *)
(* that has been loaded stays, with the same exports object.               *)
(***************************************************************************)
CONSTANTS
  Key,     \* module keys
  Object,  \* exports objects
  None     \* no exports

VARIABLES
  phase,    \* of each key: "absent", "loading" or "loaded"
  exports   \* of each key: its exports object, if it is not absent

RegistryInit ==
  /\ phase = [k \in Key |-> "absent"]
  /\ exports = [k \in Key |-> None]

Move(k, from, to) == phase[k] = from /\ phase' = [phase EXCEPT ![k] = to]
Bind(k, obj) == exports' = [exports EXCEPT ![k] = obj]

\* An exports object no other module has.
New(obj) == \A k \in Key : exports[k] # obj
BindNew(k) == \E obj \in Object : New(obj) /\ Bind(k, obj)

Start(k) == Move(k, "absent", "loading") /\ BindNew(k)
Trivial(k) == Move(k, "absent", "loaded") /\ BindNew(k)
Drop(k) == Move(k, "loading", "absent") /\ Bind(k, None)

\* While it is being loaded a module may change its exports object, also in
\* the very step in which the load ends.
Change(k) == Move(k, "loading", "loading") /\ BindNew(k)
Finish(k) ==
  /\ Move(k, "loading", "loaded")
  /\ \E obj \in Object : (obj = exports[k] \/ New(obj)) /\ Bind(k, obj)

RegistryNext ==
  \E k \in Key : Start(k) \/ Trivial(k) \/ Drop(k) \/ Change(k) \/ Finish(k)

RegistrySpec == RegistryInit /\ [][RegistryNext]_<<phase, exports>>
=============================================================================
