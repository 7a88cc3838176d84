---------------------------- MODULE ObjectProofs ----------------------------
(***************************************************************************)
(* Theorems about the properties of objects, for every set of names and    *)
(* descriptors, any nesting of definitions and any number of iterations;   *)
(* about the values, roots and argument lists of a call, for any number of *)
(* them; about the conversion of what a C++ function is called with, for   *)
(* every signature and every width of integer; and about what streams read *)
(* and print, for any bytes, chunks and lists of arguments.                *)
(***************************************************************************)
EXTENDS Objects, Arguments, Conversions, Stream, StackLemmas, SequenceTheorems, TLAPS

-----------------------------------------------------------------------------
(* The invariant. *)

Definition == [name : Names, desc : Descriptors, flags : SUBSET Flags, current : BOOLEAN]
Walk == [left : Seq(Names), visited : Seq(Names), unsure : SUBSET Names,
         ended : BOOLEAN, first : SUBSET Names]
Iterator == Seq([walk : Nat, id : Names])

Differ(s) == \A i, j \in 1 .. Len(s) : s[i] = s[j] => i = j
Members(s) == {s[i] : i \in 1 .. Len(s)}

\* The types of the state.
PropTyped ==
  /\ props \in [Names -> Property \cup {NoProp}]
  /\ order \in Seq(Names)
  /\ sealed \in BOOLEAN /\ failed \in BOOLEAN
  /\ walks \in Seq(Walk) /\ Len(walks) <= MaxWalks
  /\ iters \in [Iterators -> Iterator]

\* Accessors have no value; what is listed is what is there.
PropsFit ==
  /\ \A n \in Names : Accessor(n) => props[n].val = "undefined"
  /\ Differ(order) /\ Members(order) = {n \in Names : Has(n)}

\* No definition that is under way began with a permanent property.
DefiningFits ==
  /\ defining \in Seq(Definition) /\ Len(defining) <= MaxDefining
  /\ \A k \in 1 .. Len(defining) : "permanent_property" \notin defining[k].flags

\* What a walk has left and what it has visited are apart; of what was
\* enumerable at first and has not been touched since, nothing is lost, and
\* of the rest only what has been touched can have been visited.  E is the
\* set of the names that are enumerable now.
WalkFits(r, E) ==
  /\ Differ(r.left) /\ Differ(r.visited)
  /\ Members(r.left) \cap Members(r.visited) = {}
  /\ Members(r.visited) \subseteq r.first \cup r.unsure
  /\ r.first \ r.unsure \subseteq Members(r.visited) \cup Members(r.left)
  /\ \A n \in Members(r.left) \ r.unsure : n \in r.first <=> n \in E
  /\ r.ended = TRUE => r.left = <<>>

Shown == {n \in Names : Enumerable(n)}
WalksFit == \A w \in 1 .. Len(walks) : WalkFits(walks[w], Shown)

ItersFit ==
  \A i \in Iterators : iters[i] # <<>> =>
    /\ iters[i][1].walk \in 1 .. Len(walks)
    /\ iters[i][1].id \in Members(walks[iters[i][1].walk].visited)

PropInv == PropTyped /\ PropsFit /\ DefiningFits /\ WalksFit /\ ItersFit

-----------------------------------------------------------------------------
(* Walks. *)

LEMMA ToSetMembers ==
  ASSUME NEW S, NEW s \in Seq(S)
  PROVE  ToSet(s) = Members(s) /\ Members(s) \subseteq S
  BY DEF ToSet, Members

\* What becomes of a walk when the property n changes.
LEMMA DisturbOne ==
  ASSUME NEW r \in Walk, NEW E, NEW E2, NEW n \in Names, WalkFits(r, E),
         E2 \ {n} = E \ {n},
         NEW r2, r2 = [r EXCEPT !.unsure = @ \cup ({n} \cap ToSet(r.left))]
  PROVE  r2 \in Walk /\ WalkFits(r2, E2) /\ r2.visited = r.visited
  <1>1. /\ r2.left = r.left /\ r2.visited = r.visited /\ r2.ended = r.ended /\ r2.first = r.first
        /\ r2.unsure = r.unsure \cup ({n} \cap Members(r.left))
        /\ r2 \in Walk
    BY ToSetMembers DEF Walk
  <1>2. WalkFits(r2, E2)
    BY <1>1 DEF WalkFits
  <1>3. QED
    BY <1>1, <1>2

LEMMA Disturb ==
  ASSUME PropInv, NEW n \in Names, walks' = Disturbed(n), Shown' \ {n} = Shown \ {n}
  PROVE  /\ walks' \in Seq(Walk) /\ Len(walks') = Len(walks) /\ Len(walks) \in Nat
         /\ WalksFit'
         /\ \A w \in 1 .. Len(walks) : walks'[w].visited = walks[w].visited
  <1>1. PICK ws, E, E2 : ws = walks /\ E = Shown /\ E2 = Shown'
    OBVIOUS
  <1>2. ws \in Seq(Walk) /\ Len(ws) \in Nat /\ DOMAIN ws = 1 .. Len(ws)
    BY <1>1 DEF PropInv, PropTyped
  <1>3. PICK u : u = [w \in DOMAIN ws |-> [ws[w] EXCEPT !.unsure = @ \cup ({n} \cap ToSet(ws[w].left))]]
    OBVIOUS
  <1>4. walks' = u
    BY <1>1, <1>3 DEF Disturbed
  <1>5. ASSUME NEW w \in 1 .. Len(ws)
        PROVE  u[w] \in Walk /\ WalkFits(u[w], E2) /\ u[w].visited = ws[w].visited
    <2>1. ws[w] \in Walk /\ WalkFits(ws[w], E)
      BY <1>1, <1>2 DEF PropInv, WalksFit
    <2>2. u[w] = [ws[w] EXCEPT !.unsure = @ \cup ({n} \cap ToSet(ws[w].left))]
      BY <1>2, <1>3
    <2>3. E2 \ {n} = E \ {n}
      BY <1>1
    <2>4. QED
      BY ONLY <2>1, <2>2, <2>3, n \in Names, DisturbOne
  <1>6. u \in Seq(Walk) /\ Len(u) = Len(ws)
    <2>1. u \in [1 .. Len(ws) -> Walk]
      BY <1>2, <1>3, <1>5
    <2>2. QED
      BY <1>2, <2>1
  <1>7. WalksFit'
    <2>1. \A w \in 1 .. Len(u) : WalkFits(u[w], E2)
      BY <1>5, <1>6
    <2>2. QED
      BY <1>1, <1>4, <2>1 DEF WalksFit
  <1>8. QED
    BY <1>1, <1>2, <1>4, <1>5, <1>6, <1>7

\* What is left of a sequence after its k-th member.
Beyond(t, s, k) == Len(t) = Len(s) - k /\ \A i \in 1 .. Len(t) : t[i] = s[k + i]

\* A sequence and one more.
More(t, s, y) == Len(t) = Len(s) + 1 /\ t[Len(s) + 1] = y /\ \A i \in 1 .. Len(s) : t[i] = s[i]

LEMMA OneMore ==
  ASSUME NEW S, NEW s \in Seq(S), NEW y \in S, Differ(s), y \notin Members(s),
         NEW t \in Seq(S), More(t, s, y)
  PROVE  Members(t) = Members(s) \cup {y} /\ Differ(t)
  <1>1. /\ t \in Seq(S) /\ Len(t) = Len(s) + 1 /\ Len(s) \in Nat
        /\ \A i \in 1 .. Len(s) : t[i] = s[i]
        /\ t[Len(s) + 1] = y
    BY DEF More
  <1>2. Len(s) + 1 \in 1 .. Len(t) /\ \A i \in 1 .. Len(s) : i \in 1 .. Len(t)
    BY <1>1
  <1>3. \A i \in 1 .. Len(t) : i \in 1 .. Len(s) \/ i = Len(s) + 1
    BY <1>1
  <1>4. Members(t) = Members(s) \cup {y}
    BY <1>1, <1>2, <1>3 DEF Members
  <1>5. \A i \in 1 .. Len(s) : s[i] # y
    BY DEF Members
  <1>6. ASSUME NEW i \in 1 .. Len(t), NEW j \in 1 .. Len(t), t[i] = t[j] PROVE i = j
    BY <1>1, <1>3, <1>5, <1>6 DEF Differ
  <1>7. QED
    BY <1>1, <1>4, <1>6 DEF Differ

\* What is left of a sequence without repetitions after its k-th member.
LEMMA Rest ==
  ASSUME NEW S, NEW l \in Seq(S), Differ(l), NEW n \in Nat, n = Len(l), NEW k \in 1 .. n,
         NEW l2 \in Seq(S), Beyond(l2, l, k)
  PROVE  /\ Differ(l2)
         /\ Members(l2) \subseteq Members(l)
         /\ \A j \in 1 .. k : l[j] \notin Members(l2)
         /\ \A x \in Members(l) \ Members(l2) : \E j \in 1 .. k : l[j] = x
  <1>1. l \in Seq(S) /\ n \in Nat /\ n = Len(l) /\ Differ(l) /\ k \in 1 .. n /\ k \in Nat /\ k <= n
    OBVIOUS
  <1>2. /\ l2 \in Seq(S)
        /\ Len(l2) = n - k
        /\ \A i \in 1 .. Len(l2) : l2[i] = l[k + i]
    BY DEF Beyond
  <1>3. Differ(l2) /\ Members(l2) \subseteq Members(l)
    <2>1. \A i \in 1 .. Len(l2) : k + i \in 1 .. n /\ l2[i] = l[k + i]
      BY <1>1, <1>2
    <2>2. ASSUME NEW i \in 1 .. Len(l2), NEW j \in 1 .. Len(l2), l2[i] = l2[j] PROVE i = j
      <3>1. k + i = k + j
        BY <1>1, <2>1, <2>2 DEF Differ
      <3>2. QED
        BY <1>1, <3>1
    <2>3. Members(l2) \subseteq Members(l)
      BY <1>1, <2>1 DEF Members
    <2>4. QED
      BY <2>2, <2>3 DEF Differ
  <1>4. ASSUME NEW j \in 1 .. k, l[j] \in Members(l2) PROVE FALSE
    <2>1. PICK i \in 1 .. Len(l2) : l2[i] = l[j]
      BY <1>4 DEF Members
    <2>2. l[k + i] = l[j] /\ k + i \in 1 .. n /\ j \in 1 .. n /\ k + i # j
      BY <1>1, <1>2, <1>4, <2>1
    <2>3. QED
      BY <1>1, <2>2 DEF Differ
  <1>5. ASSUME NEW x \in Members(l) \ Members(l2)
        PROVE  \E j \in 1 .. k : l[j] = x
    <2>1. PICK i \in 1 .. n : l[i] = x
      BY <1>1, <1>5 DEF Members
    <2>2. ASSUME i > k PROVE FALSE
      <3>1. i - k \in 1 .. Len(l2) /\ k + (i - k) = i
        <4>1. k \in Nat /\ k <= n
          BY <1>1, <2>1, <2>2
        <4>2. Len(l2) = n - k
          BY <1>1, <1>2, <4>1
        <4>3. QED
          BY <1>1, <2>1, <2>2, <4>1, <4>2
      <3>2. l2[i - k] = x
        BY <1>2, <2>1, <3>1
      <3>3. QED
        BY <1>5, <3>1, <3>2 DEF Members
    <2>3. QED
      BY <1>1, <2>1, <2>2
  <1>6. QED
    BY <1>2, <1>3, <1>4, <1>5

LEMMA RestOf ==
  ASSUME NEW S, NEW s \in Seq(S), NEW k \in 1 .. Len(s)
  PROVE  /\ SubSeq(s, k + 1, Len(s)) \in Seq(S)
         /\ Beyond(SubSeq(s, k + 1, Len(s)), s, k)
  <1>1. PICK n : n = Len(s)
    OBVIOUS
  <1>2. n \in Nat /\ k \in 1 .. n /\ k \in Nat /\ k <= n
    BY <1>1
  <1>3. CASE k = n
    <2>1. SubSeq(s, k + 1, n) = <<>>
      BY <1>1, <1>2, <1>3
    <2>2. QED
      BY <1>1, <1>2, <1>3, <2>1 DEF Beyond
  <1>4. CASE k < n
    <2>1. k + 1 \in 1 .. n /\ n - (k + 1) + 1 = n - k
      BY <1>2, <1>4
    <2>2. PICK t : t = SubSeq(s, k + 1, n)
      OBVIOUS
    <2>3. t \in Seq(S) /\ Len(t) = n - k /\ \A i \in 1 .. Len(t) : t[i] = s[k + i]
      BY <1>1, <1>2, <2>1, <2>2
    <2>4. QED
      BY <1>1, <2>2, <2>3 DEF Beyond
  <1>5. QED
    BY <1>2, <1>3, <1>4

\* One step of a walk, to the k-th of what is left.
LEMMA Advance ==
  ASSUME NEW r \in Walk, NEW E, WalkFits(r, E),
         NEW k \in 1 .. Len(r.left),
         r.left[k] \in E \cup r.unsure,
         \A j \in 1 .. k - 1 : r.left[j] \notin E \ r.unsure,
         NEW r2 \in Walk, Beyond(r2.left, r.left, k), More(r2.visited, r.visited, r.left[k]),
         r2.unsure = r.unsure, r2.ended = r.ended, r2.first = r.first
  PROVE  /\ WalkFits(r2, E)
         /\ Members(r.visited) \subseteq Members(r2.visited)
         /\ r.left[k] \in Names /\ r.left[k] \in Members(r2.visited)
  <1>1. PICK l, v, n, l2, v2 :
          /\ l = r.left /\ v = r.visited /\ n = Len(r.left)
          /\ l2 = r2.left /\ v2 = r2.visited
    OBVIOUS
  <1>2. /\ l \in Seq(Names) /\ v \in Seq(Names) /\ n \in Nat /\ n = Len(l) /\ Len(v) \in Nat
        /\ Differ(l) /\ Differ(v) /\ k \in 1 .. n
    BY <1>1 DEF Walk, WalkFits
  <1>3. l2 \in Seq(Names) /\ Beyond(l2, l, k) /\ v2 \in Seq(Names) /\ More(v2, v, l[k])
    BY <1>1 DEF Walk
  <1>4. /\ Differ(l2)
        /\ Members(l2) \subseteq Members(l)
        /\ \A j \in 1 .. k : l[j] \notin Members(l2)
        /\ \A x \in Members(l) \ Members(l2) : \E j \in 1 .. k : l[j] = x
    BY ONLY <1>2, <1>3, Rest
  <1>5. /\ r2.left = l2 /\ r2.visited = v2 /\ r2.ended = r.ended
        /\ r2.first = r.first /\ r2.unsure = r.unsure /\ r.ended \in BOOLEAN
    BY <1>1 DEF Walk
  <1>6. /\ l[k] \in Names /\ l[k] \in Members(l)
        /\ l[k] \notin Members(v)
        /\ l[k] \in r.first \cup r.unsure
    <2>1. l[k] \in Names /\ l[k] \in Members(l)
      BY <1>2 DEF Members
    <2>2. l[k] \in E \cup r.unsure
      BY <1>1
    <2>3. QED
      BY <1>1, <2>1, <2>2 DEF WalkFits
  <1>7. PICK y : y = l[k]
    OBVIOUS
  <1>8. y \in Names /\ y \notin Members(v) /\ More(v2, v, y)
    BY <1>3, <1>6, <1>7
  <1>9. Members(v2) = Members(v) \cup {y} /\ Differ(v2)
    BY ONLY <1>2, <1>3, <1>8, OneMore
  <1>10. Members(v2) = Members(v) \cup {l[k]}
    BY ONLY <1>7, <1>9
  <1>11. Members(l2) \cap Members(v2) = {}
    BY <1>1, <1>4, <1>10 DEF WalkFits
  <1>12. r.first \ r.unsure \subseteq Members(v2) \cup Members(l2)
    <2>1. ASSUME NEW x \in r.first \ r.unsure, x \in Members(l), x \notin Members(l2)
          PROVE  x = l[k]
      <3>1. PICK j \in 1 .. k : l[j] = x
        BY <1>4, <2>1
      <3>2. x \in E
        BY <1>1, <2>1 DEF WalkFits
      <3>3. j \notin 1 .. k - 1
        BY <1>1, <2>1, <3>1, <3>2
      <3>4. QED
        BY <1>2, <3>1, <3>3
    <2>2. QED
      BY <1>1, <1>10, <2>1 DEF WalkFits
  <1>13. /\ Members(v2) \subseteq r.first \cup r.unsure
        /\ \A x \in Members(l2) \ r.unsure : x \in r.first <=> x \in E
    BY <1>1, <1>4, <1>6, <1>10 DEF WalkFits
  <1>14. r2.ended # TRUE
    <2>1. l # <<>>
      BY <1>2
    <2>2. QED
      BY <1>1, <1>5, <2>1 DEF WalkFits
  <1>15. WalkFits(r2, E)
    BY ONLY <1>4, <1>5, <1>9, <1>11, <1>12, <1>13, <1>14 DEF WalkFits
  <1>16. QED
    BY <1>1, <1>5, <1>6, <1>10, <1>15

\* The last step of a walk.
LEMMA WalkEnds ==
  ASSUME NEW r \in Walk, NEW E, WalkFits(r, E),
         \A j \in 1 .. Len(r.left) : r.left[j] \notin E \ r.unsure,
         NEW r2, r2 = [r EXCEPT !.left = <<>>, !.ended = TRUE]
  PROVE  r2 \in Walk /\ WalkFits(r2, E) /\ r2.visited = r.visited
  <1>1. /\ r2.left = <<>> /\ r2.visited = r.visited /\ r2.ended = TRUE
        /\ r2.first = r.first /\ r2.unsure = r.unsure /\ r2 \in Walk
    <2>1. <<>> \in Seq(Names) /\ TRUE \in BOOLEAN
      OBVIOUS
    <2>2. QED
      BY <2>1 DEF Walk
  <1>2. \A x \in Members(r.left) : x \notin E \ r.unsure
    BY DEF Members
  <1>3. r.first \ r.unsure \subseteq Members(r.visited)
    BY <1>2 DEF WalkFits
  <1>4. Members(r2.left) = {} /\ Differ(r2.left)
    BY <1>1 DEF Members, Differ
  <1>5. WalkFits(r2, E)
    BY <1>1, <1>3, <1>4 DEF WalkFits
  <1>6. QED
    BY <1>1, <1>5

-----------------------------------------------------------------------------
(* Steps of each kind. *)

\* The object and the iterators stay as they are.
LEMMA ObjectStays ==
  ASSUME PropInv, UNCHANGED <<props, order, iters, walks>>,
         sealed' \in BOOLEAN, failed' \in BOOLEAN, DefiningFits'
  PROVE  PropInv'
  <1>1. PropTyped'
    BY DEF PropInv, PropTyped
  <1>2. PropsFit'
    BY DEF PropInv, PropsFit, Accessor, Has
  <1>3. Shown' = Shown
    BY DEF Shown, Enumerable, Has
  <1>4. WalksFit'
    BY <1>3 DEF PropInv, WalksFit
  <1>5. ItersFit'
    BY DEF PropInv, ItersFit
  <1>6. QED
    BY <1>1, <1>2, <1>4, <1>5 DEF PropInv

\* One property changes, and the walks hear of it.
LEMMA PropertyChanges ==
  ASSUME PropInv, NEW n \in Names,
         walks' = Disturbed(n), Shown' \ {n} = Shown \ {n},
         UNCHANGED <<sealed, iters>>, failed' = FALSE,
         DefiningFits', PropsFit',
         props' \in [Names -> Property \cup {NoProp}], order' \in Seq(Names)
  PROVE  PropInv'
  <1>1. /\ walks' \in Seq(Walk) /\ Len(walks') = Len(walks) /\ Len(walks) \in Nat
        /\ WalksFit'
        /\ \A w \in 1 .. Len(walks) : walks'[w].visited = walks[w].visited
    BY Disturb
  <1>2. PropTyped'
    BY <1>1 DEF PropInv, PropTyped
  <1>3. ItersFit'
    BY <1>1 DEF PropInv, ItersFit
  <1>4. QED
    BY <1>1, <1>2, <1>3 DEF PropInv

LEMMA PutKeeps ==
  ASSUME PropInv, NEW n \in Names, NEW p \in Property,
         p.get = TRUE \/ p.set = TRUE => p.val = "undefined",
         Put(n, p), UNCHANGED <<sealed, iters>>, failed' = FALSE, DefiningFits'
  PROVE  PropInv'
  <1>1. /\ props' = [props EXCEPT ![n] = p]
        /\ props \in [Names -> Property \cup {NoProp}]
        /\ order \in Seq(Names) /\ Differ(order) /\ Members(order) = {m \in Names : Has(m)}
    BY DEF PropInv, PropTyped, PropsFit, Put
  <1>2. /\ props' \in [Names -> Property \cup {NoProp}]
        /\ props'[n] = p /\ p # NoProp
        /\ \A m \in Names \ {n} : props'[m] = props[m]
    BY <1>1, PropertyAssumption
  <1>3. {m \in Names : Has(m)'} = {m \in Names : Has(m)} \cup {n}
    BY <1>2 DEF Has
  <1>4. Shown' \ {n} = Shown \ {n}
    BY <1>2 DEF Shown, Enumerable, Has
  <1>5. order' \in Seq(Names) /\ Differ(order') /\ Members(order') = {m \in Names : Has(m)'}
    <2>1. CASE Has(n)
      <3>1. order' = order
        BY <2>1 DEF Put
      <3>2. QED
        BY <1>1, <1>3, <2>1, <3>1
    <2>2. CASE ~Has(n)
      <3>1. PICK o, o2 : o = order /\ o2 = <<n>> \o order
        OBVIOUS
      <3>2. order' = o2
        BY <2>2, <3>1 DEF Put
      <3>3. /\ o \in Seq(Names) /\ Len(o) \in Nat /\ o2 \in Seq(Names) /\ Len(o2) = Len(o) + 1
            /\ o2[1] = n /\ \A i \in 2 .. Len(o) + 1 : o2[i] = o[i - 1]
        BY <1>1, <3>1
      <3>4. \A i \in 1 .. Len(o) : o[i] # n
        BY <1>1, <2>2, <3>1 DEF Members
      <3>5. Members(o2) = Members(o) \cup {n}
        <4>1. ASSUME NEW i \in 1 .. Len(o2) PROVE o2[i] \in Members(o) \cup {n}
          <5>1. i = 1 \/ (i \in 2 .. Len(o) + 1 /\ i - 1 \in 1 .. Len(o))
            BY <3>3
          <5>2. QED
            BY <3>3, <5>1 DEF Members
        <4>2. ASSUME NEW i \in 1 .. Len(o) PROVE o[i] \in Members(o2)
          <5>1. i + 1 \in 1 .. Len(o2) /\ o2[i + 1] = o[i]
            BY <3>3
          <5>2. QED
            BY <5>1 DEF Members
        <4>3. n \in Members(o2)
          <5>1. 1 \in 1 .. Len(o2)
            BY <3>3
          <5>2. QED
            BY <3>3, <5>1 DEF Members
        <4>4. QED
          BY <4>1, <4>2, <4>3 DEF Members
      <3>6. ASSUME NEW i \in 1 .. Len(o2), NEW j \in 1 .. Len(o2), o2[i] = o2[j] PROVE i = j
        <4>1. /\ i = 1 \/ (i \in 2 .. Len(o) + 1 /\ i - 1 \in 1 .. Len(o) /\ o2[i] = o[i - 1])
              /\ j = 1 \/ (j \in 2 .. Len(o) + 1 /\ j - 1 \in 1 .. Len(o) /\ o2[j] = o[j - 1])
          BY <3>3
        <4>2. Differ(o)
          BY <1>1, <3>1
        <4>3. QED
          BY <3>3, <3>4, <3>6, <4>1, <4>2 DEF Differ
      <3>7. QED
        BY <1>1, <1>3, <3>1, <3>2, <3>3, <3>5, <3>6 DEF Differ
    <2>3. QED
      BY <2>1, <2>2
  <1>6. \A m \in Names : Accessor(m)' => props'[m].val = "undefined"
    <2>1. ASSUME NEW m \in Names \ {n}, Accessor(m)' PROVE props'[m].val = "undefined"
      <3>1. Accessor(m)
        BY <1>2, <2>1 DEF Accessor, Has
      <3>2. QED
        BY <1>2, <3>1 DEF PropInv, PropsFit
    <2>2. ASSUME Accessor(n)' PROVE p.val = "undefined"
      <3>1. p.get = TRUE \/ p.set = TRUE
        BY <1>2, <2>2 DEF Accessor, Property
      <3>2. QED
        BY <3>1
    <2>3. QED
      BY <1>2, <2>1, <2>2
  <1>7. PropsFit'
    BY <1>5, <1>6 DEF PropsFit
  <1>8. walks' = Disturbed(n)
    BY DEF Put
  <1>9. QED
    BY <1>2, <1>4, <1>5, <1>7, <1>8, PropertyChanges

\* What is deleted is taken from the list of properties.
LEMMA DeleteKeeps ==
  ASSUME PropInv, NEW n \in Names, Has(n), NEW k \in DOMAIN order, order[k] = n,
         order' = RemoveAt(order, k), props' = [props EXCEPT ![n] = NoProp],
         walks' = Disturbed(n), UNCHANGED <<sealed, iters>>, failed' = FALSE, DefiningFits'
  PROVE  PropInv'
  <1>1. /\ props \in [Names -> Property \cup {NoProp}]
        /\ order \in Seq(Names) /\ Differ(order) /\ Members(order) = {m \in Names : Has(m)}
    BY DEF PropInv, PropTyped, PropsFit
  <1>2. /\ props' \in [Names -> Property \cup {NoProp}]
        /\ props'[n] = NoProp
        /\ \A m \in Names \ {n} : props'[m] = props[m]
    BY <1>1
  <1>3. {m \in Names : Has(m)'} = {m \in Names : Has(m)} \ {n}
    BY <1>2 DEF Has
  <1>4. Shown' \ {n} = Shown \ {n}
    BY <1>2 DEF Shown, Enumerable, Has
  <1>5. order' \in Seq(Names) /\ Differ(order') /\ Members(order') = Members(order) \ {n}
    <2>1. PICK o, l : o = order /\ l = Len(order)
      OBVIOUS
    <2>2. o \in Seq(Names) /\ l = Len(o) /\ l \in Nat /\ k \in 1 .. l /\ o[k] = n /\ Differ(o)
      BY <1>1, <2>1
    <2>3. PICK a, b, o2 : a = SubSeq(o, 1, k - 1) /\ b = SubSeq(o, k + 1, l) /\ o2 = a \o b
      OBVIOUS
    <2>4. order' = o2
      BY <2>1, <2>3 DEF RemoveAt
    <2>5. /\ a \in Seq(Names) /\ Len(a) = k - 1 /\ \A i \in 1 .. k - 1 : a[i] = o[i]
          /\ b \in Seq(Names) /\ Len(b) = l - k /\ \A i \in 1 .. l - k : b[i] = o[k + i]
      <3>1. k - 1 \in Nat /\ k - 1 <= l /\ k \in Nat /\ k <= l
        BY <2>2
      <3>2. a \in Seq(Names) /\ Len(a) = k - 1 /\ \A i \in 1 .. k - 1 : a[i] = o[i]
        BY ONLY <2>2, <2>3, <3>1
      <3>3. b \in Seq(Names) /\ Len(b) = l - k /\ \A i \in 1 .. l - k : b[i] = o[k + i]
        <4>1. CASE k = l
          <5>1. b = <<>>
            BY <2>2, <2>3, <4>1
          <5>2. QED
            BY <2>2, <4>1, <5>1
        <4>2. CASE k < l
          <5>1. k + 1 \in 1 .. l /\ l - (k + 1) + 1 = l - k
            BY <2>2, <4>2
          <5>2. /\ SubSeq(o, k + 1, l) \in Seq(Names)
                /\ Len(SubSeq(o, k + 1, l)) = l - (k + 1) + 1
                /\ \A i \in 1 .. l - (k + 1) + 1 : SubSeq(o, k + 1, l)[i] = o[k + 1 + i - 1]
            BY ONLY <2>2, <5>1
          <5>3. \A i \in 1 .. l - k : k + 1 + i - 1 = k + i
            BY <2>2
          <5>4. QED
            BY <2>3, <5>1, <5>2, <5>3
        <4>3. QED
          BY <2>2, <3>1, <4>1, <4>2
      <3>4. QED
        BY <3>2, <3>3
    <2>6. /\ o2 \in Seq(Names) /\ Len(o2) = l - 1
          /\ \A i \in 1 .. l - 1 : o2[i] = IF i < k THEN o[i] ELSE o[i + 1]
      <3>1. o2 \in Seq(Names) /\ Len(o2) = Len(a) + Len(b)
        BY <2>3, <2>5
      <3>2. Len(o2) = l - 1
        BY <2>2, <2>5, <3>1
      <3>3. ASSUME NEW i \in 1 .. l - 1 PROVE o2[i] = IF i < k THEN o[i] ELSE o[i + 1]
        <4>1. CASE i < k
          <5>1. i \in 1 .. k - 1
            BY <2>2, <3>3, <4>1
          <5>2. o2[i] = a[i]
            BY <2>2, <2>3, <2>5, <5>1
          <5>3. QED
            BY <2>5, <4>1, <5>1, <5>2
        <4>2. CASE ~(i < k)
          <5>1. i - (k - 1) \in 1 .. l - k /\ k + (i - (k - 1)) = i + 1
            BY <2>2, <3>3, <4>2
          <5>2. o2[i] = b[i - (k - 1)]
            <6>1. i \in Len(a) + 1 .. Len(a) + Len(b) /\ i - Len(a) = i - (k - 1)
              BY <2>2, <2>5, <3>3, <4>2
            <6>2. o2[i] = b[i - Len(a)]
              BY <2>3, <2>5, <6>1, ConcatProperties
            <6>3. QED
              BY <6>1, <6>2
          <5>3. QED
            BY <2>5, <4>2, <5>1, <5>2
        <4>3. QED
          BY <4>1, <4>2
      <3>4. QED
        BY <3>1, <3>2, <3>3
    <2>7. ASSUME NEW i \in 1 .. l - 1
          PROVE  \E j \in 1 .. l : o2[i] = o[j] /\ j # k /\ j = IF i < k THEN i ELSE i + 1
      <3>1. CASE i < k
        BY <2>2, <2>6, <2>7, <3>1
      <3>2. CASE ~(i < k)
        BY <2>2, <2>6, <2>7, <3>2
      <3>3. QED
        BY <3>1, <3>2
    <2>8. Differ(o2)
      <3>1. ASSUME NEW i \in 1 .. Len(o2), NEW j \in 1 .. Len(o2), o2[i] = o2[j] PROVE i = j
        <4>1. PICK p \in 1 .. l : o2[i] = o[p] /\ p = IF i < k THEN i ELSE i + 1
          BY <2>6, <2>7
        <4>2. PICK q \in 1 .. l : o2[j] = o[q] /\ q = IF j < k THEN j ELSE j + 1
          BY <2>6, <2>7
        <4>3. p = q
          BY <2>2, <3>1, <4>1, <4>2 DEF Differ
        <4>4. i \in Int /\ j \in Int /\ k \in Int
          BY <2>2, <2>6
        <4>5. QED
          BY ONLY <4>1, <4>2, <4>3, <4>4
      <3>2. QED
        BY <3>1 DEF Differ
    <2>9. Members(o2) = Members(o) \ {n}
      <3>1. ASSUME NEW i \in 1 .. Len(o2) PROVE o2[i] \in Members(o) \ {n}
        <4>1. PICK j \in 1 .. l : o2[i] = o[j] /\ j # k
          BY <2>6, <2>7
        <4>2. o[j] # n
          BY <2>2, <4>1 DEF Differ
        <4>3. QED
          BY <2>2, <4>1, <4>2 DEF Members
      <3>2. ASSUME NEW j \in 1 .. l, o[j] # n PROVE o[j] \in Members(o2)
        <4>1. CASE j < k
          <5>1. j \in 1 .. Len(o2) /\ o2[j] = o[j]
            BY <2>2, <2>6, <4>1
          <5>2. QED
            BY <5>1 DEF Members
        <4>2. CASE ~(j < k)
          <5>1. j # k
            BY <2>2, <3>2
          <5>2. j - 1 \in 1 .. Len(o2) /\ ~(j - 1 < k) /\ j - 1 + 1 = j
            BY <2>2, <2>6, <3>2, <4>2, <5>1
          <5>3. o2[j - 1] = o[j]
            BY <2>6, <5>2
          <5>4. QED
            BY <5>2, <5>3 DEF Members
        <4>3. QED
          BY <4>1, <4>2
      <3>3. QED
        BY <2>2, <3>1, <3>2 DEF Members
    <2>10. QED
      BY <2>1, <2>4, <2>6, <2>8, <2>9
  <1>6. \A m \in Names : Accessor(m)' => props'[m].val = "undefined"
    BY <1>2 DEF Accessor, Has, PropInv, PropsFit
  <1>7. PropsFit'
    BY <1>1, <1>3, <1>5, <1>6 DEF PropsFit
  <1>8. QED
    BY <1>2, <1>4, <1>5, <1>7, PropertyChanges

\* A data property gets another value.
LEMMA ValueKeeps ==
  ASSUME PropInv, NEW n \in Names, Has(n), ~Accessor(n),
         props' = [props EXCEPT ![n].val = "v"], UNCHANGED <<order, walks, sealed, iters>>,
         failed' = FALSE, DefiningFits'
  PROVE  PropInv'
  <1>1. props \in [Names -> Property \cup {NoProp}] /\ props[n] \in Property
    BY DEF PropInv, PropTyped, Has
  <1>2. PICK p : p = [props[n] EXCEPT !.val = "v"]
    OBVIOUS
  <1>3. /\ p \in Property /\ p # NoProp
        /\ p.attrs = props[n].attrs /\ p.get = props[n].get /\ p.set = props[n].set
    BY <1>1, <1>2, PropertyAssumption DEF Property
  <1>4. /\ props' \in [Names -> Property \cup {NoProp}]
        /\ props'[n] = p
        /\ \A m \in Names \ {n} : props'[m] = props[m]
    BY <1>1, <1>2, <1>3
  <1>5. \A m \in Names : Has(m)' = Has(m) /\ Accessor(m)' = Accessor(m) /\ Enumerable(m)' = Enumerable(m)
    <2>1. ASSUME NEW m \in Names \ {n}
          PROVE  Has(m)' = Has(m) /\ Accessor(m)' = Accessor(m) /\ Enumerable(m)' = Enumerable(m)
      BY <1>4, <2>1 DEF Has, Accessor, Enumerable
    <2>2. Has(n)' = Has(n) /\ Accessor(n)' = Accessor(n) /\ Enumerable(n)' = Enumerable(n)
      BY <1>3, <1>4 DEF Has, Accessor, Enumerable
    <2>3. QED
      BY <2>1, <2>2
  <1>6. PropsFit'
    BY <1>4, <1>5 DEF PropInv, PropsFit
  <1>7. Shown' = Shown
    BY <1>5 DEF Shown
  <1>8. PropTyped' /\ WalksFit' /\ ItersFit'
    BY <1>4, <1>7 DEF PropInv, PropTyped, WalksFit, ItersFit
  <1>9. QED
    BY <1>6, <1>8 DEF PropInv

\* An iterator goes on, along walk w of the walks ws.
LEMMA StepKeeps ==
  ASSUME PropInv, NEW ws \in Seq(Walk), NEW w \in 1 .. Len(ws), Len(ws) <= MaxWalks,
         \A u \in 1 .. Len(ws) : WalkFits(ws[u], Shown),
         \A j \in Iterators : iters[j] # <<>> =>
           /\ iters[j][1].walk \in 1 .. Len(ws)
           /\ iters[j][1].id \in Members(ws[iters[j][1].walk].visited),
         NEW i \in Iterators, Step(i, w, ws), failed' = FALSE, UNCHANGED <<object, defining>>
  PROVE  PropInv'
  <1>1. PICK r, E : r = ws[w] /\ E = Shown
    OBVIOUS
  <1>2. r \in Walk /\ WalkFits(r, E) /\ r.left \in Seq(Names) /\ Len(r.left) \in Nat
    <2>1. ws[w] \in Walk /\ WalkFits(ws[w], Shown)
      OBVIOUS
    <2>2. r \in Walk /\ WalkFits(r, E)
      BY ONLY <1>1, <2>1
    <2>3. QED
      BY <2>2 DEF Walk
  <1>3. \A j \in 1 .. Len(r.left) :
          r.left[j] \in E \ r.unsure <=> Enumerable(r.left[j]) /\ ~(r.left[j] \in r.unsure)
    <2>1. \A j \in 1 .. Len(r.left) : r.left[j] \in Names
      BY <1>2
    <2>2. QED
      BY <1>1, <2>1 DEF Shown
  <1> DEFINE Goes(r2, x) ==
          /\ walks' = [ws EXCEPT ![w] = r2] /\ iters' = [iters EXCEPT ![i] = x]
          /\ r2 \in Walk /\ WalkFits(r2, E) /\ Members(r.visited) \subseteq Members(r2.visited)
          /\ x \in Iterator /\ (x # <<>> => x[1].walk = w /\ x[1].id \in Members(r2.visited))
  <1>4. PICK r2, x : Goes(r2, x)
    <2>1. ASSUME NEW k \in 1 .. Len(r.left),
                 (Enumerable(r.left[k]) /\ ~(r.left[k] \in r.unsure)) \/ r.left[k] \in r.unsure,
                 \A j \in 1 .. k - 1 : ~(Enumerable(r.left[j]) /\ ~(r.left[j] \in r.unsure)),
                 walks' = [ws EXCEPT ![w] = [ws[w] EXCEPT !.left = SubSeq(r.left, k + 1, Len(r.left)),
                                                          !.visited = Append(ws[w].visited, r.left[k])]],
                 iters' = [iters EXCEPT ![i] = <<[walk |-> w, id |-> r.left[k]]>>]
          PROVE  \E r2, x : Goes(r2, x)
      <3>1. PICK r2, l2, v2 :
              /\ l2 = SubSeq(r.left, k + 1, Len(r.left)) /\ v2 = Append(r.visited, r.left[k])
              /\ r2 = [r EXCEPT !.left = l2, !.visited = v2]
        OBVIOUS
      <3>2. r.left[k] \in E \cup r.unsure
        BY <1>3, <2>1
      <3>3. \A j \in 1 .. k - 1 : r.left[j] \notin E \ r.unsure
        BY <1>2, <1>3, <2>1
      <3>4. /\ r.left \in Seq(Names) /\ r.visited \in Seq(Names) /\ k \in 1 .. Len(r.left)
             /\ r.left[k] \in Names
        BY <1>2 DEF Walk
      <3>5. v2 \in Seq(Names) /\ More(v2, r.visited, r.left[k])
        BY <3>1, <3>4, PushOne DEF More
      <3>6. l2 \in Seq(Names) /\ Beyond(l2, r.left, k)
        BY <3>1, <3>4, RestOf
      <3>7. /\ r2 \in Walk /\ WalkFits(r2, E)
            /\ Members(r.visited) \subseteq Members(r2.visited)
            /\ r.left[k] \in Names /\ r.left[k] \in Members(r2.visited)
        <4>1. /\ r2 \in Walk /\ r2.left = l2 /\ r2.visited = v2
              /\ r2.unsure = r.unsure /\ r2.ended = r.ended /\ r2.first = r.first
          BY ONLY <1>2, <3>1, <3>5, <3>6 DEF Walk
        <4>2. QED
          BY ONLY <1>2, <3>2, <3>3, <3>4, <3>5, <3>6, <4>1, Advance
      <3>8. walks' = [ws EXCEPT ![w] = r2]
        BY ONLY <1>1, <2>1, <3>1
      <3>9. PICK x : x = <<[walk |-> w, id |-> r.left[k]]>>
        OBVIOUS
      <3>10. x \in Iterator /\ x[1].walk = w /\ x[1].id = r.left[k]
        <4>1. w \in Nat /\ [walk |-> w, id |-> r.left[k]] \in [walk : Nat, id : Names]
          BY <3>7
        <4>2. QED
          BY <3>9, <4>1 DEF Iterator
      <3>11. iters' = [iters EXCEPT ![i] = x]
        BY <2>1, <3>9
      <3>12. QED
        BY <3>7, <3>8, <3>10, <3>11
    <2>2. ASSUME \A j \in 1 .. Len(r.left) : ~(Enumerable(r.left[j]) /\ ~(r.left[j] \in r.unsure)),
                 walks' = [ws EXCEPT ![w] = [ws[w] EXCEPT !.left = <<>>, !.ended = TRUE]],
                 iters' = [iters EXCEPT ![i] = <<>>]
          PROVE  \E r2, x : Goes(r2, x)
      <3>1. PICK r2 : r2 = [r EXCEPT !.left = <<>>, !.ended = TRUE]
        OBVIOUS
      <3>2. \A j \in 1 .. Len(r.left) : r.left[j] \notin E \ r.unsure
        BY <1>3, <2>2
      <3>3. r2 \in Walk /\ WalkFits(r2, E) /\ r2.visited = r.visited
        BY <1>2, <3>1, <3>2, WalkEnds
      <3>4. walks' = [ws EXCEPT ![w] = r2]
        BY <1>1, <2>2, <3>1
      <3>5. <<>> \in Iterator
        BY DEF Iterator
      <3>6. QED
        BY <2>2, <3>3, <3>4, <3>5
    <2>3. QED
      BY <1>1, <2>1, <2>2 DEF Step
  <1>5. /\ walks' \in Seq(Walk) /\ Len(walks') = Len(ws) /\ Len(ws) \in Nat
        /\ walks'[w] = r2 /\ \A u \in 1 .. Len(ws) : u # w => walks'[u] = ws[u]
    BY <1>4
  <1>6. Shown' = Shown
    BY DEF Shown, Enumerable, Has, object
  <1>7. WalksFit'
    BY <1>1, <1>4, <1>5, <1>6 DEF WalksFit
  <1>8. \A u \in 1 .. Len(ws) : Members(ws[u].visited) \subseteq Members(walks'[u].visited)
    BY <1>1, <1>4, <1>5
  <1>9. iters' \in [Iterators -> Iterator] /\ ItersFit'
    <2>1. iters \in [Iterators -> Iterator]
      BY DEF PropInv, PropTyped
    <2>2. iters' \in [Iterators -> Iterator] /\ iters'[i] = x /\ \A j \in Iterators : j # i => iters'[j] = iters[j]
      BY <1>4, <2>1
    <2>3. ASSUME NEW j \in Iterators, iters'[j] # <<>>
          PROVE  /\ iters'[j][1].walk \in 1 .. Len(walks')
                 /\ iters'[j][1].id \in Members(walks'[iters'[j][1].walk].visited)
      <3>1. CASE j = i
        BY <1>4, <1>5, <2>2, <2>3, <3>1
      <3>2. CASE j # i
        <4>1. iters'[j] = iters[j]
          BY <2>2, <3>2
        <4>2. QED
          BY <1>5, <1>8, <2>3, <4>1
      <3>3. QED
        BY <3>1, <3>2
    <2>4. QED
      BY <2>2, <2>3 DEF ItersFit
  <1>10. PropTyped'
    BY <1>5, <1>9 DEF PropInv, PropTyped, object
  <1>11. PropsFit' /\ DefiningFits'
    BY DEF PropInv, PropsFit, DefiningFits, Accessor, Has, object
  <1>12. QED
    BY <1>7, <1>9, <1>10, <1>11 DEF PropInv

-----------------------------------------------------------------------------
(* The operations. *)

LEMMA DefiningStays == ASSUME PropInv, UNCHANGED defining PROVE DefiningFits'
  BY DEF PropInv, DefiningFits

LEMMA DefiningEnds ==
  ASSUME PropInv, defining # <<>>, defining' = Tail(defining)
  PROVE  DefiningFits' /\ defining[1] \in Definition /\ "permanent_property" \notin defining[1].flags
  <1>1. PICK d, t : d = defining /\ t = Tail(defining)
    OBVIOUS
  <1>2. d \in Seq(Definition) /\ d # <<>> /\ Len(d) <= MaxDefining /\ Len(d) \in Nat
    BY <1>1 DEF PropInv, DefiningFits
  <1>3. /\ t \in Seq(Definition) /\ Len(t) = Len(d) - 1 /\ \A k \in 1 .. Len(t) : t[k] = d[k + 1]
        /\ 1 \in 1 .. Len(d) /\ d[1] \in Definition
    BY <1>1, <1>2
  <1>4. Len(t) <= MaxDefining /\ \A k \in 1 .. Len(t) : k + 1 \in 1 .. Len(d)
    BY <1>2, <1>3, BoundsAssumption
  <1>5. \A k \in 1 .. Len(d) : "permanent_property" \notin d[k].flags
    BY <1>1 DEF PropInv, DefiningFits
  <1>6. QED
    BY <1>1, <1>3, <1>4, <1>5 DEF DefiningFits

LEMMA ThrowsKeeps == ASSUME PropInv, Throws, DefiningFits' PROVE PropInv'
  BY ObjectStays DEF Throws, object, iteration, PropInv, PropTyped

LEMMA DefineKeeps ==
  ASSUME PropInv, NEW n \in Names, NEW p \in Property,
         p.get = TRUE \/ p.set = TRUE => p.val = "undefined", Define(n, p), DefiningFits'
  PROVE  PropInv'
  <1>1. CASE sealed
    BY <1>1, ThrowsKeeps DEF Define
  <1>2. CASE ~sealed
    <2>1. failed' = FALSE /\ Put(n, p) /\ UNCHANGED <<sealed, iters>>
      BY <1>2 DEF Define
    <2>2. QED
      BY <2>1, PutKeeps
  <1>3. QED
    BY <1>1, <1>2

LEMMA SetKeeps ==
  ASSUME PropInv, NEW n \in Names, set_property(n, "v")
  PROVE  PropInv'
  <1>1. DefiningFits'
    BY DefiningStays DEF set_property
  <1>2. CASE sealed
    BY <1>1, <1>2, ThrowsKeeps DEF set_property
  <1>3. CASE ~sealed /\ ~Has(n)
    <2>1. PICK p : p = [attrs |-> {"ENUMERATE"}, get |-> FALSE, set |-> FALSE, val |-> "v"]
      OBVIOUS
    <2>2. p \in Property /\ (p.get = TRUE \/ p.set = TRUE => p.val = "undefined")
      BY <2>1 DEF Property
    <2>3. failed' = FALSE /\ UNCHANGED <<sealed, iters>> /\ Put(n, p)
      BY <1>3, <2>1 DEF set_property
    <2>4. QED
      BY <1>1, <2>2, <2>3, PutKeeps
  <1>4. CASE ~sealed /\ Has(n) /\ ("READONLY" \in props[n].attrs \/ Accessor(n))
    <2>1. failed' = FALSE /\ UNCHANGED <<props, order, iters, walks, sealed>>
      BY <1>4 DEF set_property
    <2>2. sealed' \in BOOLEAN /\ failed' \in BOOLEAN
      BY <2>1 DEF PropInv, PropTyped
    <2>3. QED
      BY <1>1, <2>1, <2>2, ObjectStays
  <1>5. CASE ~sealed /\ Has(n) /\ ~("READONLY" \in props[n].attrs \/ Accessor(n))
    <2>1. /\ props' = [props EXCEPT ![n].val = "v"] /\ UNCHANGED <<order, walks, sealed, iters>>
          /\ failed' = FALSE
      BY <1>5 DEF set_property
    <2>2. QED
      BY <1>1, <1>5, <2>1, ValueKeeps
  <1>6. QED
    BY <1>2, <1>3, <1>4, <1>5

LEMMA DeletePropertyKeeps ==
  ASSUME PropInv, NEW n \in Names, delete_property(n)
  PROVE  PropInv'
  <1>1. DefiningFits'
    BY DefiningStays DEF delete_property
  <1>2. CASE sealed
    BY <1>1, <1>2, ThrowsKeeps DEF delete_property
  <1>3. CASE ~sealed /\ (Permanent(n) \/ ~Has(n))
    <2>1. failed' = FALSE /\ UNCHANGED <<props, order, iters, walks, sealed>>
      BY <1>3 DEF delete_property
    <2>2. sealed' \in BOOLEAN /\ failed' \in BOOLEAN
      BY <2>1 DEF PropInv, PropTyped
    <2>3. QED
      BY <1>1, <2>1, <2>2, ObjectStays
  <1>4. CASE ~sealed /\ ~(Permanent(n) \/ ~Has(n))
    <2>1. /\ props' = [props EXCEPT ![n] = NoProp]
          /\ \E k \in DOMAIN order : order[k] = n /\ order' = RemoveAt(order, k)
          /\ walks' = Disturbed(n) /\ UNCHANGED <<sealed, iters>> /\ failed' = FALSE
      BY <1>4 DEF delete_property
    <2>2. PICK k \in DOMAIN order : order[k] = n /\ order' = RemoveAt(order, k)
      BY <2>1
    <2>3. QED
      BY <1>1, <1>4, <2>1, <2>2, DeleteKeeps
  <1>5. QED
    BY <1>2, <1>3, <1>4

LEMMA HostDefineKeeps ==
  ASSUME PropInv, NEW n \in Names, NEW flags, define_property(n, flags)
  PROVE  PropInv'
  <1>1. DefiningFits'
    BY DefiningStays DEF define_property
  <1>2. PICK p : p = [attrs |-> Attributes(flags), get |-> FALSE, set |-> FALSE, val |-> "v"]
    OBVIOUS
  <1>3. p \in Property /\ (p.get = TRUE \/ p.set = TRUE => p.val = "undefined")
    BY <1>2 DEF Property, Attributes
  <1>4. Define(n, p)
    BY <1>2 DEF define_property
  <1>5. QED
    BY <1>1, <1>3, <1>4, DefineKeeps

LEMMA BeginKeeps ==
  ASSUME PropInv, NEW n \in Names, NEW desc \in Descriptors, DefineBegin(n, desc)
  PROVE  PropInv'
  <1>1. CASE Permanent(n)
    <2>1. Throws /\ UNCHANGED defining
      BY <1>1 DEF DefineBegin
    <2>2. QED
      BY <2>1, ThrowsKeeps, DefiningStays
  <1>2. CASE ~Permanent(n)
    <2>1. PICK fl, cu : /\ fl = IF Has(n) THEN get_property_attributes(props[n]) ELSE {"dont_enumerate"}
                        /\ cu = Has(n)
      OBVIOUS
    <2>2. fl \in SUBSET Flags /\ "permanent_property" \notin fl
      <3>1. CASE Has(n)
        BY <1>2, <2>1, <3>1 DEF Permanent, get_property_attributes, Flags
      <3>2. CASE ~Has(n)
        BY <2>1, <3>2 DEF Flags
      <3>3. QED
        BY <3>1, <3>2
    <2>3. cu \in BOOLEAN
      BY <2>1 DEF Has
    <2>4. PICK d, e, d2 : /\ d = defining /\ e = [name |-> n, desc |-> desc, flags |-> fl, current |-> cu]
                          /\ d2 = <<e>> \o d
      OBVIOUS
    <2>5. defining' = d2 /\ failed' = FALSE /\ UNCHANGED <<object, iteration>> /\ Len(d) < MaxDefining
      BY <1>2, <2>1, <2>4 DEF DefineBegin, MayBegin
    <2>6. e \in Definition /\ e.flags = fl
      BY <2>2, <2>3, <2>4, PropertyAssumption DEF Definition
    <2>7. d \in Seq(Definition) /\ Len(d) \in Nat /\ \A k \in 1 .. Len(d) : "permanent_property" \notin d[k].flags
      BY <2>4 DEF PropInv, DefiningFits
    <2>8. /\ d2 \in Seq(Definition) /\ Len(d2) = Len(d) + 1 /\ d2[1] = e
          /\ \A k \in 2 .. Len(d) + 1 : d2[k] = d[k - 1]
      BY <2>4, <2>6, <2>7
    <2>9. Len(d2) <= MaxDefining
      BY <2>5, <2>7, <2>8, BoundsAssumption
    <2>10. ASSUME NEW k \in 1 .. Len(d2) PROVE "permanent_property" \notin d2[k].flags
      <3>1. k = 1 \/ (k \in 2 .. Len(d) + 1 /\ k - 1 \in 1 .. Len(d))
        BY <2>7, <2>8
      <3>2. QED
        BY <2>2, <2>6, <2>7, <2>8, <3>1
    <2>11. DefiningFits'
      BY <2>5, <2>8, <2>9, <2>10 DEF DefiningFits
    <2>12. UNCHANGED <<props, order, iters, walks>> /\ sealed' \in BOOLEAN /\ failed' \in BOOLEAN
      BY <2>5 DEF object, iteration, PropInv, PropTyped
    <2>13. QED
      BY <2>11, <2>12, ObjectStays
  <1>3. QED
    BY <1>1, <1>2

\* What a definition makes of its descriptor is a property.
LEMMA NewPropFits ==
  ASSUME PropInv, NEW d \in Definition, ~Rejected(d.desc)
  PROVE  /\ NewProp(d) \in Property
         /\ NewProp(d).get = TRUE \/ NewProp(d).set = TRUE => NewProp(d).val = "undefined"
  <1>1. /\ d.desc \in Descriptor /\ d.name \in Names
        /\ d.desc.getter \in {"none", "function", "bad"} /\ d.desc.value \in BOOLEAN
    BY PropertyAssumption DEF Definition, Descriptor
  <1>2. PICK at, g, s, v :
          /\ at = Attributes(NewFlags(d.flags, d.desc))
          /\ g = (d.desc.getter = "function") /\ s = (d.desc.setter = "function")
          /\ v = (IF d.desc.value THEN "w"
                  ELSE IF d.current /\ ~IsAccessor(d.desc) /\ Has(d.name) /\ ~Accessor(d.name)
                  THEN props[d.name].val
                  ELSE "undefined")
    OBVIOUS
  <1>3. PICK p : p = [attrs |-> at, get |-> g, set |-> s, val |-> v]
    OBVIOUS
  <1>4. NewProp(d) = p
    BY ONLY <1>2, <1>3 DEF NewProp
  <1>5. at \in SUBSET {"ENUMERATE", "READONLY", "PERMANENT"}
    BY <1>2 DEF Attributes
  <1>6. g \in BOOLEAN /\ s \in BOOLEAN
    BY <1>2
  <1>7. Has(d.name) => props[d.name].val \in {"v", "w", "undefined"}
    BY <1>1 DEF Has, PropInv, PropTyped, Property
  <1>8. v \in {"v", "w", "undefined"}
    BY <1>2, <1>7
  <1>9. ASSUME g = TRUE \/ s = TRUE PROVE v = "undefined"
    <2>1. IsAccessor(d.desc)
      <3>1. CASE g = TRUE
        BY <1>2, <3>1 DEF IsAccessor
      <3>2. CASE s = TRUE
        BY <1>2, <3>2 DEF IsAccessor
      <3>3. QED
        BY <1>9, <3>1, <3>2
    <2>2. ~IsData(d.desc)
      BY <2>1 DEF Rejected
    <2>3. ~d.desc.value
      BY <2>2 DEF IsData
    <2>4. QED
      BY <1>2, <2>1, <2>3
  <1>10. QED
    <2>1. p \in Property
      BY ONLY <1>3, <1>5, <1>6, <1>8 DEF Property
    <2>2. p.get = g /\ p.set = s /\ p.val = v
      BY ONLY <1>3
    <2>3. p.get = TRUE \/ p.set = TRUE => p.val = "undefined"
      BY ONLY <1>9, <2>2
    <2>4. QED
      BY ONLY <1>4, <2>1, <2>3

LEMMA EndKeeps ==
  ASSUME PropInv, DefineEnd
  PROVE  PropInv'
  <1>1. DefiningFits' /\ defining[1] \in Definition
    BY DefiningEnds DEF DefineEnd
  <1>2. CASE Rejected(defining[1].desc)
    BY <1>1, <1>2, ThrowsKeeps DEF DefineEnd
  <1>3. CASE ~Rejected(defining[1].desc)
    <2>1. PICK p, n : p = NewProp(defining[1]) /\ n = defining[1].name
      OBVIOUS
    <2>2. p \in Property /\ (p.get = TRUE \/ p.set = TRUE => p.val = "undefined") /\ n \in Names
      BY <1>1, <1>3, <2>1, NewPropFits DEF Definition
    <2>3. Define(n, p)
      BY <1>3, <2>1 DEF DefineEnd
    <2>4. QED
      BY <1>1, <2>2, <2>3, DefineKeeps
  <1>4. QED
    BY <1>2, <1>3

LEMMA DefineThrowsKeeps ==
  ASSUME PropInv, DefineThrows
  PROVE  PropInv'
  BY DefiningEnds, ThrowsKeeps DEF DefineThrows

LEMMA SealKeeps == ASSUME PropInv, seal PROVE PropInv'
  BY ObjectStays, DefiningStays DEF seal, iteration

\* An iteration begins with a walk over what is there.
LEMMA WalkBegins ==
  ASSUME PropInv, NEW i \in Iterators, begin(i)
  PROVE  PropInv'
  <1>1. PICK o, ws, f, r, ws2 :
          /\ o = order /\ ws = walks /\ f = {n \in Names : Enumerable(n)}
          /\ r = [left |-> o, visited |-> <<>>, unsure |-> {}, ended |-> FALSE, first |-> f]
          /\ ws2 = Append(ws, r)
    OBVIOUS
  <1>2. /\ o \in Seq(Names) /\ ws \in Seq(Walk) /\ Len(ws) \in Nat /\ f \subseteq Names
        /\ Differ(o) /\ Members(o) = {n \in Names : Has(n)} /\ f = Shown
    BY <1>1 DEF PropInv, PropTyped, PropsFit, Shown
  <1>3. /\ r \in Walk /\ r.left = o /\ r.visited = <<>> /\ r.unsure = {} /\ r.ended = FALSE /\ r.first = f
    <2>1. <<>> \in Seq(Names) /\ {} \in SUBSET Names /\ FALSE \in BOOLEAN
      OBVIOUS
    <2>2. QED
      BY ONLY <1>1, <1>2, <2>1 DEF Walk
  <1>4. f \subseteq Members(o)
    BY <1>2 DEF Shown, Enumerable
  <1>5. Members(r.visited) = {} /\ Differ(r.visited)
    BY <1>3 DEF Members, Differ
  <1>6. WalkFits(r, Shown)
    BY <1>2, <1>3, <1>4, <1>5 DEF WalkFits
  <1>7. /\ ws2 \in Seq(Walk) /\ Len(ws2) = Len(ws) + 1 /\ ws2[Len(ws) + 1] = r
        /\ \A u \in 1 .. Len(ws) : ws2[u] = ws[u]
    BY <1>1, <1>2, <1>3, PushOne
  <1>8. \A u \in 1 .. Len(ws2) : u \in 1 .. Len(ws) \/ u = Len(ws) + 1
    BY <1>2, <1>7
  <1>9. \A u \in 1 .. Len(ws2) : WalkFits(ws2[u], Shown)
    BY <1>1, <1>6, <1>7, <1>8 DEF PropInv, WalksFit
  <1>10. \A j \in Iterators : iters[j] # <<>> =>
           /\ iters[j][1].walk \in 1 .. Len(ws2)
           /\ iters[j][1].id \in Members(ws2[iters[j][1].walk].visited)
    BY <1>1, <1>2, <1>7 DEF PropInv, ItersFit
  <1>11. Len(ws2) <= MaxWalks /\ Len(ws) + 1 \in 1 .. Len(ws2)
    BY <1>1, <1>2, <1>7, BoundsAssumption DEF begin
  <1>12. /\ Step(i, Len(ws) + 1, ws2) /\ failed' = FALSE /\ UNCHANGED <<object, defining>>
    BY <1>1 DEF begin
  <1>13. QED
    BY <1>7, <1>9, <1>10, <1>11, <1>12, StepKeeps

LEMMA IncrementKeeps ==
  ASSUME PropInv, NEW i \in Iterators, increment(i)
  PROVE  PropInv'
  <1>1. PICK ws, w : ws = walks /\ w = iters[i][1].walk
    OBVIOUS
  <1>2. ws \in Seq(Walk) /\ w \in 1 .. Len(ws) /\ Len(ws) <= MaxWalks
    BY <1>1 DEF PropInv, PropTyped, ItersFit, increment
  <1>3. Step(i, w, ws) /\ failed' = FALSE /\ UNCHANGED <<object, defining>>
    BY <1>1 DEF increment
  <1>4. /\ \A u \in 1 .. Len(ws) : WalkFits(ws[u], Shown)
        /\ \A j \in Iterators : iters[j] # <<>> =>
             /\ iters[j][1].walk \in 1 .. Len(ws)
             /\ iters[j][1].id \in Members(ws[iters[j][1].walk].visited)
    BY <1>1 DEF PropInv, WalksFit, ItersFit
  <1>5. QED
    BY <1>2, <1>3, <1>4, StepKeeps

LEMMA CollectKeeps ==
  ASSUME PropInv, Collect
  PROVE  PropInv'
  <1>1. walks' \in Seq(Walk) /\ Len(walks') = 0 /\ Len(walks') <= MaxWalks
    BY BoundsAssumption DEF Collect
  <1>2. PropTyped'
    BY <1>1 DEF PropInv, PropTyped, Collect, object
  <1>3. PropsFit' /\ DefiningFits'
    BY DEF PropInv, PropsFit, DefiningFits, Accessor, Has, Collect, object
  <1>4. WalksFit'
    BY <1>1 DEF WalksFit
  <1>5. ItersFit'
    BY DEF ItersFit, Collect
  <1>6. QED
    BY <1>2, <1>3, <1>4, <1>5 DEF PropInv

LEMMA CopyKeeps ==
  ASSUME PropInv, NEW i \in Iterators, NEW j \in Iterators, copy(i, j)
  PROVE  PropInv'
  <1>1. iters \in [Iterators -> Iterator] /\ iters' = [iters EXCEPT ![j] = iters[i]]
    BY DEF PropInv, PropTyped, copy
  <1>2. /\ iters' \in [Iterators -> Iterator]
        /\ \A k \in Iterators : iters'[k] = iters[k] \/ iters'[k] = iters[i]
    BY <1>1
  <1>3. PropTyped'
    BY <1>2 DEF PropInv, PropTyped, copy, object
  <1>4. PropsFit' /\ DefiningFits'
    BY DEF PropInv, PropsFit, DefiningFits, Accessor, Has, copy, object
  <1>5. Shown' = Shown
    BY DEF Shown, Enumerable, Has, copy, object
  <1>6. WalksFit'
    BY <1>5 DEF PropInv, WalksFit, copy
  <1>7. ItersFit'
    BY <1>2 DEF PropInv, ItersFit, copy
  <1>8. QED
    BY <1>3, <1>4, <1>6, <1>7 DEF PropInv

-----------------------------------------------------------------------------
(* The theorems. *)

LEMMA PropInitInv == ASSUME PropInit PROVE PropInv
  <1>1. PropTyped
    <2>1. Len(walks) = 0 /\ walks \in Seq(Walk) /\ order \in Seq(Names)
      BY DEF PropInit
    <2>2. iters \in [Iterators -> Iterator]
      BY DEF PropInit, Iterator
    <2>3. Len(walks) <= MaxWalks
      BY <2>1, BoundsAssumption
    <2>4. props \in [Names -> Property \cup {NoProp}] /\ sealed \in BOOLEAN /\ failed \in BOOLEAN
      BY DEF PropInit
    <2>5. QED
      BY <2>1, <2>2, <2>3, <2>4 DEF PropTyped
  <1>2. PropsFit
    BY DEF PropInit, PropsFit, Accessor, Has, Differ, Members
  <1>3. DefiningFits
    <2>1. defining \in Seq(Definition) /\ Len(defining) = 0
      BY DEF PropInit
    <2>2. QED
      BY <2>1, BoundsAssumption DEF DefiningFits
  <1>4. WalksFit /\ ItersFit
    BY DEF PropInit, WalksFit, ItersFit
  <1>5. QED
    BY <1>1, <1>2, <1>3, <1>4 DEF PropInv

LEMMA PropNextInv == ASSUME PropInv, PropNext PROVE PropInv'
  <1>1. ASSUME NEW n \in Names, set_property(n, "v") PROVE PropInv'
    BY <1>1, SetKeeps
  <1>2. ASSUME NEW n \in Names, delete_property(n) PROVE PropInv'
    BY <1>2, DeletePropertyKeeps
  <1>3. ASSUME NEW n \in Names, NEW flags, define_property(n, flags) PROVE PropInv'
    BY <1>3, HostDefineKeeps
  <1>4. ASSUME NEW n \in Names, NEW desc \in Descriptors, DefineBegin(n, desc) PROVE PropInv'
    BY <1>4, BeginKeeps
  <1>5. ASSUME DefineEnd PROVE PropInv'
    BY <1>5, EndKeeps
  <1>6. ASSUME DefineThrows PROVE PropInv'
    BY <1>6, DefineThrowsKeeps
  <1>7. ASSUME Collect PROVE PropInv'
    BY <1>7, CollectKeeps
  <1>8. ASSUME seal PROVE PropInv'
    BY <1>8, SealKeeps
  <1>9. ASSUME NEW i \in Iterators, begin(i) PROVE PropInv'
    BY <1>9, WalkBegins
  <1>10. ASSUME NEW i \in Iterators, increment(i) PROVE PropInv'
    BY <1>10, IncrementKeeps
  <1>11. ASSUME NEW i \in Iterators, NEW j \in Iterators, copy(i, j) PROVE PropInv'
    BY <1>11, CopyKeeps
  <1>12. QED
    BY <1>1, <1>2, <1>3, <1>4, <1>5, <1>6, <1>7, <1>8, <1>9, <1>10, <1>11 DEF PropNext

LEMMA PropStutters == ASSUME PropInv, UNCHANGED propVars PROVE PropInv'
  BY ObjectStays, DefiningStays DEF propVars, PropInv, PropTyped

LEMMA PropInvSound == ASSUME PropInv PROVE PropertiesSound
  <1>1. PropTypeOK
    <2>1. ToSet(order) = {n \in Names : Has(n)} /\ Len(order) = Cardinality(ToSet(order))
      <3>1. order \in Seq(Names) /\ Differ(order) /\ Members(order) = {n \in Names : Has(n)}
        BY DEF PropInv, PropTyped, PropsFit
      <3>2. ToSet(order) = Members(order)
        BY <3>1, ToSetMembers
      <3>3. Cardinality(Members(order)) = Len(order)
        BY <3>1, AllDifferent DEF Differ, Members
      <3>4. QED
        BY <3>1, <3>2, <3>3
    <2>2. \A i \in Iterators : iters[i] # <<>> => iters[i][1].walk \in DOMAIN walks
      BY DEF PropInv, PropTyped, ItersFit
    <2>3. QED
      BY <2>1, <2>2 DEF PropTypeOK, PropInv, PropTyped, PropsFit, DefiningFits
  <1>2. VisitsOnce
    <2>1. walks \in Seq(Walk) /\ DOMAIN walks = 1 .. Len(walks)
      BY DEF PropInv, PropTyped
    <2>2. ASSUME NEW w \in DOMAIN walks
          PROVE  LET seen == walks[w].visited IN
                 /\ Cardinality(ToSet(seen)) = Len(seen)
                 /\ ToSet(seen) \subseteq walks[w].first \cup walks[w].unsure
                 /\ walks[w].ended => walks[w].first \ walks[w].unsure \subseteq ToSet(seen)
                 /\ \A i \in Iterators : (iters[i] # <<>> /\ iters[i][1].walk = w)
                       => iters[i][1].id \in ToSet(seen)
      <3>1. PICK r, v : r = walks[w] /\ v = walks[w].visited
        OBVIOUS
      <3>2. r \in Walk /\ WalkFits(r, Shown) /\ v = r.visited
        BY <2>1, <3>1 DEF PropInv, WalksFit
      <3>3. v \in Seq(Names) /\ Differ(v)
        BY <3>2 DEF Walk, WalkFits
      <3>4. ToSet(v) = Members(v) /\ Cardinality(Members(v)) = Len(v)
        BY <3>3, ToSetMembers, AllDifferent DEF Differ, Members
      <3>5. Members(v) \subseteq r.first \cup r.unsure
        BY <3>2 DEF WalkFits
      <3>6. r.ended => r.first \ r.unsure \subseteq Members(v)
        <4>1. ASSUME r.ended = TRUE PROVE r.first \ r.unsure \subseteq Members(v)
          <5>1. r.left = <<>>
            BY <3>2, <4>1 DEF WalkFits
          <5>2. Members(r.left) = {}
            BY <5>1 DEF Members
          <5>3. QED
            BY <3>2, <5>2 DEF WalkFits
        <4>2. r.ended \in BOOLEAN
          BY <3>2 DEF Walk
        <4>3. QED
          BY <4>1, <4>2
      <3>7. \A i \in Iterators : (iters[i] # <<>> /\ iters[i][1].walk = w) => iters[i][1].id \in Members(v)
        BY <3>1 DEF PropInv, ItersFit
      <3>8. QED
        BY <3>1, <3>4, <3>5, <3>6, <3>7
    <2>3. QED
      BY <2>2 DEF VisitsOnce
  <1>3. QED
    BY <1>1, <1>2 DEF PropertiesSound

(***************************************************************************)
(* The properties of an object are listed once each, what has a getter or  *)
(* a setter has no value, and an iterator and its copies visit together    *)
(* each enumerable property once (property_iterator::increment, and what   *)
(* object::define_property and its kin make of properties).                *)
(***************************************************************************)
THEOREM PropertiesSoundHolds == PropSpec => []PropertiesSound
  <1>1. PropInit => PropInv
    BY PropInitInv
  <1>2. PropInv /\ [PropNext]_propVars => PropInv'
    BY PropNextInv, PropStutters
  <1>3. PropInv => PropertiesSound
    BY PropInvSound
  <1>4. QED
    BY <1>1, <1>2, <1>3, PTL DEF PropSpec

-----------------------------------------------------------------------------
(* What a step may do to a property that is permanent. *)

LEMMA OthersStay ==
  ASSUME NEW n \in Names, props'[n] = props[n], Permanent(n)
  PROVE  Stays(n)
  BY DEF Stays, Permanent, Has

LEMMA NothingChanges ==
  ASSUME UNCHANGED object
  PROVE  PermanentStays
  BY OthersStay DEF PermanentStays, object

LEMMA ThrowsKeepsAll ==
  ASSUME Throws
  PROVE  PermanentStays /\ FailureChangesNothing
  BY NothingChanges DEF Throws, FailureChangesNothing

LEMMA OnlyOne ==
  ASSUME PropInv, NEW n \in Names, NEW p, Define(n, p),
         Permanent(n) => HostDefines(n) \/ Overtaken(n)
  PROVE  PermanentStays /\ FailureChangesNothing
  <1>1. CASE sealed
    BY <1>1, ThrowsKeepsAll DEF Define
  <1>2. CASE ~sealed
    <2>1. failed' = FALSE /\ props' = [props EXCEPT ![n] = p]
      BY <1>2 DEF Define, Put
    <2>2. \A m \in Names \ {n} : props'[m] = props[m]
      BY <2>1 DEF PropInv, PropTyped
    <2>3. \A m \in Names \ {n} : Permanent(m) => Stays(m)
      BY <2>2, OthersStay
    <2>4. QED
      BY <1>2, <2>1, <2>3 DEF PermanentStays, FailureChangesNothing
  <1>3. QED
    BY <1>1, <1>2

LEMMA SetKeepsPromise ==
  ASSUME PropInv, NEW n \in Names, set_property(n, "v")
  PROVE  PermanentStays /\ FailureChangesNothing
  <1>1. CASE sealed
    BY <1>1, ThrowsKeepsAll DEF set_property
  <1>2. CASE ~sealed
    <2>1. failed' = FALSE
      BY <1>2 DEF set_property
    <2>2. ASSUME NEW m \in Names, Permanent(m) PROVE Stays(m)
      <3>1. CASE ~Has(n)
        <4>1. m # n
          BY <2>2, <3>1 DEF Permanent
        <4>2. props'[m] = props[m]
          BY <1>2, <3>1, <4>1 DEF set_property, Put, PropInv, PropTyped
        <4>3. QED
          BY <2>2, <4>2, OthersStay
      <3>2. CASE Has(n) /\ ("READONLY" \in props[n].attrs \/ Accessor(n))
        BY <1>2, <2>2, <3>2, OthersStay DEF set_property
      <3>3. CASE Has(n) /\ ~("READONLY" \in props[n].attrs \/ Accessor(n))
        <4>1. props' = [props EXCEPT ![n].val = "v"]
          BY <1>2, <3>3 DEF set_property
        <4>2. props \in [Names -> Property \cup {NoProp}]
          BY DEF PropInv, PropTyped
        <4>3. CASE m # n
          BY <2>2, <4>1, <4>2, <4>3, OthersStay
        <4>4. CASE m = n
          <5>1. PICK p, q : p = props[n] /\ q = [props[n] EXCEPT !.val = "v"]
            OBVIOUS
          <5>2. p \in Property
            BY <3>3, <4>2, <5>1 DEF Has
          <5>3. /\ props'[n] = q /\ q \in Property
                /\ q.attrs = p.attrs /\ q.get = p.get /\ q.set = p.set
            BY <4>1, <4>2, <5>1, <5>2 DEF Property
          <5>4. q # NoProp
            BY <5>3, PropertyAssumption
          <5>5. "PERMANENT" \in p.attrs /\ "READONLY" \notin p.attrs
            BY <2>2, <3>3, <4>4, <5>1 DEF Permanent
          <5>6. QED
            BY <4>4, <5>1, <5>3, <5>4, <5>5 DEF Stays, Permanent, Has
        <4>5. QED
          BY <4>3, <4>4
      <3>4. QED
        BY <3>1, <3>2, <3>3
    <2>3. QED
      BY <1>2, <2>1, <2>2 DEF PermanentStays, FailureChangesNothing
  <1>3. QED
    BY <1>1, <1>2

LEMMA DeleteKeepsPromise ==
  ASSUME PropInv, NEW n \in Names, delete_property(n)
  PROVE  PermanentStays /\ FailureChangesNothing
  <1>1. CASE sealed
    BY <1>1, ThrowsKeepsAll DEF delete_property
  <1>2. CASE ~sealed
    <2>1. failed' = FALSE
      BY <1>2 DEF delete_property
    <2>2. ASSUME NEW m \in Names, Permanent(m) PROVE props'[m] = props[m]
      <3>1. CASE Permanent(n) \/ ~Has(n)
        BY <1>2, <3>1 DEF delete_property
      <3>2. CASE ~(Permanent(n) \/ ~Has(n))
        <4>1. props' = [props EXCEPT ![n] = NoProp] /\ m # n
          BY <1>2, <2>2, <3>2 DEF delete_property
        <4>2. QED
          BY <4>1 DEF PropInv, PropTyped
      <3>3. QED
        BY <3>1, <3>2
    <2>3. QED
      BY <1>2, <2>1, <2>2, OthersStay DEF PermanentStays, FailureChangesNothing
  <1>3. QED
    BY <1>1, <1>2

LEMMA HostDefineKeepsPromise ==
  ASSUME PropInv, NEW n \in Names, NEW flags \in SUBSET Flags, define_property(n, flags)
  PROVE  PermanentStays /\ FailureChangesNothing
  <1>1. HostDefines(n)
    BY DEF HostDefines
  <1>2. PICK p : p = [attrs |-> Attributes(flags), get |-> FALSE, set |-> FALSE, val |-> "v"]
    OBVIOUS
  <1>3. Define(n, p)
    BY <1>2 DEF define_property
  <1>4. QED
    BY <1>1, <1>3, OnlyOne

LEMMA EndKeepsPromise ==
  ASSUME PropInv, DefineEnd
  PROVE  PermanentStays /\ FailureChangesNothing
  <1>1. defining[1] \in Definition /\ "permanent_property" \notin defining[1].flags
    BY DefiningEnds DEF DefineEnd
  <1>2. CASE Rejected(defining[1].desc)
    BY <1>2, ThrowsKeepsAll DEF DefineEnd
  <1>3. CASE ~Rejected(defining[1].desc)
    <2>1. PICK p, n : p = NewProp(defining[1]) /\ n = defining[1].name
      OBVIOUS
    <2>2. Len(defining') < Len(defining)
      BY DEF DefineEnd, PropInv, DefiningFits
    <2>3. n \in Names /\ Overtaken(n)
      BY <1>1, <2>1, <2>2 DEF Overtaken, Definition, DefineEnd
    <2>4. Define(n, p)
      BY <1>3, <2>1 DEF DefineEnd
    <2>5. QED
      BY <2>3, <2>4, OnlyOne
  <1>4. QED
    BY <1>2, <1>3

LEMMA PromiseKept ==
  ASSUME PropInv, PropNext
  PROVE  PermanentStays /\ FailureChangesNothing
  <1>1. ASSUME NEW n \in Names, set_property(n, "v") PROVE PermanentStays /\ FailureChangesNothing
    BY <1>1, SetKeepsPromise
  <1>2. ASSUME NEW n \in Names, delete_property(n) PROVE PermanentStays /\ FailureChangesNothing
    BY <1>2, DeleteKeepsPromise
  <1>3. ASSUME NEW n \in Names, NEW flags \in SUBSET Flags, define_property(n, flags)
        PROVE  PermanentStays /\ FailureChangesNothing
    BY <1>3, HostDefineKeepsPromise
  <1>4. ASSUME NEW n \in Names, NEW desc \in Descriptors, DefineBegin(n, desc)
        PROVE  PermanentStays /\ FailureChangesNothing
    <2>1. Throws \/ (failed' = FALSE /\ UNCHANGED <<object, iteration>>)
      BY <1>4 DEF DefineBegin
    <2>2. QED
      BY <2>1, ThrowsKeepsAll, NothingChanges DEF FailureChangesNothing
  <1>5. ASSUME DefineEnd PROVE PermanentStays /\ FailureChangesNothing
    BY <1>5, EndKeepsPromise
  <1>6. ASSUME DefineThrows PROVE PermanentStays /\ FailureChangesNothing
    BY <1>6, ThrowsKeepsAll DEF DefineThrows
  <1>7. ASSUME seal PROVE PermanentStays /\ FailureChangesNothing
    <2>1. failed' = FALSE /\ UNCHANGED <<props, order>> /\ sealed' = TRUE
      BY <1>7 DEF seal
    <2>2. \A n \in Names : Permanent(n) => Stays(n)
      BY <2>1, OthersStay
    <2>3. sealed \in BOOLEAN
      BY DEF PropInv, PropTyped
    <2>4. QED
      BY <2>1, <2>2, <2>3 DEF PermanentStays, FailureChangesNothing, object
  <1>8. ASSUME NEW i \in Iterators, NEW j \in Iterators, begin(i) \/ increment(i) \/ copy(i, j) \/ Collect
        PROVE  PermanentStays /\ FailureChangesNothing
    <2>1. failed' = FALSE /\ UNCHANGED object
      BY <1>8 DEF begin, increment, copy, Collect
    <2>2. QED
      BY <2>1, NothingChanges DEF FailureChangesNothing
  <1>9. ASSUME Collect PROVE PermanentStays /\ FailureChangesNothing
    <2>1. failed' = FALSE /\ UNCHANGED object
      BY <1>9 DEF Collect
    <2>2. QED
      BY <2>1, NothingChanges DEF FailureChangesNothing
  <1>10. {"dont_enumerate"} \in SUBSET Flags /\ {"permanent_property", "read_only_property"} \in SUBSET Flags
    BY DEF Flags
  <1>11. QED
    BY <1>1, <1>2, <1>3, <1>4, <1>5, <1>6, <1>7, <1>8, <1>9, <1>10 DEF PropNext

(***************************************************************************)
(* A permanent property keeps its attributes, and its value if it is       *)
(* read-only, unless C++ defines it again or a defineProperty under way    *)
(* began before it was permanent; nothing changes a sealed object; what    *)
(* throws has changed nothing (ecma_define_own_property, set_property,     *)
(* delete_property).                                                       *)
(***************************************************************************)
THEOREM DefinitionsKeepHolds == PropSpec => DefinitionsKeep
  <1>1. PropInit => PropInv
    BY PropInitInv
  <1>2. PropInv /\ [PropNext]_propVars => PropInv'
    BY PropNextInv, PropStutters
  <1>3. PropInv /\ [PropNext]_propVars => [PermanentStays /\ FailureChangesNothing]_propVars
    BY PromiseKept
  <1>4. QED
    BY <1>1, <1>2, <1>3, PTL DEF PropSpec, DefinitionsKeep

-----------------------------------------------------------------------------
(* Values, roots and lists of arguments: the invariant. *)

ValueRec == [val : Things, ref : Place, root : BOOLEAN]
KeptRec == [val : Things, ref : Place]
ListRec == [vector : Seq(Things), n : Nat, argv : List \cup {"null", "frame", "lost"},
            roots : SUBSET Root, guarded : BOOLEAN, exists : BOOLEAN]

Live == alive \cup {Void}

\* The slots of the call hold what is alive.
FrameFits ==
  frame # None =>
    /\ frame \in [{0} -> Things] \cup [{0, 1} -> Things]
    /\ \A i \in DOMAIN frame : frame[i] \in Live

CellsFit == cells \subseteq Cell /\ alive \subseteq cells

\* A value is bound to its own member or to a slot that there is; a root to
\* nothing else, and the engine knows of a root's own member.
ValueFits(v) ==
  LET r == values[v]
  IN  r # None =>
        /\ r.ref[1] = "own" => r.ref = OwnSlot(v)
        /\ r.ref[1] = "frame" => r.ref[2] \in DOMAIN frame
        /\ r.root = TRUE =>
             /\ r.ref[1] \in {"own", "frame"}
             /\ r.ref = OwnSlot(v) => r.ref \in rooted /\ r.val \in Live
ValuesFit ==
  values \in [Variable -> ValueRec \cup {None}] /\ \A v \in Variable : ValueFits(v)

\* So does it of the roots of lists.
KeptFits(k) ==
  LET r == kept[k]
  IN  r # None =>
        \/ r.ref = Member(k) /\ r.ref \in rooted /\ r.val \in Live
        \/ \E i \in DOMAIN frame : r.ref = Frame(i)
KeptFit ==
  kept \in [Root -> KeptRec \cup {None}] /\ \A k \in Root : KeptFits(k)

\* It knows of nothing else.
RootedFit ==
  \A s \in rooted :
    \/ \E v \in Variable : values[v] # None /\ values[v].root = TRUE /\ values[v].ref = s
    \/ \E k \in Root : kept[k] # None /\ kept[k].ref = s

\* A list has its own elements, the engine's or none.
ListIs(l, r) ==
  /\ Len(r.vector) <= MaxItems
  /\ \/ r.argv = l /\ r.n = Len(r.vector)
     \/ r.argv = "frame" /\ r.vector = <<>> /\ r.n = Cardinality(DOMAIN frame) - 1
     \/ r.argv = "null" /\ r.vector = <<>> /\ r.n = 0 /\ r.roots = {}
ListsFit ==
  lists \in [List -> ListRec] /\ \A l \in List : ListIs(l, lists[l])

\* Its roots are there, and guard its elements.
ItemsFit(l) ==
  /\ \A k \in lists[l].roots : kept[k] # None
  /\ lists[l].guarded = TRUE =>
       \A i \in DOMAIN lists[l].vector :
         \E k \in lists[l].roots : Read(kept[k].ref) = lists[l].vector[i]

\* Between calls there is nothing.
BetweenFits ==
  frame = None =>
    /\ \A v \in Variable : values[v] = None
    /\ \A l \in List : lists[l] = NoList
    /\ \A k \in Root : kept[k] = None

ArgInv ==
  /\ FrameFits /\ CellsFit /\ ValuesFit /\ KeptFit /\ RootedFit
  /\ ListsFit /\ (\A l \in List : ItemsFit(l)) /\ BetweenFits

-----------------------------------------------------------------------------
(* The lemmas about slots. *)

LEMMA Places ==
  /\ \A i : Frame(i)[1] = "frame" /\ Frame(i)[2] = i
  /\ \A v : OwnSlot(v)[1] = "own" /\ OwnSlot(v)[2] = v
  /\ \A k : Member(k)[1] = "kept" /\ Member(k)[2] = k
  /\ \A l, i : Element(l, i)[1] = "vector" /\ Element(l, i)[2] = l /\ Element(l, i)[3] = i
  /\ Lost[1] = "lost"
  BY DEF Frame, OwnSlot, Member, Element, Lost

LEMMA Reads ==
  /\ \A i : Read(Frame(i)) = frame[i]
  /\ \A v : Read(OwnSlot(v)) = values[v].val
  /\ \A k : Read(Member(k)) = kept[k].val
  BY Places DEF Read

LEMMA ReadsNext ==
  /\ \A i : Read(Frame(i))' = frame'[i]
  /\ \A v : Read(OwnSlot(v))' = values'[v].val
  /\ \A k : Read(Member(k))' = kept'[k].val
  BY Places DEF Read

\* A slot is one of these.
LEMMA PlaceIs ==
  ASSUME NEW s \in Place
  PROVE  /\ s[1] = "frame" => s = Frame(s[2]) /\ s[2] \in {0, 1}
         /\ s[1] = "own" => s = OwnSlot(s[2]) /\ s[2] \in Variable
         /\ s[1] = "kept" => s = Member(s[2]) /\ s[2] \in Root
         /\ s[1] = "vector" => s = Element(s[2], s[3]) /\ s[2] \in List
         /\ s[1] = "lost" => s = Lost
         /\ s[1] \in {"frame", "own", "kept", "vector", "lost"}
  BY Places DEF Place

LEMMA ValueTypes ==
  ASSUME ValuesFit, NEW v \in Variable, values[v] # None
  PROVE  /\ values[v] \in ValueRec
         /\ values[v].val \in Things /\ values[v].ref \in Place /\ values[v].root \in BOOLEAN
  BY DEF ValuesFit, ValueRec

LEMMA ListTypes ==
  ASSUME ListsFit, NEW l \in List
  PROVE  /\ lists[l] \in ListRec
         /\ lists[l].vector \in Seq(Things) /\ lists[l].n \in Nat
         /\ lists[l].argv \in List \cup {"null", "frame", "lost"}
         /\ lists[l].roots \subseteq Root
         /\ lists[l].guarded \in BOOLEAN /\ lists[l].exists \in BOOLEAN
         /\ ListIs(l, lists[l])
  BY DEF ListsFit, ListRec

\* What a root guards is alive.
LEMMA KeptAlive ==
  ASSUME ArgInv, NEW k \in Root, kept[k] # None
  PROVE  Read(kept[k].ref) \in Live
  <1>1. KeptFits(k)
    BY DEF ArgInv, KeptFit
  <1>2. CASE kept[k].ref = Member(k) /\ kept[k].val \in Live
    BY <1>2, Reads
  <1>3. CASE \E i \in DOMAIN frame : kept[k].ref = Frame(i)
    <2>1. frame # None
      BY DEF ArgInv, BetweenFits
    <2>2. QED
      BY <1>3, <2>1, Reads DEF ArgInv, FrameFits
  <1>4. QED
    BY <1>1, <1>2, <1>3 DEF KeptFits

LEMMA RootAlive ==
  ASSUME ArgInv, NEW v \in Variable, values[v] # None, values[v].root = TRUE
  PROVE  values[v].ref # Lost /\ Read(values[v].ref) \in Live
  <1>1. values[v].ref \in Place /\ ValueFits(v)
    BY ValueTypes DEF ArgInv, ValuesFit
  <1>2. values[v].ref # Lost
    BY <1>1, Places DEF ValueFits
  <1>3. CASE values[v].ref = OwnSlot(v)
    BY <1>1, <1>2, <1>3, Reads DEF ValueFits
  <1>4. CASE values[v].ref # OwnSlot(v)
    <2>1. values[v].ref[1] = "frame" /\ values[v].ref[2] \in DOMAIN frame
      BY <1>1, <1>4 DEF ValueFits
    <2>2. frame # None
      BY DEF ArgInv, BetweenFits
    <2>3. QED
      BY <1>1, <1>2, <2>1, <2>2, PlaceIs, Reads DEF ArgInv, FrameFits
  <1>5. QED
    BY <1>2, <1>3, <1>4

-----------------------------------------------------------------------------
(* A step in which one variable changes. *)

LEMMA OneValue ==
  ASSUME ArgInv, frame # None, NEW v \in Variable, NEW r \in ValueRec \cup {None},
         values' = [values EXCEPT ![v] = r],
         UNCHANGED <<frame, lists, kept>>,
         cells' \subseteq Cell, alive \subseteq alive', alive' \subseteq cells',
         \A w \in Variable : w # v /\ OwnSlot(w) \in rooted => OwnSlot(w) \in rooted',
         \A k \in Root : Member(k) \in rooted => Member(k) \in rooted',
         r # None => /\ r.ref[1] = "own" => r.ref = OwnSlot(v)
                     /\ r.ref[1] = "frame" => r.ref[2] \in DOMAIN frame
                     /\ r.root = TRUE =>
                          /\ r.ref[1] \in {"own", "frame"}
                          /\ r.ref = OwnSlot(v) => r.ref \in rooted' /\ r.val \in Live',
         RootedFit'
  PROVE  ArgInv'
  <1>1. Live \subseteq Live'
    BY DEF Live
  <1>2. FrameFits' /\ CellsFit'
    BY <1>1 DEF ArgInv, FrameFits, CellsFit
  <1>3. values' \in [Variable -> ValueRec \cup {None}] /\ values'[v] = r
        /\ \A w \in Variable : w # v => values'[w] = values[w]
    BY DEF ArgInv, ValuesFit
  <1>4. ValuesFit'
    <2>1. ASSUME NEW w \in Variable PROVE ValueFits(w)'
      <3>1. CASE w = v
        BY <1>3, <3>1 DEF ValueFits
      <3>2. CASE w # v
        BY <1>1, <1>3, <3>2 DEF ArgInv, ValuesFit, ValueFits
      <3>3. QED
        BY <3>1, <3>2
    <2>2. QED
      BY <1>3, <2>1 DEF ValuesFit
  <1>5. KeptFit'
    <2>1. ASSUME NEW k \in Root PROVE KeptFits(k)'
      BY <1>1 DEF ArgInv, KeptFit, KeptFits
    <2>2. QED
      BY <2>1 DEF ArgInv, KeptFit
  <1>6. ListsFit'
    BY DEF ArgInv, ListsFit, ListIs
  <1>7. ASSUME NEW l \in List PROVE ItemsFit(l)'
    <2>1. ASSUME NEW k \in lists[l].roots PROVE kept[k] # None /\ Read(kept[k].ref)' = Read(kept[k].ref)
      <3>1. k \in Root /\ kept[k] # None /\ KeptFits(k)
        BY ListTypes DEF ArgInv, ItemsFit, KeptFit
      <3>2. kept[k].ref = Member(k) \/ \E i \in DOMAIN frame : kept[k].ref = Frame(i)
        BY <3>1 DEF KeptFits
      <3>3. QED
        BY <3>1, <3>2, Places DEF Read
    <2>2. QED
      BY <2>1 DEF ArgInv, ItemsFit
  <1>8. BetweenFits'
    BY DEF BetweenFits
  <1>9. QED
    BY <1>2, <1>4, <1>5, <1>6, <1>7, <1>8 DEF ArgInv

\* The engine knows of the same slots, and nothing else of the roots has
\* changed.
LEMMA SameRoots ==
  ASSUME ArgInv, NEW v \in Variable, values[v] = None \/ values[v].root # TRUE,
         \A w \in Variable : w # v => values'[w] = values[w],
         UNCHANGED <<kept, rooted>>
  PROVE  RootedFit'
  <1>1. ASSUME NEW s \in rooted
        PROVE  \/ \E w \in Variable : values'[w] # None /\ values'[w].root = TRUE /\ values'[w].ref = s
               \/ \E k \in Root : kept'[k] # None /\ kept'[k].ref = s
    <2>1. CASE \E w \in Variable : values[w] # None /\ values[w].root = TRUE /\ values[w].ref = s
      <3>1. PICK w \in Variable : values[w] # None /\ values[w].root = TRUE /\ values[w].ref = s
        BY <2>1
      <3>2. w # v
        BY <3>1
      <3>3. QED
        BY <3>1, <3>2
    <2>2. CASE \E k \in Root : kept[k] # None /\ kept[k].ref = s
      BY <2>2
    <2>3. QED
      BY <2>1, <2>2 DEF ArgInv, RootedFit
  <1>2. QED
    BY <1>1 DEF RootedFit

\* What a copy is like, made by a variable or a root with a member of its
\* own.
LEMMA CopiedFacts ==
  ASSUME ArgInv, frame # None, NEW w \in Variable, Usable(w), NEW own \in Place, NEW c,
         c = Copied(own, values[w].ref, OwnSlot(w))
  PROVE  /\ c.val \in Things /\ c.ref \in Place
         /\ c.val \in Live
         /\ c.ref = own \/ (c.ref = values[w].ref /\ c.ref # OwnSlot(w))
         /\ Read(values[w].ref) \in Live /\ Read(values[w].ref) \in Things
         /\ c.ref = own /\ own # values[w].ref => c.val = Read(values[w].ref)
  <1>1. values[w] # None /\ Read(values[w].ref) \in alive \cup {Void}
    BY DEF Usable, Declared
  <1>2. values[w].ref \in Place
    BY <1>1, ValueTypes DEF ArgInv
  <1>3. Read(values[w].ref) \in Live /\ Live \subseteq Things /\ Void \in Live /\ Void \in Things
    BY <1>1 DEF Live, Things, ArgInv, CellsFit
  <1>4. QED
    BY <1>2, <1>3 DEF Copied

LEMMA CopyKeepsArgs ==
  ASSUME ArgInv, frame # None, NEW v \in Variable, NEW w \in Variable, Copy(v, w)
  PROVE  ArgInv'
  <1>1. PICK c : c = Copied(OwnSlot(v), values[w].ref, OwnSlot(w))
    OBVIOUS
  <1>2. PICK r : r = [val |-> c.val, ref |-> c.ref, root |-> FALSE]
    OBVIOUS
  <1>3. /\ values[v] = None /\ Usable(w) /\ values' = [values EXCEPT ![v] = r]
        /\ UNCHANGED <<frame, lists, kept, rooted, cells, alive>>
    BY <1>1, <1>2 DEF Copy
  <1>4. OwnSlot(v) \in Place
    BY DEF Place
  <1>5. /\ c.val \in Things /\ c.ref \in Place
        /\ c.ref = OwnSlot(v) \/ (c.ref = values[w].ref /\ c.ref # OwnSlot(w))
    BY <1>1, <1>3, <1>4, CopiedFacts
  <1>6. r \in ValueRec /\ r.ref = c.ref /\ r.root = FALSE
    BY <1>2, <1>5 DEF ValueRec
  <1>7. values[w] # None /\ ValueFits(w)
    BY <1>3 DEF Usable, Declared, ArgInv, ValuesFit
  <1>8. /\ r.ref[1] = "own" => r.ref = OwnSlot(v)
        /\ r.ref[1] = "frame" => r.ref[2] \in DOMAIN frame
    BY <1>5, <1>6, <1>7, Places DEF ValueFits
  <1>9. RootedFit'
    BY <1>3, SameRoots DEF ArgInv, ValuesFit
  <1>10. QED
    BY <1>3, <1>6, <1>8, <1>9, OneValue DEF ArgInv, CellsFit

LEMMA RootOfKeeps ==
  ASSUME ArgInv, frame # None, NEW v \in Variable, NEW w \in Variable, RootOf(v, w)
  PROVE  ArgInv'
  <1>1. PICK c : c = Copied(OwnSlot(v), values[w].ref, OwnSlot(w))
    OBVIOUS
  <1>2. PICK r : r = [val |-> c.val, ref |-> c.ref, root |-> TRUE]
    OBVIOUS
  <1>3. /\ values[v] = None /\ Usable(w) /\ values' = [values EXCEPT ![v] = r]
        /\ values[w].ref[1] \in {"frame", "own"}
        /\ rooted' = rooted \cup {c.ref}
        /\ UNCHANGED <<frame, lists, kept, cells, alive>>
    BY <1>1, <1>2 DEF RootOf
  <1>4. OwnSlot(v) \in Place
    BY DEF Place
  <1>5. /\ c.val \in Things /\ c.ref \in Place /\ c.val \in Live
        /\ c.ref = OwnSlot(v) \/ (c.ref = values[w].ref /\ c.ref # OwnSlot(w))
    BY <1>1, <1>3, <1>4, CopiedFacts
  <1>6. r \in ValueRec /\ r.ref = c.ref /\ r.root = TRUE /\ r.val = c.val
    BY <1>2, <1>5 DEF ValueRec
  <1>7. values[w] # None /\ ValueFits(w)
    BY <1>3 DEF Usable, Declared, ArgInv, ValuesFit
  <1>8. /\ r.ref[1] = "own" => r.ref = OwnSlot(v)
        /\ r.ref[1] = "frame" => r.ref[2] \in DOMAIN frame
        /\ r.ref[1] \in {"own", "frame"}
        /\ r.ref \in rooted' /\ r.val \in Live'
    BY <1>3, <1>5, <1>6, <1>7, Places DEF ValueFits, Live
  <1>9. RootedFit'
    <2>1. values'[v] = r /\ \A u \in Variable : u # v => values'[u] = values[u]
      BY <1>3 DEF ArgInv, ValuesFit
    <2>2. r # None
      BY <1>6, MarkerAssumption DEF ValueRec
    <2>3. ASSUME NEW s \in rooted'
          PROVE  \/ \E u \in Variable : values'[u] # None /\ values'[u].root = TRUE /\ values'[u].ref = s
                 \/ \E k \in Root : kept'[k] # None /\ kept'[k].ref = s
      <3>1. CASE s = c.ref
        BY <1>6, <2>1, <2>2, <3>1
      <3>2. CASE s \in rooted
        <4>1. CASE \E u \in Variable : values[u] # None /\ values[u].root = TRUE /\ values[u].ref = s
          BY <1>3, <2>1, <4>1
        <4>2. CASE \E k \in Root : kept[k] # None /\ kept[k].ref = s
          BY <1>3, <4>2
        <4>3. QED
          BY <3>2, <4>1, <4>2 DEF ArgInv, RootedFit
      <3>3. QED
        BY <1>3, <3>1, <3>2
    <2>4. QED
      BY <2>3 DEF RootedFit
  <1>10. cells' \subseteq Cell /\ alive \subseteq alive' /\ alive' \subseteq cells' /\ rooted \subseteq rooted'
    BY <1>3 DEF ArgInv, CellsFit
  <1>11. QED
    BY <1>3, <1>6, <1>8, <1>9, <1>10, OneValue

LEMMA FreshKeeps ==
  ASSUME ArgInv, frame # None, NEW v \in Variable, NEW c \in Cell, Fresh(v, c)
  PROVE  ArgInv'
  <1>1. PICK r : r = [val |-> c, ref |-> OwnSlot(v), root |-> FALSE]
    OBVIOUS
  <1>2. /\ values[v] = None /\ values' = [values EXCEPT ![v] = r]
        /\ cells' = cells \cup {c} /\ alive' = alive \cup {c}
        /\ UNCHANGED <<frame, lists, kept, rooted>>
    BY <1>1 DEF Fresh
  <1>3. r \in ValueRec /\ r.ref = OwnSlot(v) /\ r.root = FALSE
    BY <1>1 DEF ValueRec, Place, Things
  <1>4. RootedFit'
    BY <1>2, SameRoots DEF ArgInv, ValuesFit
  <1>5. cells' \subseteq Cell /\ alive \subseteq alive' /\ alive' \subseteq cells'
    BY <1>2 DEF ArgInv, CellsFit
  <1>6. QED
    BY <1>2, <1>3, <1>4, <1>5, Places, OneValue

LEMMA BoundKeeps ==
  ASSUME ArgInv, frame # None, NEW v \in Variable, NEW s \in Place, Bound(v, s),
         s[1] = "own" => s = OwnSlot(v),
         s[1] = "frame" => s[2] \in DOMAIN frame
  PROVE  ArgInv'
  <1>1. PICK r : r = [val |-> Void, ref |-> s, root |-> FALSE]
    OBVIOUS
  <1>2. /\ values[v] = None /\ values' = [values EXCEPT ![v] = r]
        /\ UNCHANGED <<frame, lists, kept, rooted, cells, alive>>
    BY <1>1 DEF Bound
  <1>3. r \in ValueRec /\ r.ref = s /\ r.root = FALSE
    BY <1>1 DEF ValueRec, Things
  <1>4. RootedFit'
    BY <1>2, SameRoots DEF ArgInv, ValuesFit
  <1>5. QED
    BY <1>2, <1>3, <1>4, OneValue DEF ArgInv, CellsFit

\* Where the elements of a list are, there are slots.
LEMMA SlotFacts ==
  ASSUME ArgInv, frame # None, NEW l \in Made, NEW i \in 1 .. Size(l)
  PROVE  /\ Slot(l, i) \in Place /\ Slot(l, i)[1] # "own"
         /\ Slot(l, i)[1] = "frame" => Slot(l, i)[2] \in DOMAIN frame
  <1>1. PICK r, n : r = lists[l] /\ n = Cardinality(DOMAIN frame)
    OBVIOUS
  <1>2. l \in List /\ r.exists = TRUE /\ r.n \in Nat /\ i \in 1 .. r.n /\ i \in Nat /\ r.vector \in Seq(Things)
    BY <1>1, ListTypes DEF ArgInv, Made, Size
  <1>3. /\ Len(r.vector) <= MaxItems
        /\ \/ r.argv = l /\ r.n = Len(r.vector)
           \/ r.argv = "frame" /\ r.n = n - 1
           \/ r.n = 0
    BY <1>1, <1>2 DEF ArgInv, ListsFit, ListIs
  <1>4. CASE r.argv = l /\ r.n = Len(r.vector)
    <2>1. Slot(l, i) = Element(l, i)
      BY <1>1, <1>2, <1>4, MarkerAssumption DEF Slot
    <2>2. i \in 1 .. MaxItems
      BY <1>2, <1>3, <1>4, ListBoundsAssumption
    <2>3. Element(l, i) \in Place
      BY <1>2, <2>2 DEF Place
    <2>4. QED
      BY <2>1, <2>3, Places
  <1>5. CASE r.argv = "frame" /\ r.n = n - 1
    <2>1. Slot(l, i) = Frame(i)
      BY <1>1, <1>5, MarkerAssumption DEF Slot
    <2>2. CASE DOMAIN frame = {0}
      <3>1. n = 1
        BY <1>1, <2>2, FS_Singleton
      <3>2. QED
        BY <1>2, <1>5, <3>1
    <2>3. CASE DOMAIN frame = {0, 1}
      <3>1. n = 2
        <4>1. {0, 1} = {0} \cup {1} /\ 1 \notin {0}
          OBVIOUS
        <4>2. IsFiniteSet({0}) /\ Cardinality({0}) = 1
          BY FS_Singleton
        <4>3. Cardinality({0} \cup {1}) = 2
          BY <4>1, <4>2, FS_AddElement
        <4>4. QED
          BY <1>1, <2>3, <4>1, <4>3
      <3>2. i = 1
        BY <1>2, <1>5, <3>1
      <3>3. QED
        BY <2>1, <2>3, <3>2, Places DEF Place
    <2>4. QED
      BY <2>2, <2>3 DEF ArgInv, FrameFits
  <1>6. CASE r.n = 0
    BY <1>2, <1>6
  <1>7. QED
    BY <1>3, <1>4, <1>5, <1>6

LEMMA AtKeeps ==
  ASSUME ArgInv, frame # None, NEW v \in Variable, NEW l \in List,
         \/ FrontOrBack(v, l)
         \/ Deref(v, l)
         \/ \E i \in 1 .. MaxItems : At(v, l, i)
  PROVE  ArgInv'
  <1>1. OwnSlot(v) \in Place /\ OwnSlot(v)[1] = "own"
    BY Places DEF Place
  <1>2. l \in Made
    BY DEF FrontOrBack, Deref, At
  <1>3. Size(l) \in Nat
    BY ListTypes DEF ArgInv, Size
  <1>4. \/ Bound(v, OwnSlot(v))
        \/ \E i \in 1 .. Size(l) : Bound(v, Slot(l, i))
    BY <1>3 DEF FrontOrBack, Deref, At
  <1>5. CASE Bound(v, OwnSlot(v))
    BY <1>1, <1>5, BoundKeeps
  <1>6. ASSUME NEW i \in 1 .. Size(l), Bound(v, Slot(l, i)) PROVE ArgInv'
    BY <1>2, <1>6, SlotFacts, BoundKeeps
  <1>7. QED
    BY <1>4, <1>5, <1>6

LEMMA UnbindKeeps ==
  ASSUME ArgInv, frame # None, NEW v \in Variable, Unbind(v)
  PROVE  ArgInv'
  <1>1. PICK r : r = [values[v] EXCEPT !.val = Void, !.ref = OwnSlot(v)]
    OBVIOUS
  <1>2. values[v] \in ValueRec /\ values[v].root # TRUE /\ values[v].root \in BOOLEAN
    BY ValueTypes DEF Unbind, Declared, ArgInv
  <1>3. values' = [values EXCEPT ![v] = r] /\ UNCHANGED <<frame, lists, kept, rooted, cells, alive>>
    BY <1>1, <1>2 DEF Unbind, ArgInv, ValuesFit
  <1>4. r \in ValueRec /\ r.ref = OwnSlot(v) /\ r.root # TRUE
    <2>1. PICK x, p : x = values[v] /\ p = OwnSlot(v)
      OBVIOUS
    <2>2. r = [x EXCEPT !.val = Void, !.ref = p] /\ x \in ValueRec /\ x.root # TRUE
      BY <1>1, <1>2, <2>1
    <2>3. p \in Place /\ Void \in Things
      BY <2>1 DEF Place, Things
    <2>4. r \in ValueRec
      BY ONLY <2>2, <2>3 DEF ValueRec
    <2>5. r.ref = p /\ r.root = x.root
      BY ONLY <2>2 DEF ValueRec
    <2>6. QED
      BY ONLY <2>1, <2>2, <2>4, <2>5
  <1>5. RootedFit'
    BY <1>2, <1>3, SameRoots DEF ArgInv, ValuesFit
  <1>6. QED
    BY <1>3, <1>4, <1>5, Places, OneValue DEF ArgInv, CellsFit

LEMMA ForgetKeeps ==
  ASSUME ArgInv, frame # None, NEW v \in Variable, Forget(v)
  PROVE  ArgInv'
  <1>1. v \in Declared /\ UNCHANGED <<frame, lists, kept, cells, alive>>
    BY DEF Forget
  <1>2. \A w \in Variable : w # v /\ w \in Declared => values[w].ref # OwnSlot(v)
    BY Places DEF ArgInv, ValuesFit, ValueFits, Declared
  <1>3. values' = [values EXCEPT ![v] = None]
    BY <1>2 DEF Forget, ArgInv, ValuesFit
  <1>4. values'[v] = None /\ \A w \in Variable : w # v => values'[w] = values[w]
    BY <1>3 DEF ArgInv, ValuesFit
  <1>5. values[v].root \in BOOLEAN /\ ValueFits(v) /\ values[v] # None /\ values[v].ref \in Place
    BY <1>1, ValueTypes DEF Declared, ArgInv, ValuesFit
  <1>6. CASE values[v].root = TRUE
    <2>1. rooted' = rooted \ {values[v].ref}
      BY <1>6 DEF Forget
    <2>2. RootedFit'
      <3>1. ASSUME NEW s \in rooted'
            PROVE  \/ \E u \in Variable : values'[u] # None /\ values'[u].root = TRUE /\ values'[u].ref = s
                   \/ \E k \in Root : kept'[k] # None /\ kept'[k].ref = s
        <4>1. CASE \E u \in Variable : values[u] # None /\ values[u].root = TRUE /\ values[u].ref = s
          BY <1>4, <2>1, <4>1
        <4>2. CASE \E k \in Root : kept[k] # None /\ kept[k].ref = s
          BY <1>1, <4>2
        <4>3. QED
          BY <2>1, <4>1, <4>2 DEF ArgInv, RootedFit
      <3>2. QED
        BY <3>1 DEF RootedFit
    <2>3. values[v].ref = OwnSlot(v) \/ \E i : values[v].ref = Frame(i)
      BY <1>5, <1>6, PlaceIs DEF ValueFits
    <2>4. /\ \A w \in Variable : w # v /\ OwnSlot(w) \in rooted => OwnSlot(w) \in rooted'
          /\ \A k \in Root : Member(k) \in rooted => Member(k) \in rooted'
      BY <2>1, <2>3, Places
    <2>5. QED
      BY <1>1, <1>3, <2>2, <2>4, OneValue DEF ArgInv, CellsFit
  <1>7. CASE values[v].root # TRUE
    <2>1. rooted' = rooted
      BY <1>5, <1>7 DEF Forget
    <2>2. RootedFit'
      BY <1>1, <1>4, <1>7, <2>1, SameRoots
    <2>3. QED
      BY <1>1, <1>3, <2>1, <2>2, OneValue DEF ArgInv, CellsFit
  <1>8. QED
    BY <1>6, <1>7

LEMMA AssignKeepsArgs ==
  ASSUME ArgInv, frame # None, NEW v \in Variable, NEW w \in Variable, Assign(v, w)
  PROVE  ArgInv'
  <1>1. PICK s, x : s = values[v].ref /\ x = Read(values[w].ref)
    OBVIOUS
  <1>2. values[v] # None /\ Usable(w) /\ Write(s, x) /\ UNCHANGED <<kept, rooted, cells, alive>>
    BY <1>1 DEF Assign, Declared
  <1>3. s \in Place /\ ValueFits(v) /\ ValuesFit /\ ListsFit
    BY <1>1, <1>2, ValueTypes DEF ArgInv, ValuesFit
  <1>4. x \in Live /\ x \in Things
    <2>1. x \in alive \cup {Void}
      BY <1>1, <1>2 DEF Usable
    <2>2. QED
      BY <2>1 DEF ArgInv, CellsFit, Live, Things
  <1>5. s[1] = "own" => s = OwnSlot(v) /\ s[2] = v
    BY <1>1, <1>2, <1>3, Places DEF ValueFits
  <1>6. s[1] = "frame" => s = Frame(s[2]) /\ s[2] \in DOMAIN frame
    BY <1>1, <1>2, <1>3, PlaceIs DEF ValueFits
  <1>7. Live' = Live
    BY <1>2 DEF Live
  <1>8. /\ DOMAIN frame' = DOMAIN frame /\ FrameFits'
        /\ frame' \in [{0} -> Things] \cup [{0, 1} -> Things]
    <2>1. CASE s[1] = "frame"
      <3>1. frame' = [frame EXCEPT ![s[2]] = x]
        BY <1>2, <2>1 DEF Write
      <3>2. QED
        BY <1>4, <1>7, <3>1 DEF ArgInv, FrameFits
    <2>2. CASE s[1] # "frame"
      BY <1>2, <1>7, <2>2 DEF ArgInv, FrameFits, Write
    <2>3. QED
      BY <2>1, <2>2
  <1>9. /\ values' \in [Variable -> ValueRec \cup {None}]
        /\ \A u \in Variable :
             \/ values'[u] = values[u]
             \/ u = v /\ s = OwnSlot(v) /\ values'[u] = [values[u] EXCEPT !.val = x] /\ values'[u] # None
    <2>1. CASE s[1] = "own"
      <3>1. values' = [values EXCEPT ![v].val = x]
        BY <1>2, <1>5, <2>1 DEF Write
      <3>2. PICK r : r = [values[v] EXCEPT !.val = x]
        OBVIOUS
      <3>3. r \in ValueRec
        <4>1. values[v] \in ValueRec
          BY <1>2, <1>3, ValueTypes
        <4>2. QED
          BY <1>4, <3>2, <4>1 DEF ValueRec
      <3>4. r # None
        BY <3>3, MarkerAssumption DEF ValueRec
      <3>5. values' = [values EXCEPT ![v] = r]
        BY <3>1, <3>2
      <3>6. QED
        BY <1>3, <1>5, <2>1, <3>2, <3>3, <3>4, <3>5 DEF ValuesFit
    <2>2. CASE s[1] # "own"
      BY <1>2, <1>3, <2>2 DEF Write, ValuesFit
    <2>3. QED
      BY <2>1, <2>2
  <1>10. ASSUME NEW u \in Variable
         PROVE  /\ values'[u] # None => values[u] # None
                /\ values[u] # None => values'[u] # None
                /\ values[u] # None => values'[u].ref = values[u].ref /\ values'[u].root = values[u].root
                /\ values[u] # None => values'[u].val = values[u].val \/ values'[u].val \in Live
    <2>1. CASE values'[u] = values[u]
      BY <2>1
    <2>2. CASE u = v /\ values'[u] = [values[u] EXCEPT !.val = x] /\ values'[u] # None
      <3>1. values[u] \in ValueRec
        BY <1>2, <1>3, <2>2, ValueTypes
      <3>2. QED
        BY <1>2, <1>4, <2>2, <3>1 DEF ValueRec
    <2>3. QED
      BY <1>9, <2>1, <2>2
  <1>11. ValuesFit'
    <2>1. ASSUME NEW u \in Variable PROVE ValueFits(u)'
      <3>1. ValueFits(u)
        BY DEF ArgInv, ValuesFit
      <3>2. QED
        BY <1>2, <1>7, <1>8, <1>10, <3>1 DEF ValueFits
    <2>2. QED
      BY <1>9, <2>1 DEF ValuesFit
  <1>12. KeptFit'
    <2>1. ASSUME NEW k \in Root PROVE KeptFits(k)'
      BY <1>2, <1>7, <1>8 DEF ArgInv, KeptFit, KeptFits
    <2>2. QED
      BY <1>2, <2>1 DEF ArgInv, KeptFit
  <1>13. RootedFit'
    <2>1. ASSUME NEW t \in rooted
          PROVE  \/ \E u \in Variable : values'[u] # None /\ values'[u].root = TRUE /\ values'[u].ref = t
                 \/ \E k \in Root : kept'[k] # None /\ kept'[k].ref = t
      BY <1>2, <1>10 DEF ArgInv, RootedFit
    <2>2. QED
      BY <1>2, <2>1 DEF RootedFit
  <1>14. ASSUME NEW l \in List
         PROVE  /\ lists'[l] \in ListRec /\ ListIs(l, lists[l])'
                /\ lists'[l].roots = lists[l].roots
                /\ lists'[l].guarded = TRUE =>
                     /\ lists[l].guarded = TRUE /\ lists'[l].vector = lists[l].vector
                     /\ \A k \in lists[l].roots : kept[k].ref # s
    <2>1. PICK r, g, mine :
            /\ r = lists[l]
            /\ g = {k \in r.roots : kept[k].ref = s}
            /\ mine = (s[1] = "vector" /\ s[2] = l)
      OBVIOUS
    <2>2. PICK vec, gd : /\ vec = IF mine THEN [r.vector EXCEPT ![s[3]] = x] ELSE r.vector
                         /\ gd = (r.guarded /\ g = {} /\ ~mine)
      OBVIOUS
    <2>3. lists'[l] = [r EXCEPT !.vector = vec, !.guarded = gd]
      BY <1>2, <2>1, <2>2 DEF Write
    <2>4. r \in ListRec /\ ListIs(l, r) /\ r.vector \in Seq(Things)
      BY <1>3, <2>1, ListTypes
    <2>5. vec \in Seq(Things) /\ Len(vec) = Len(r.vector) /\ (r.vector = <<>> => vec = <<>>)
      <3>1. CASE mine /\ s[3] \in DOMAIN r.vector
        BY <1>4, <2>2, <2>4, <3>1, ExceptSeq
      <3>2. CASE mine /\ s[3] \notin DOMAIN r.vector
        <4>1. vec = [r.vector EXCEPT ![s[3]] = x]
          BY <2>2, <3>2
        <4>2. vec = r.vector
          BY <2>4, <3>2, <4>1
        <4>3. QED
          BY <2>4, <4>2
      <3>3. QED
        BY <2>2, <2>4, <3>1, <3>2
    <2>6. gd \in BOOLEAN
      BY <2>2
    <2>7. lists'[l] \in ListRec
      BY ONLY <2>3, <2>4, <2>5, <2>6 DEF ListRec
    <2>8. /\ lists'[l].vector = vec /\ lists'[l].n = r.n /\ lists'[l].argv = r.argv
          /\ lists'[l].roots = r.roots /\ lists'[l].guarded = gd
      BY ONLY <2>3, <2>4 DEF ListRec
    <2>9. ListIs(l, lists[l])'
      BY <1>8, <2>4, <2>5, <2>8 DEF ListIs
    <2>10. QED
      BY <2>1, <2>2, <2>7, <2>8, <2>9
  <1>15. ListsFit'
    <2>1. lists' = [l \in List |-> lists'[l]]
      BY <1>2 DEF Write
    <2>2. QED
      BY <1>14, <2>1 DEF ListsFit
  <1>16. ASSUME NEW l \in List PROVE ItemsFit(l)'
    <2>1. ASSUME NEW k \in lists[l].roots
          PROVE  kept[k] # None /\ (kept[k].ref # s => Read(kept[k].ref)' = Read(kept[k].ref))
      <3>1. k \in Root /\ kept[k] # None /\ KeptFits(k)
        BY <1>3, ListTypes DEF ArgInv, ItemsFit, KeptFit
      <3>2. CASE kept[k].ref = Member(k)
        BY <1>2, <3>1, <3>2, Reads, ReadsNext
      <3>3. CASE \E i \in DOMAIN frame : kept[k].ref = Frame(i)
        <4>1. PICK i \in DOMAIN frame : kept[k].ref = Frame(i)
          BY <3>3
        <4>2. Read(kept[k].ref) = frame[i] /\ Read(kept[k].ref)' = frame'[i]
          BY <1>2, <4>1, Reads, ReadsNext
        <4>3. kept[k].ref # s => frame'[i] = frame[i]
          <5>1. CASE s[1] = "frame"
            BY <1>2, <1>6, <4>1, <5>1, Places DEF Write
          <5>2. CASE s[1] # "frame"
            BY <1>2, <5>2 DEF Write
          <5>3. QED
            BY <5>1, <5>2
        <4>4. QED
          BY <3>1, <4>2, <4>3
      <3>4. QED
        BY <3>1, <3>2, <3>3 DEF KeptFits
    <2>2. \A k \in lists'[l].roots : kept'[k] # None
      BY <1>2, <1>14, <2>1
    <2>3. ASSUME lists'[l].guarded = TRUE, NEW i \in DOMAIN lists'[l].vector
          PROVE  \E k \in lists'[l].roots : Read(kept[k].ref)' = lists'[l].vector[i]
      <3>1. /\ lists[l].guarded = TRUE /\ i \in DOMAIN lists[l].vector
            /\ lists'[l].vector[i] = lists[l].vector[i]
            /\ \A k \in lists[l].roots : kept[k].ref # s
        BY <1>14, <2>3
      <3>2. PICK k \in lists[l].roots : Read(kept[k].ref) = lists[l].vector[i]
        BY <3>1 DEF ArgInv, ItemsFit
      <3>3. QED
        BY <1>14, <2>1, <3>1, <3>2
    <2>4. QED
      BY <2>2, <2>3 DEF ItemsFit
  <1>17. BetweenFits'
    <2>1. frame' # None
      BY <1>8, MarkerAssumption
    <2>2. QED
      BY <2>1 DEF BetweenFits
  <1>18. QED
    BY <1>2, <1>8, <1>11, <1>12, <1>13, <1>15, <1>16, <1>17 DEF ArgInv, CellsFit

-----------------------------------------------------------------------------
(* A step in which one list changes. *)

\* No other list points into its vector.
LEMMA BecomeOne ==
  ASSUME ArgInv, NEW l \in List, NEW n, NEW moves
  PROVE  Become(l, n, moves) = [lists EXCEPT ![l] = n]
  <1>1. ASSUME NEW m \in List, m # l PROVE lists[m].argv # l
    BY <1>1, MarkerAssumption DEF ArgInv, ListsFit, ListIs
  <1>2. lists = [m \in List |-> lists[m]]
    BY DEF ArgInv, ListsFit
  <1>3. QED
    BY <1>1, <1>2 DEF Become

\* Only what is bound to an element is lost.
LEMMA UnplacedFacts ==
  ASSUME ArgInv, NEW l \in List, NEW size, NEW moves, values' = Unplaced(l, size, moves)
  PROVE  /\ values' \in [Variable -> ValueRec \cup {None}]
         /\ \A v \in Variable :
              \/ values'[v] = values[v]
              \/ values[v] # None /\ values[v].root # TRUE
                 /\ values'[v] \in ValueRec /\ values'[v].ref = Lost /\ values'[v].root # TRUE
  <1>1. ASSUME NEW v \in Variable
        PROVE  \/ values'[v] = values[v]
               \/ values[v] # None /\ values[v].root # TRUE
                  /\ values'[v] \in ValueRec /\ values'[v].ref = Lost /\ values'[v].root # TRUE
    <2>1. CASE values[v] # None /\ values[v].ref[1] = "vector" /\ values'[v] = [values[v] EXCEPT !.ref = Lost]
      <3>1. values[v] \in ValueRec
        BY <2>1, ValueTypes DEF ArgInv
      <3>2. Lost \in Place
        BY DEF Place
      <3>3. values[v].root # TRUE
        BY <2>1 DEF ArgInv, ValuesFit, ValueFits
      <3>4. PICK x : x = values[v]
        OBVIOUS
      <3>5. values'[v] = [x EXCEPT !.ref = Lost] /\ x \in ValueRec
        BY <2>1, <3>1, <3>4
      <3>6. values'[v] \in ValueRec /\ values'[v].ref = Lost /\ values'[v].root = x.root
        BY ONLY <3>2, <3>5 DEF ValueRec
      <3>7. QED
        BY <2>1, <3>3, <3>4, <3>6
    <2>2. QED
      BY <2>1 DEF Unplaced
  <1>2. values' = [v \in Variable |-> values'[v]]
    BY DEF Unplaced
  <1>3. \A v \in Variable : values'[v] \in ValueRec \cup {None}
    BY <1>1 DEF ArgInv, ValuesFit
  <1>4. QED
    BY <1>1, <1>2, <1>3

LEMMA OneList ==
  ASSUME ArgInv, frame # None, NEW l \in List, NEW n \in ListRec, ListIs(l, n),
         lists' = [lists EXCEPT ![l] = n],
         UNCHANGED <<frame, cells, alive>>,
         \/ values' = values
         \/ \E size, moves : values' = Unplaced(l, size, moves),
         KeptFit',
         \A v \in Variable : OwnSlot(v) \in rooted => OwnSlot(v) \in rooted',
         \A s \in rooted' \ rooted : \E k \in Root : kept'[k] # None /\ kept'[k].ref = s,
         \A k \in Root : kept[k] # None =>
            \/ kept'[k] = kept[k]
            \/ kept[k].ref \notin rooted' /\ \A m \in List : m # l => k \notin lists[m].roots,
         ItemsFit(l)'
  PROVE  ArgInv'
  <1>1. Live' = Live
    BY DEF Live
  <1>2. FrameFits' /\ CellsFit' /\ BetweenFits'
    BY <1>1 DEF ArgInv, FrameFits, CellsFit, BetweenFits
  <1>3. /\ values' \in [Variable -> ValueRec \cup {None}]
        /\ \A v \in Variable :
             \/ values'[v] = values[v]
             \/ values[v] # None /\ values[v].root # TRUE
                /\ values'[v] \in ValueRec /\ values'[v].ref = Lost /\ values'[v].root # TRUE
    <2>1. CASE values' = values
      BY <2>1 DEF ArgInv, ValuesFit
    <2>2. CASE \E size, moves : values' = Unplaced(l, size, moves)
      <3>1. PICK size, moves : values' = Unplaced(l, size, moves)
        BY <2>2
      <3>2. QED
        BY <3>1, UnplacedFacts
    <2>3. QED
      BY <2>1, <2>2
  <1>4. ValuesFit'
    <2>1. ASSUME NEW v \in Variable PROVE ValueFits(v)'
      <3>1. CASE values'[v] = values[v]
        BY <1>1, <3>1 DEF ArgInv, ValuesFit, ValueFits
      <3>2. CASE values'[v].ref = Lost /\ values'[v].root # TRUE
        BY <3>2, Places DEF ValueFits
      <3>3. QED
        BY <1>3, <3>1, <3>2
    <2>2. QED
      BY <1>3, <2>1 DEF ValuesFit
  <1>5. RootedFit'
    <2>1. ASSUME NEW s \in rooted'
          PROVE  \/ \E v \in Variable : values'[v] # None /\ values'[v].root = TRUE /\ values'[v].ref = s
                 \/ \E k \in Root : kept'[k] # None /\ kept'[k].ref = s
      <3>1. CASE \E v \in Variable : values[v] # None /\ values[v].root = TRUE /\ values[v].ref = s
        BY <1>3, <3>1
      <3>2. CASE \E k \in Root : kept[k] # None /\ kept[k].ref = s
        BY <3>2
      <3>3. CASE s \notin rooted
        BY <3>3
      <3>4. QED
        BY <3>1, <3>2, <3>3 DEF ArgInv, RootedFit
    <2>2. QED
      BY <2>1 DEF RootedFit
  <1>6. lists'[l] = n /\ \A m \in List : m # l => lists'[m] = lists[m]
    BY DEF ArgInv, ListsFit
  <1>7. ListsFit'
    <2>1. ASSUME NEW m \in List PROVE lists'[m] \in ListRec /\ ListIs(m, lists[m])'
      <3>1. CASE m = l
        BY <1>6, <3>1 DEF ListIs
      <3>2. CASE m # l
        <4>1. lists'[m] = lists[m] /\ lists[m] \in ListRec /\ ListIs(m, lists[m])
          BY <1>6, <3>2, ListTypes DEF ArgInv
        <4>2. QED
          BY <4>1 DEF ListIs
      <3>3. QED
        BY <3>1, <3>2
    <2>2. lists' = [m \in List |-> lists'[m]]
      BY DEF ArgInv, ListsFit
    <2>3. QED
      BY <2>1, <2>2 DEF ListsFit
  <1>8. ASSUME NEW m \in List PROVE ItemsFit(m)'
    <2>1. CASE m # l
      <3>1. ASSUME NEW k \in lists[m].roots
            PROVE  kept'[k] # None /\ Read(kept[k].ref)' = Read(kept[k].ref)
        <4>1. k \in Root /\ kept[k] # None /\ KeptFits(k)
          BY ListTypes DEF ArgInv, ItemsFit, KeptFit
        <4>2. kept'[k] = kept[k]
          BY <2>1, <3>1, <4>1
        <4>3. CASE kept[k].ref = Member(k)
          BY <4>1, <4>2, <4>3, Reads, ReadsNext
        <4>4. CASE \E i \in DOMAIN frame : kept[k].ref = Frame(i)
          <5>1. PICK i \in DOMAIN frame : kept[k].ref = Frame(i)
            BY <4>4
          <5>2. QED
            BY <4>1, <4>2, <5>1, Reads, ReadsNext
        <4>5. QED
          BY <4>1, <4>3, <4>4 DEF KeptFits
      <3>2. ItemsFit(m) /\ lists'[m] = lists[m]
        BY <1>6, <2>1 DEF ArgInv
      <3>3. ASSUME lists[m].guarded = TRUE, NEW i \in DOMAIN lists[m].vector
            PROVE  \E k \in lists[m].roots : Read(kept[k].ref)' = lists[m].vector[i]
        BY <3>1, <3>2, <3>3 DEF ItemsFit
      <3>4. QED
        BY <3>1, <3>2, <3>3 DEF ItemsFit
    <2>2. QED
      BY <2>1
  <1>9. QED
    BY <1>2, <1>4, <1>5, <1>7, <1>8 DEF ArgInv

\* What the program may use is alive.
LEMMA UsableFacts ==
  ASSUME ArgInv, NEW v \in Variable, Usable(v)
  PROVE  /\ values[v] # None /\ values[v].ref \in Place /\ ValueFits(v)
         /\ Read(values[v].ref) \in Live /\ Read(values[v].ref) \in Things
  <1>1. values[v] # None /\ Read(values[v].ref) \in Live
    BY DEF Usable, Declared, Live
  <1>2. Live \subseteq Things
    BY DEF ArgInv, CellsFit, Live, Things
  <1>3. QED
    BY <1>1, <1>2, ValueTypes DEF ArgInv, ValuesFit

\* A list whose vector has grown by an element.
Grown(l, y, rs, g) ==
  [lists[l] EXCEPT !.vector = Append(@, y), !.n = Len(lists[l].vector) + 1, !.argv = l,
                   !.roots = rs, !.guarded = g]

LEMMA GrownFacts ==
  ASSUME ArgInv, NEW l \in List, Size(l) < MaxItems, Userprovided(l),
         NEW y \in Things, NEW rs \in SUBSET Root, NEW g \in BOOLEAN
  PROVE  /\ Grown(l, y, rs, g) \in ListRec /\ ListIs(l, Grown(l, y, rs, g))
         /\ Grown(l, y, rs, g).vector = Append(lists[l].vector, y)
         /\ Grown(l, y, rs, g).roots = rs /\ Grown(l, y, rs, g).guarded = g
  <1>1. PICK r, n, x : r = lists[l] /\ n = Grown(l, y, rs, g) /\ x = Append(lists[l].vector, y)
    OBVIOUS
  <1>2. r \in ListRec /\ r.vector \in Seq(Things) /\ r.n \in Nat
    BY <1>1, ListTypes DEF ArgInv
  <1>3. x = Append(r.vector, y) /\ Len(r.vector) = r.n /\ r.n < MaxItems
    BY <1>1 DEF Size, Userprovided
  <1>4. x \in Seq(Things) /\ Len(x) = r.n + 1 /\ r.n + 1 \in Nat
    BY <1>2, <1>3
  <1>5. n = [r EXCEPT !.vector = x, !.n = r.n + 1, !.argv = l, !.roots = rs, !.guarded = g]
    BY <1>1, <1>3 DEF Grown
  <1>6. n \in ListRec
    BY ONLY <1>2, <1>4, <1>5, l \in List, rs \in SUBSET Root, g \in BOOLEAN DEF ListRec
  <1>7. n.vector = x /\ n.n = r.n + 1 /\ n.argv = l /\ n.roots = rs /\ n.guarded = g
    BY ONLY <1>2, <1>5 DEF ListRec
  <1>8. Len(x) <= MaxItems
    BY <1>2, <1>3, <1>4, ListBoundsAssumption
  <1>9. QED
    BY <1>1, <1>4, <1>6, <1>7, <1>8 DEF ListIs

LEMMA AppendFacts ==
  ASSUME NEW S, NEW s \in Seq(S), NEW y \in S
  PROVE  /\ DOMAIN Append(s, y) = DOMAIN s \cup {Len(s) + 1}
         /\ Append(s, y)[Len(s) + 1] = y
         /\ \A i \in DOMAIN s : Append(s, y)[i] = s[i]
         /\ Len(Append(s, y)) = Len(s) + 1
  OBVIOUS

LEMMA PushBackKeeps ==
  ASSUME ArgInv, frame # None, NEW l \in List, NEW v \in Variable, PushBack(l, v)
  PROVE  ArgInv'
  <1>1. PICK y, rs : y = Read(values[v].ref) /\ rs = lists[l].roots
    OBVIOUS
  <1>2. PICK n : n = Grown(l, y, rs, FALSE)
    OBVIOUS
  <1>3. lists[l] \in ListRec /\ rs \in SUBSET Root /\ lists[l].vector \in Seq(Things)
    BY <1>1, ListTypes DEF ArgInv
  <1>4. Usable(v) /\ Userprovided(l) /\ Size(l) < MaxItems /\ y \in Things
    BY <1>1, UsableFacts DEF PushBack
  <1>5. /\ UNCHANGED <<frame, kept, rooted, cells, alive>>
        /\ \E moves : lists' = Become(l, n, moves) /\ values' = Unplaced(l, n.n, moves)
    <2>1. PICK x : x = Append(lists[l].vector, y)
      OBVIOUS
    <2>2. Len(x) = Len(lists[l].vector) + 1
      BY <1>3, <1>4, <2>1
    <2>3. PICK m : m = [lists[l] EXCEPT !.vector = x, !.n = Len(x), !.argv = l, !.guarded = FALSE]
      OBVIOUS
    <2>4. n = m /\ n.n = Len(x)
      BY <1>1, <1>2, <1>3, <2>1, <2>2, <2>3 DEF Grown, ListRec
    <2>5. \E moves : lists' = Become(l, m, moves) /\ values' = Unplaced(l, Len(x), moves)
      BY <1>1, <2>1, <2>3 DEF PushBack
    <2>6. QED
      BY <2>4, <2>5 DEF PushBack
  <1>6. n \in ListRec /\ ListIs(l, n) /\ n.roots = lists[l].roots /\ n.guarded = FALSE
    BY <1>1, <1>2, <1>3, <1>4, GrownFacts
  <1>7. lists' = [lists EXCEPT ![l] = n]
    BY <1>5, BecomeOne
  <1>8. lists'[l] = n
    BY <1>7 DEF ArgInv, ListsFit
  <1>9. ItemsFit(l)'
    BY <1>5, <1>6, <1>8 DEF ArgInv, ItemsFit
  <1>10. KeptFit'
    <2>1. Live' = Live
      BY <1>5 DEF Live
    <2>2. ASSUME NEW k \in Root PROVE KeptFits(k)'
      BY <1>5, <2>1 DEF ArgInv, KeptFit, KeptFits
    <2>3. QED
      BY <1>5, <2>2 DEF ArgInv, KeptFit
  <1>11. QED
    BY <1>5, <1>6, <1>7, <1>9, <1>10, OneList

LEMMA PushRootKeeps ==
  ASSUME ArgInv, frame # None, NEW l \in List, NEW v \in Variable, NEW k \in Root, PushRoot(l, v, k)
  PROVE  ArgInv'
  <1>1. PICK y, rs, g, s :
          y = Read(values[v].ref) /\ rs = lists[l].roots \cup {k} /\ g = lists[l].guarded
          /\ s = lists[l].vector
    OBVIOUS
  <1>2. PICK n : n = Grown(l, y, rs, g)
    OBVIOUS
  <1>3. PICK c : c = Copied(Member(k), values[v].ref, OwnSlot(v))
    OBVIOUS
  <1>4. PICK b : b = [val |-> c.val, ref |-> c.ref]
    OBVIOUS
  <1>5. /\ Usable(v) /\ Userprovided(l) /\ Size(l) < MaxItems /\ kept[k] = None
        /\ values[v].ref[1] \in {"frame", "own"}
        /\ kept' = [kept EXCEPT ![k] = b] /\ rooted' = rooted \cup {c.ref}
        /\ UNCHANGED <<frame, cells, alive>>
    BY <1>3, <1>4 DEF PushRoot
  <1>6. lists[l] \in ListRec /\ rs \in SUBSET Root /\ g \in BOOLEAN /\ s \in Seq(Things) /\ y \in Things
    BY <1>1, <1>5, ListTypes, UsableFacts DEF ArgInv
  <1>7. \E moves : lists' = Become(l, n, moves) /\ values' = Unplaced(l, n.n, moves)
    <2>1. PICK x : x = Append(lists[l].vector, y)
      OBVIOUS
    <2>2. Len(x) = Len(lists[l].vector) + 1
      BY <1>1, <1>6, <2>1
    <2>3. PICK m : m = [lists[l] EXCEPT !.vector = x, !.n = Len(x), !.argv = l, !.roots = @ \cup {k}]
      OBVIOUS
    <2>4. n = m /\ n.n = Len(x)
      BY <1>1, <1>2, <1>6, <2>1, <2>2, <2>3 DEF Grown, ListRec
    <2>5. \E moves : lists' = Become(l, m, moves) /\ values' = Unplaced(l, Len(x), moves)
      BY <1>1, <2>1, <2>3 DEF PushRoot
    <2>6. QED
      BY <2>4, <2>5
  <1>8. /\ n \in ListRec /\ ListIs(l, n)
        /\ n.roots = rs /\ n.guarded = g /\ n.vector = Append(s, y)
    <2>1. Userprovided(l) /\ Size(l) < MaxItems
      BY <1>5
    <2>2. s = lists[l].vector
      BY <1>1
    <2>3. QED
      BY <1>2, <1>6, <2>1, <2>2, GrownFacts, Zenon
  <1>9. /\ n.roots = lists[l].roots \cup {k} /\ n.guarded = lists[l].guarded
        /\ DOMAIN n.vector = DOMAIN lists[l].vector \cup {Len(s) + 1}
        /\ n.vector[Len(s) + 1] = Read(values[v].ref)
        /\ \A i \in DOMAIN lists[l].vector : n.vector[i] = lists[l].vector[i]
    BY <1>1, <1>6, <1>8, AppendFacts
  <1>10. lists' = [lists EXCEPT ![l] = n]
    BY <1>7, BecomeOne
  <1>11. lists'[l] = n
    BY <1>10 DEF ArgInv, ListsFit
  <1>12. Member(k) \in Place
    BY DEF Place
  <1>13. values[v].ref \in Place /\ ValueFits(v) /\ values[v] # None
    BY <1>5, UsableFacts
  <1>14. values[v].ref # Member(k)
    BY <1>5, Places
  <1>15. /\ c.val \in Things /\ c.ref \in Place /\ c.val \in Live
         /\ c.ref = Member(k) \/ (c.ref = values[v].ref /\ c.ref # OwnSlot(v))
         /\ c.ref = Member(k) => c.val = Read(values[v].ref)
    BY <1>3, <1>5, <1>12, <1>14, CopiedFacts
  <1>16. b \in KeptRec /\ b.val = c.val /\ b.ref = c.ref
    BY <1>4, <1>15 DEF KeptRec
  <1>17. b # None
    BY <1>16, MarkerAssumption DEF KeptRec
  <1>18. kept'[k] = b /\ \A j \in Root : j # k => kept'[j] = kept[j]
    BY <1>5 DEF ArgInv, KeptFit
  <1>19. c.ref = Member(k) \/ \E i \in DOMAIN frame : c.ref = Frame(i)
    BY <1>5, <1>13, <1>15, PlaceIs DEF ValueFits
  <1>20. KeptFit'
    <2>1. Live' = Live
      BY <1>5 DEF Live
    <2>2. ASSUME NEW j \in Root PROVE KeptFits(j)'
      <3>1. CASE j = k
        BY <1>5, <1>15, <1>16, <1>18, <1>19, <2>1, <3>1 DEF KeptFits
      <3>2. CASE j # k
        BY <1>5, <1>18, <2>1, <3>2 DEF ArgInv, KeptFit, KeptFits
      <3>3. QED
        BY <3>1, <3>2
    <2>3. kept' \in [Root -> KeptRec \cup {None}]
      BY <1>5, <1>16 DEF ArgInv, KeptFit
    <2>4. QED
      BY <2>2, <2>3 DEF KeptFit
  <1>21. Read(kept[k].ref)' = Read(values[v].ref)
    <2>1. CASE c.ref = Member(k)
      BY <1>15, <1>16, <1>18, <2>1, ReadsNext
    <2>2. CASE c.ref # Member(k)
      <3>1. PICK i \in DOMAIN frame : c.ref = Frame(i)
        BY <1>19, <2>2
      <3>2. c.ref = values[v].ref
        BY <1>15, <2>2
      <3>3. kept'[k].ref = Frame(i) /\ frame' = frame
        BY <1>5, <1>16, <1>18, <3>1
      <3>4. Read(values[v].ref) = frame[i]
        BY <3>1, <3>2, Reads
      <3>5. Read(kept[k].ref)' = frame'[i]
        BY <3>3, ReadsNext
      <3>6. QED
        BY <3>3, <3>4, <3>5
    <2>3. QED
      BY <2>1, <2>2
  <1>22. ASSUME NEW j \in lists[l].roots
         PROVE  kept'[j] # None /\ Read(kept[j].ref)' = Read(kept[j].ref)
    <2>1. j \in Root /\ kept[j] # None /\ KeptFits(j)
      BY ListTypes DEF ArgInv, ItemsFit, KeptFit
    <2>2. kept'[j] = kept[j]
      BY <1>5, <1>18, <2>1
    <2>3. CASE kept[j].ref = Member(j)
      BY <2>1, <2>2, <2>3, Reads, ReadsNext
    <2>4. CASE \E i \in DOMAIN frame : kept[j].ref = Frame(i)
      <3>1. PICK i \in DOMAIN frame : kept[j].ref = Frame(i)
        BY <2>4
      <3>2. QED
        BY <1>5, <2>1, <2>2, <3>1, Reads, ReadsNext
    <2>5. QED
      BY <2>1, <2>3, <2>4 DEF KeptFits
  <1>23. ItemsFit(l)'
    <2>1. \A j \in n.roots : kept'[j] # None
      BY <1>9, <1>17, <1>18, <1>22
    <2>2. ASSUME n.guarded = TRUE, NEW i \in DOMAIN n.vector
          PROVE  \E j \in n.roots : Read(kept[j].ref)' = n.vector[i]
      <3>1. CASE i = Len(s) + 1
        BY <1>9, <1>21, <3>1
      <3>2. CASE i \in DOMAIN lists[l].vector
        <4>1. PICK j \in lists[l].roots : Read(kept[j].ref) = lists[l].vector[i]
          BY <1>9, <2>2, <3>2 DEF ArgInv, ItemsFit
        <4>2. QED
          BY <1>9, <1>22, <3>2, <4>1
      <3>3. QED
        BY <1>9, <3>1, <3>2
    <2>3. QED
      BY <1>9, <1>11, <2>1, <2>2 DEF ItemsFit
  <1>24. \A p \in rooted' \ rooted : \E j \in Root : kept'[j] # None /\ kept'[j].ref = p
    BY <1>5, <1>16, <1>17, <1>18
  <1>25. \A j \in Root : kept[j] # None => kept'[j] = kept[j]
    BY <1>5, <1>18
  <1>26. rooted \subseteq rooted'
    BY <1>5
  <1>27. UNCHANGED <<frame, cells, alive>> /\ \E size, moves : values' = Unplaced(l, size, moves)
    BY <1>5, <1>7
  <1>28. QED
    BY <1>8, <1>10, <1>20, <1>23, <1>24, <1>25, <1>26, <1>27, OneList

\* A list appears.
LEMMA NewList ==
  ASSUME ArgInv, frame # None, NEW l \in List, NEW n \in ListRec, ListIs(l, n),
         lists' = [lists EXCEPT ![l] = n],
         UNCHANGED <<frame, values, kept, rooted, cells, alive>>,
         \/ n.guarded = FALSE /\ n.roots = {}
         \/ n.vector = <<>> /\ n.roots = {}
         \/ \E m \in List : n.guarded = lists[m].guarded /\ n.roots = lists[m].roots
                             /\ n.vector = lists[m].vector
  PROVE  ArgInv'
  <1>1. KeptFit'
    <2>1. Live' = Live
      BY DEF Live
    <2>2. ASSUME NEW k \in Root PROVE KeptFits(k)'
      BY <2>1 DEF ArgInv, KeptFit, KeptFits
    <2>3. QED
      BY <2>2 DEF ArgInv, KeptFit
  <1>2. ASSUME NEW m \in List, NEW k \in lists[m].roots
        PROVE  kept[k] # None /\ Read(kept[k].ref)' = Read(kept[k].ref)
    <2>1. k \in Root /\ kept[k] # None /\ KeptFits(k)
      BY ListTypes DEF ArgInv, ItemsFit, KeptFit
    <2>2. CASE kept[k].ref = Member(k)
      BY <2>1, <2>2, Reads, ReadsNext
    <2>3. CASE \E i \in DOMAIN frame : kept[k].ref = Frame(i)
      <3>1. PICK i \in DOMAIN frame : kept[k].ref = Frame(i)
        BY <2>3
      <3>2. QED
        BY <2>1, <3>1, Reads, ReadsNext
    <2>4. QED
      BY <2>1, <2>2, <2>3 DEF KeptFits
  <1>3. lists'[l] = n
    BY DEF ArgInv, ListsFit
  <1>4. ItemsFit(l)'
    <2>1. CASE n.guarded = FALSE /\ n.roots = {}
      BY <1>3, <2>1 DEF ItemsFit
    <2>2. CASE n.vector = <<>> /\ n.roots = {}
      BY <1>3, <2>2 DEF ItemsFit
    <2>3. ASSUME NEW m \in List, n.guarded = lists[m].guarded, n.roots = lists[m].roots,
                 n.vector = lists[m].vector
          PROVE  ItemsFit(l)'
      <3>1. ItemsFit(m)
        BY DEF ArgInv
      <3>2. ASSUME lists'[l].guarded = TRUE, NEW i \in DOMAIN lists'[l].vector
            PROVE  \E k \in lists'[l].roots : Read(kept[k].ref)' = lists'[l].vector[i]
        <4>1. lists[m].guarded = TRUE /\ i \in DOMAIN lists[m].vector
          BY <1>3, <2>3, <3>2
        <4>2. PICK k \in lists[m].roots : Read(kept[k].ref) = lists[m].vector[i]
          BY <3>1, <4>1 DEF ItemsFit
        <4>3. QED
          BY <1>2, <1>3, <2>3, <4>2
      <3>3. \A k \in lists'[l].roots : kept'[k] # None
        BY <1>2, <1>3, <2>3
      <3>4. QED
        BY <3>2, <3>3 DEF ItemsFit
    <2>4. QED
      BY <2>1, <2>2, <2>3
  <1>5. QED
    BY <1>1, <1>4, OneList

LEMMA EmptyFacts ==
  ASSUME NEW l \in List
  PROVE  /\ NoList \in ListRec /\ ListIs(l, NoList) /\ Empty \in ListRec /\ ListIs(l, Empty)
         /\ NoList.vector = <<>> /\ NoList.roots = {} /\ Empty.vector = <<>> /\ Empty.roots = {}
         /\ Empty.exists = TRUE /\ Empty.argv = "null" /\ Empty.n = 0
  <1>1. PICK e : e = <<>>
    OBVIOUS
  <1>2. e \in Seq(Things) /\ Len(e) = 0
    BY <1>1
  <1>3. NoList = [vector |-> e, n |-> 0, argv |-> "null", roots |-> {}, guarded |-> TRUE, exists |-> FALSE]
    BY <1>1 DEF NoList
  <1>4. Empty = [vector |-> e, n |-> 0, argv |-> "null", roots |-> {}, guarded |-> TRUE, exists |-> TRUE]
    <2>1. PICK b : b = NoList
      OBVIOUS
    <2>2. Empty = [b EXCEPT !.exists = TRUE]
      BY <2>1 DEF Empty
    <2>3. b = [vector |-> e, n |-> 0, argv |-> "null", roots |-> {}, guarded |-> TRUE, exists |-> FALSE]
      BY <1>3, <2>1
    <2>4. QED
      BY ONLY <2>2, <2>3
  <1>5. NoList \in ListRec /\ Empty \in ListRec
    BY <1>2, <1>3, <1>4 DEF ListRec
  <1>6. QED
    BY <1>1, <1>2, <1>3, <1>4, <1>5, ListBoundsAssumption DEF ListIs

LEMMA MakeListKeeps ==
  ASSUME ArgInv, frame # None, NEW l \in List, MakeList(l)
  PROVE  ArgInv'
  BY EmptyFacts, NewList DEF MakeList

LEMMA MakeListOfKeeps ==
  ASSUME ArgInv, frame # None, NEW l \in List, NEW v \in Variable, MakeListOf(l, <<v>>)
  PROVE  ArgInv'
  <1>1. PICK y : y = Read(values[v].ref)
    OBVIOUS
  <1>2. DOMAIN <<v>> = {1} /\ <<v>>[1] = v /\ Len(<<v>>) = 1
    OBVIOUS
  <1>3. Usable(v)
    BY <1>2 DEF MakeListOf
  <1>4. y \in Things
    BY <1>1, <1>3, UsableFacts
  <1>5. PICK x : x = [i \in {1} |-> y]
    OBVIOUS
  <1>6. x \in Seq(Things) /\ Len(x) = 1
    <2>1. x = [i \in 1 .. 1 |-> y]
      BY <1>5
    <2>2. QED
      BY <1>4, <2>1, IsASeq, LenProperties
  <1>7. PICK n : n = [Empty EXCEPT !.vector = x, !.n = 1, !.argv = l, !.guarded = FALSE]
    OBVIOUS
  <1>8. [i \in DOMAIN <<v>> |-> Read(values[<<v>>[i]].ref)] = x
    BY <1>1, <1>2, <1>5
  <1>9. lists' = [lists EXCEPT ![l] = n] /\ UNCHANGED <<frame, values, kept, rooted, cells, alive>>
    BY <1>2, <1>7, <1>8 DEF MakeListOf
  <1>10. Empty \in ListRec /\ Empty.roots = {}
    BY EmptyFacts
  <1>11. n \in ListRec
    BY ONLY <1>6, <1>7, <1>10, l \in List DEF ListRec
  <1>12. n.vector = x /\ n.n = 1 /\ n.argv = l /\ n.guarded = FALSE /\ n.roots = {}
    BY ONLY <1>7, <1>10 DEF ListRec
  <1>13. ListIs(l, n)
    <2>1. 1 <= MaxItems
      BY ListBoundsAssumption
    <2>2. Len(n.vector) = 1
      BY <1>6, <1>12
    <2>3. QED
      BY <1>12, <2>1, <2>2 DEF ListIs
  <1>14. QED
    BY <1>9, <1>11, <1>12, <1>13, NewList

LEMMA CopyListKeeps ==
  ASSUME ArgInv, frame # None, NEW l \in List, NEW m \in List, CopyList(l, m)
  PROVE  ArgInv'
  <1>1. PICK r, n : r = lists[m] /\ n = ListCopied(l, m)
    OBVIOUS
  <1>2. lists' = [lists EXCEPT ![l] = n] /\ UNCHANGED <<frame, values, kept, rooted, cells, alive>>
    BY <1>1 DEF CopyList
  <1>3. r \in ListRec /\ r.vector \in Seq(Things) /\ r.n \in Nat /\ ListIs(m, r)
    BY <1>1, ListTypes DEF ArgInv
  <1>4. PICK a : a = IF Len(r.vector) = r.n THEN l ELSE r.argv
    OBVIOUS
  <1>5. n = [r EXCEPT !.argv = a]
    BY <1>1, <1>4 DEF ListCopied, Userprovided
  <1>6. a \in List \cup {"null", "frame", "lost"}
    BY <1>1, <1>4, ListTypes DEF ArgInv
  <1>7. n \in ListRec
    BY ONLY <1>3, <1>5, <1>6 DEF ListRec
  <1>8. /\ n.vector = r.vector /\ n.n = r.n /\ n.argv = a /\ n.roots = r.roots
        /\ n.guarded = r.guarded
    BY ONLY <1>3, <1>5 DEF ListRec
  <1>9. Len(<<>>) = 0
    OBVIOUS
  <1>10. ListIs(l, n)
    BY <1>3, <1>4, <1>8, <1>9 DEF ListIs
  <1>11. QED
    BY <1>1, <1>2, <1>7, <1>8, <1>10, NewList

\* What is released belongs to no list, and the engine forgets of it.
LEMMA ReleasedFacts ==
  ASSUME ArgInv, NEW l \in List, NEW n, lists' = [lists EXCEPT ![l] = n], Released(lists'),
         UNCHANGED <<frame, cells, alive>>
  PROVE  /\ KeptFit'
         /\ \A v \in Variable : OwnSlot(v) \in rooted => OwnSlot(v) \in rooted'
         /\ rooted' \subseteq rooted
         /\ \A k \in Root : kept[k] # None =>
              \/ kept'[k] = kept[k]
              \/ kept[k].ref \notin rooted' /\ \A m \in List : m # l => k \notin lists[m].roots
         /\ \A k \in Root : k \in n.roots => kept'[k] = kept[k]
  <1>1. PICK gone : gone = {k \in Root : kept[k] # None /\ \A m \in List : k \notin lists'[m].roots}
    OBVIOUS
  <1>2. /\ kept' = [k \in Root |-> IF k \in gone THEN None ELSE kept[k]]
        /\ rooted' = rooted \ {kept[k].ref : k \in gone}
    BY <1>1 DEF Released
  <1>3. lists'[l] = n /\ \A m \in List : m # l => lists'[m] = lists[m]
    BY DEF ArgInv, ListsFit
  <1>4. ASSUME NEW k \in gone
        PROVE  k \in Root /\ kept[k] # None /\ KeptFits(k)
               /\ (kept[k].ref = Member(k) \/ \E i : kept[k].ref = Frame(i))
    BY <1>1 DEF ArgInv, KeptFit, KeptFits
  <1>5. \A v \in Variable : OwnSlot(v) \in rooted => OwnSlot(v) \in rooted'
    BY <1>2, <1>4, Places
  <1>6. ASSUME NEW k \in Root, k \notin gone, Member(k) \in rooted PROVE Member(k) \in rooted'
    BY <1>2, <1>4, <1>6, Places
  <1>7. KeptFit'
    <2>1. Live' = Live
      BY DEF Live
    <2>2. ASSUME NEW k \in Root PROVE KeptFits(k)'
      <3>1. CASE k \in gone
        BY <1>2, <3>1 DEF KeptFits
      <3>2. CASE k \notin gone
        <4>1. kept'[k] = kept[k] /\ KeptFits(k)
          BY <1>2, <3>2 DEF ArgInv, KeptFit
        <4>2. QED
          BY <1>6, <2>1, <3>2, <4>1 DEF KeptFits
      <3>3. QED
        BY <3>1, <3>2
    <2>3. kept' \in [Root -> KeptRec \cup {None}]
      BY <1>2 DEF ArgInv, KeptFit
    <2>4. QED
      BY <2>2, <2>3 DEF KeptFit
  <1>8. ASSUME NEW k \in Root, kept[k] # None
        PROVE  \/ kept'[k] = kept[k]
               \/ kept[k].ref \notin rooted' /\ \A m \in List : m # l => k \notin lists[m].roots
    <2>1. CASE k \in gone
      BY <1>1, <1>2, <1>3, <2>1
    <2>2. CASE k \notin gone
      BY <1>2, <2>2
    <2>3. QED
      BY <2>1, <2>2
  <1>9. ASSUME NEW k \in Root, k \in n.roots PROVE kept'[k] = kept[k]
    BY <1>1, <1>2, <1>3, <1>9
  <1>10. QED
    BY <1>2, <1>5, <1>7, <1>8, <1>9

\* A list becomes what another is, or nothing.
LEMMA ReplacedList ==
  ASSUME ArgInv, frame # None, NEW l \in List, NEW n \in ListRec, ListIs(l, n),
         NEW size, NEW moves,
         lists' = Become(l, n, moves), values' = Unplaced(l, size, moves), Released(lists'),
         UNCHANGED <<frame, cells, alive>>,
         \/ n.roots = {} /\ n.vector = <<>>
         \/ \E m \in List : n.guarded = lists[m].guarded /\ n.roots = lists[m].roots
                             /\ n.vector \in {lists[m].vector, <<>>}
  PROVE  ArgInv'
  <1>1. lists' = [lists EXCEPT ![l] = n]
    BY BecomeOne
  <1>2. /\ KeptFit'
        /\ \A v \in Variable : OwnSlot(v) \in rooted => OwnSlot(v) \in rooted'
        /\ rooted' \subseteq rooted
        /\ \A k \in Root : kept[k] # None =>
             \/ kept'[k] = kept[k]
             \/ kept[k].ref \notin rooted' /\ \A m \in List : m # l => k \notin lists[m].roots
        /\ \A k \in Root : k \in n.roots => kept'[k] = kept[k]
    BY <1>1, ReleasedFacts
  <1>3. lists'[l] = n
    BY <1>1 DEF ArgInv, ListsFit
  <1>4. ItemsFit(l)'
    <2>1. CASE n.roots = {} /\ n.vector = <<>>
      BY <1>3, <2>1 DEF ItemsFit
    <2>2. ASSUME NEW m \in List, n.guarded = lists[m].guarded, n.roots = lists[m].roots,
                 n.vector \in {lists[m].vector, <<>>}
          PROVE  ItemsFit(l)'
      <3>1. ASSUME NEW k \in lists[m].roots
            PROVE  kept'[k] # None /\ Read(kept[k].ref)' = Read(kept[k].ref)
        <4>1. k \in Root /\ kept[k] # None /\ KeptFits(k)
          BY ListTypes DEF ArgInv, ItemsFit, KeptFit
        <4>2. kept'[k] = kept[k]
          BY <1>2, <2>2, <4>1
        <4>3. CASE kept[k].ref = Member(k)
          BY <4>1, <4>2, <4>3, Reads, ReadsNext
        <4>4. CASE \E i \in DOMAIN frame : kept[k].ref = Frame(i)
          <5>1. PICK i \in DOMAIN frame : kept[k].ref = Frame(i)
            BY <4>4
          <5>2. QED
            BY <4>1, <4>2, <5>1, Reads, ReadsNext
        <4>5. QED
          BY <4>1, <4>3, <4>4 DEF KeptFits
      <3>2. ASSUME lists'[l].guarded = TRUE, NEW i \in DOMAIN lists'[l].vector
            PROVE  \E k \in lists'[l].roots : Read(kept[k].ref)' = lists'[l].vector[i]
        <4>1. lists[m].guarded = TRUE /\ i \in DOMAIN lists[m].vector /\ n.vector = lists[m].vector
          BY <1>3, <2>2, <3>2
        <4>2. PICK k \in lists[m].roots : Read(kept[k].ref) = lists[m].vector[i]
          BY <4>1 DEF ArgInv, ItemsFit
        <4>3. QED
          BY <1>3, <2>2, <3>1, <4>1, <4>2
      <3>3. \A k \in lists'[l].roots : kept'[k] # None
        BY <1>3, <2>2, <3>1
      <3>4. QED
        BY <3>2, <3>3 DEF ItemsFit
    <2>3. QED
      BY <2>1, <2>2
  <1>5. \E z, w : values' = Unplaced(l, z, w)
    OBVIOUS
  <1>6. \A s \in rooted' \ rooted : \E k \in Root : kept'[k] # None /\ kept'[k].ref = s
    BY <1>2
  <1>7. QED
    BY <1>1, <1>2, <1>4, <1>5, <1>6, OneList

LEMMA AssignListKeeps ==
  ASSUME ArgInv, frame # None, NEW l \in List, NEW m \in List, AssignList(l, m)
  PROVE  ArgInv'
  <1>1. PICK r, n :
          r = lists[m] /\ n = IF Userprovided(m) THEN [lists[m] EXCEPT !.argv = l]
                              ELSE [lists[m] EXCEPT !.vector = <<>>]
    OBVIOUS
  <1>2. /\ \E moves : /\ lists' = Become(l, n, moves)
                      /\ values' = Unplaced(l, Len(n.vector), moves)
        /\ Released(lists') /\ UNCHANGED <<frame, cells, alive>>
    BY <1>1 DEF AssignList
  <1>3. r \in ListRec /\ r.vector \in Seq(Things) /\ r.n \in Nat /\ ListIs(m, r)
    BY <1>1, ListTypes DEF ArgInv
  <1>4. PICK e : e = <<>>
    OBVIOUS
  <1>5. e \in Seq(Things) /\ Len(e) = 0
    BY <1>4
  <1>6. CASE Userprovided(m)
    <2>1. n = [r EXCEPT !.argv = l] /\ Len(r.vector) = r.n
      BY <1>1, <1>6 DEF Userprovided
    <2>2. n \in ListRec
      BY ONLY <1>3, <2>1, l \in List DEF ListRec
    <2>3. /\ n.vector = r.vector /\ n.n = r.n /\ n.argv = l /\ n.roots = r.roots
          /\ n.guarded = r.guarded
      BY ONLY <1>3, <2>1 DEF ListRec
    <2>4. ListIs(l, n)
      BY <1>3, <2>1, <2>3 DEF ListIs
    <2>5. QED
      BY <1>1, <1>2, <2>2, <2>3, <2>4, ReplacedList
  <1>7. CASE ~Userprovided(m)
    <2>1. n = [r EXCEPT !.vector = e] /\ Len(r.vector) # r.n
      BY <1>1, <1>4, <1>7 DEF Userprovided
    <2>2. n \in ListRec
      BY ONLY <1>3, <1>5, <2>1 DEF ListRec
    <2>3. /\ n.vector = e /\ n.n = r.n /\ n.argv = r.argv /\ n.roots = r.roots
          /\ n.guarded = r.guarded
      BY ONLY <1>3, <2>1 DEF ListRec
    <2>4. r.argv = "frame" /\ r.n = Cardinality(DOMAIN frame) - 1
      BY <1>3, <1>4, <1>5, <2>1 DEF ListIs
    <2>5. Len(n.vector) <= MaxItems
      BY <1>5, <2>3, ListBoundsAssumption
    <2>6. ListIs(l, n)
      BY <1>4, <2>3, <2>4, <2>5 DEF ListIs
    <2>7. QED
      BY <1>1, <1>2, <1>4, <2>2, <2>3, <2>6, ReplacedList
  <1>8. QED
    BY <1>6, <1>7

LEMMA ForgetListKeeps ==
  ASSUME ArgInv, frame # None, NEW l \in List, ForgetList(l)
  PROVE  ArgInv'
  BY EmptyFacts, ReplacedList DEF ForgetList

-----------------------------------------------------------------------------
(* The collector, the call, and its end. *)

LEMMA GcValuesKeeps ==
  ASSUME ArgInv, frame # None, GcValues
  PROVE  ArgInv'
  <1>1. alive' = alive \cap Marked /\ UNCHANGED <<frame, values, lists, kept, rooted, cells>>
    BY DEF GcValues
  <1>2. \A x : x \in Live /\ x \in Marked => x \in Live'
    BY <1>1 DEF Live
  <1>3. /\ \A i \in DOMAIN frame : frame[i] \in Marked
        /\ \A s \in rooted : s # Lost => Read(s) \in Marked
    BY DEF Marked
  <1>4. FrameFits'
    BY <1>1, <1>2, <1>3 DEF ArgInv, FrameFits
  <1>5. CellsFit'
    BY <1>1 DEF ArgInv, CellsFit
  <1>6. ValuesFit'
    <2>1. ASSUME NEW v \in Variable PROVE ValueFits(v)'
      <3>1. ValueFits(v)
        BY DEF ArgInv, ValuesFit
      <3>2. OwnSlot(v) \in rooted => values[v].val \in Marked
        BY <1>3, Reads, Places
      <3>3. QED
        BY <1>1, <1>2, <3>1, <3>2 DEF ValueFits
    <2>2. QED
      BY <1>1, <2>1 DEF ArgInv, ValuesFit
  <1>7. KeptFit'
    <2>1. ASSUME NEW k \in Root PROVE KeptFits(k)'
      <3>1. KeptFits(k)
        BY DEF ArgInv, KeptFit
      <3>2. Member(k) \in rooted => kept[k].val \in Marked
        BY <1>3, Reads, Places
      <3>3. QED
        BY <1>1, <1>2, <3>1, <3>2 DEF KeptFits
    <2>2. QED
      BY <1>1, <2>1 DEF ArgInv, KeptFit
  <1>8. RootedFit'
    BY <1>1 DEF ArgInv, RootedFit
  <1>9. ListsFit'
    BY <1>1 DEF ArgInv, ListsFit, ListIs
  <1>10. ASSUME NEW l \in List PROVE ItemsFit(l)'
    <2>1. \A p : Read(p)' = Read(p)
      BY <1>1 DEF Read
    <2>2. QED
      BY <1>1, <2>1 DEF ArgInv, ItemsFit
  <1>11. BetweenFits'
    BY <1>1 DEF BetweenFits
  <1>12. QED
    BY <1>4, <1>5, <1>6, <1>7, <1>8, <1>9, <1>10, <1>11 DEF ArgInv

LEMMA ZeroOne == Cardinality({0}) = 1 /\ Cardinality({0, 1}) = 2
  <1>1. IsFiniteSet({0}) /\ Cardinality({0}) = 1
    BY FS_Singleton
  <1>2. {0, 1} = {0} \cup {1} /\ 1 \notin {0}
    OBVIOUS
  <1>3. Cardinality({0} \cup {1}) = 2
    BY <1>1, <1>2, FS_AddElement
  <1>4. QED
    BY <1>1, <1>2, <1>3

\* A call without an argument or with one.
LEMMA EnterKeepsArgs ==
  ASSUME ArgInv, NEW out \in Variable, NEW xs \in {<<>>} \cup {<<c>> : c \in Cell},
         EnterFunction(xs, out)
  PROVE  ArgInv'
  <1>1. PICK n, r, e : n = Len(xs) /\ r = [val |-> Void, ref |-> Frame(0), root |-> FALSE]
                       /\ e = [Empty EXCEPT !.n = n, !.argv = "frame"]
    OBVIOUS
  <1>2. /\ frame = None
        /\ frame' = [i \in 0 .. n |-> IF i = 0 THEN Void ELSE xs[i]]
        /\ lists' = [lists EXCEPT ![TheCall] = e]
        /\ values' = [values EXCEPT ![out] = r]
        /\ cells' = {xs[i] : i \in 1 .. n} \ {Void} /\ alive' = cells'
        /\ UNCHANGED <<kept, rooted>>
    BY <1>1 DEF EnterFunction
  <1>3. \/ n = 0 /\ 0 .. n = {0}
        \/ n = 1 /\ 0 .. n = {0, 1} /\ xs[1] \in Cell
    BY <1>1
  <1>4. n \in Nat /\ n = Cardinality(0 .. n) - 1
    <2>1. CASE n = 0 /\ 0 .. n = {0}
      BY ONLY <2>1, ZeroOne
    <2>2. CASE n = 1 /\ 0 .. n = {0, 1}
      BY ONLY <2>2, ZeroOne
    <2>3. QED
      BY <1>3, <2>1, <2>2
  <1>5. DOMAIN frame' = 0 .. n
    BY <1>2
  <1>6. /\ frame' \in [{0} -> Things] \cup [{0, 1} -> Things]
        /\ \A i \in DOMAIN frame' : frame'[i] \in Live'
        /\ cells' \subseteq Cell
    <2>1. CASE n = 0 /\ 0 .. n = {0}
      BY <1>2, <2>1 DEF Things, Live
    <2>2. CASE n = 1 /\ 0 .. n = {0, 1} /\ xs[1] \in Cell
      <3>1. 1 .. n = {1}
        BY <2>2
      <3>2. cells' = {xs[1]} \ {Void} /\ alive' = cells'
        BY <1>2, <3>1
      <3>3. frame' = [i \in {0, 1} |-> IF i = 0 THEN Void ELSE xs[i]]
        BY <1>2, <2>2
      <3>4. frame'[0] = Void /\ frame'[1] = xs[1] /\ DOMAIN frame' = {0, 1}
        BY <3>3
      <3>5. QED
        BY <2>2, <3>2, <3>3, <3>4 DEF Things, Live
    <2>3. QED
      BY <1>3, <2>1, <2>2
  <1>7. FrameFits' /\ CellsFit'
    BY <1>2, <1>6 DEF FrameFits, CellsFit
  <1>8. /\ \A v \in Variable : values[v] = None
        /\ \A l \in List : lists[l] = NoList
        /\ \A k \in Root : kept[k] = None
    BY <1>2 DEF ArgInv, BetweenFits
  <1>9. r \in ValueRec /\ r.ref = Frame(0) /\ r.root = FALSE
    BY <1>1 DEF ValueRec, Place, Things
  <1>10. values'[out] = r /\ \A v \in Variable : v # out => values'[v] = None
    BY <1>2, <1>8 DEF ArgInv, ValuesFit
  <1>11. ValuesFit'
    <2>1. 0 \in DOMAIN frame'
      BY <1>3, <1>5
    <2>2. ASSUME NEW v \in Variable PROVE ValueFits(v)'
      <3>1. CASE v = out
        BY <1>9, <1>10, <2>1, <3>1, Places DEF ValueFits
      <3>2. CASE v # out
        BY <1>10, <3>2 DEF ValueFits
      <3>3. QED
        BY <3>1, <3>2
    <2>3. values' \in [Variable -> ValueRec \cup {None}]
      BY <1>2, <1>9 DEF ArgInv, ValuesFit
    <2>4. QED
      BY <2>2, <2>3 DEF ValuesFit
  <1>12. KeptFit'
    BY <1>2, <1>8 DEF ArgInv, KeptFit, KeptFits
  <1>13. RootedFit'
    BY <1>2, <1>8 DEF ArgInv, RootedFit
  <1>14. Empty \in ListRec /\ Empty.vector = <<>> /\ Empty.roots = {}
    BY EmptyFacts, CallAssumption
  <1>15. e \in ListRec
    BY ONLY <1>1, <1>4, <1>14 DEF ListRec
  <1>16. e.n = n /\ e.argv = "frame" /\ e.vector = <<>> /\ e.roots = {}
    <2>1. PICK x : x = Empty
      OBVIOUS
    <2>2. e = [x EXCEPT !.n = n, !.argv = "frame"] /\ x \in ListRec
      BY <1>1, <1>14, <2>1
    <2>3. e.n = n /\ e.argv = "frame" /\ e.vector = x.vector /\ e.roots = x.roots
      BY ONLY <2>2 DEF ListRec
    <2>4. QED
      BY <1>14, <2>1, <2>3
  <1>17. lists'[TheCall] = e /\ \A l \in List : l # TheCall => lists'[l] = NoList
    BY <1>2, <1>8, CallAssumption DEF ArgInv, ListsFit
  <1>18. ListsFit'
    <2>1. Len(<<>>) <= MaxItems
      BY ListBoundsAssumption
    <2>2. ASSUME NEW l \in List PROVE lists'[l] \in ListRec /\ ListIs(l, lists[l])'
      <3>1. CASE l = TheCall
        <4>1. lists'[l] = e
          BY <1>17, <3>1
        <4>2. n = Cardinality(DOMAIN frame') - 1
          BY <1>4, <1>5
        <4>3. QED
          BY <1>15, <1>16, <2>1, <4>1, <4>2 DEF ListIs
      <3>2. CASE l # TheCall
        <4>1. lists'[l] = NoList
          BY <1>17, <3>2
        <4>2. /\ NoList \in ListRec /\ NoList.vector = <<>> /\ NoList.roots = {}
              /\ NoList.argv = "null" /\ NoList.n = 0
          BY EmptyFacts DEF NoList
        <4>3. QED
          BY <2>1, <4>1, <4>2 DEF ListIs
      <3>3. QED
        BY <3>1, <3>2
    <2>3. lists' = [l \in List |-> lists'[l]]
      BY <1>2 DEF ArgInv, ListsFit
    <2>4. QED
      BY <2>2, <2>3 DEF ListsFit
  <1>19. ASSUME NEW l \in List PROVE ItemsFit(l)'
    <2>1. lists'[l].vector = <<>> /\ lists'[l].roots = {}
      BY <1>16, <1>17, EmptyFacts
    <2>2. QED
      BY <2>1 DEF ItemsFit
  <1>20. BetweenFits'
    <2>1. frame' # None
      BY <1>6, MarkerAssumption
    <2>2. QED
      BY <2>1 DEF BetweenFits
  <1>21. QED
    BY <1>7, <1>11, <1>12, <1>13, <1>18, <1>19, <1>20 DEF ArgInv

\* A state in which there is nothing.
Nothing ==
  /\ frame = None /\ values = [v \in Variable |-> None] /\ lists = [l \in List |-> NoList]
  /\ kept = [k \in Root |-> None] /\ rooted = {} /\ cells = {} /\ alive = {}

LEMMA NothingFits ==
  ASSUME Nothing
  PROVE  ArgInv
  <1>1. FrameFits /\ CellsFit /\ RootedFit
    BY DEF Nothing, FrameFits, CellsFit, RootedFit
  <1>2. \A v \in Variable : values[v] = None
    BY DEF Nothing
  <1>3. \A k \in Root : kept[k] = None
    BY DEF Nothing
  <1>4. \A l \in List : lists[l] = NoList
    BY DEF Nothing
  <1>5. ValuesFit
    BY <1>2 DEF Nothing, ValuesFit, ValueFits
  <1>6. KeptFit
    BY <1>3 DEF Nothing, KeptFit, KeptFits
  <1>7. ListsFit
    BY <1>4, EmptyFacts DEF Nothing, ListsFit
  <1>8. ASSUME NEW l \in List PROVE ItemsFit(l)
    <2>1. lists[l].vector = <<>> /\ lists[l].roots = {}
      BY <1>4, EmptyFacts
    <2>2. QED
      BY <2>1 DEF ItemsFit
  <1>9. BetweenFits
    BY <1>2, <1>3, <1>4 DEF BetweenFits
  <1>10. QED
    BY <1>1, <1>5, <1>6, <1>7, <1>8, <1>9 DEF ArgInv

LEMMA NothingFitsNext == Nothing => ArgInv
  BY NothingFits

LEMMA LeaveKeepsArgs ==
  ASSUME ArgInv, LeaveFunction
  PROVE  ArgInv'
  <1>1. /\ frame' = None /\ values' = [v \in Variable |-> None] /\ lists' = [l \in List |-> NoList]
        /\ kept' = [k \in Root |-> None] /\ cells' = {} /\ alive' = {}
    BY DEF LeaveFunction
  <1>2. rooted' = {}
    <2>1. rooted' = rooted \ ({values[v].ref : v \in {w \in Declared : values[w].root}}
                             \cup {kept[k].ref : k \in {j \in Root : kept[j] # None}})
      BY DEF LeaveFunction
    <2>2. ASSUME NEW s \in rooted PROVE s \notin rooted'
      <3>1. CASE \E v \in Variable : values[v] # None /\ values[v].root = TRUE /\ values[v].ref = s
        BY <2>1, <3>1 DEF Declared
      <3>2. CASE \E k \in Root : kept[k] # None /\ kept[k].ref = s
        BY <2>1, <3>2
      <3>3. QED
        BY <3>1, <3>2 DEF ArgInv, RootedFit
    <2>3. QED
      BY <2>1, <2>2
  <1>3. Nothing'
    BY <1>1, <1>2 DEF Nothing
  <1>4. QED
    BY <1>3, NothingFitsNext, PTL

LEMMA SameArgs ==
  ASSUME ArgInv, UNCHANGED <<frame, values, lists, kept, rooted, cells, alive>>
  PROVE  ArgInv'
  <1>1. \A p : Read(p)' = Read(p)
    BY DEF Read
  <1>2. FrameFits' /\ CellsFit' /\ BetweenFits' /\ RootedFit'
    BY DEF ArgInv, FrameFits, CellsFit, BetweenFits, RootedFit, Live
  <1>3. ValuesFit'
    BY DEF ArgInv, ValuesFit, ValueFits, Live
  <1>4. KeptFit'
    BY DEF ArgInv, KeptFit, KeptFits, Live
  <1>5. ListsFit'
    BY DEF ArgInv, ListsFit, ListIs
  <1>6. ASSUME NEW l \in List PROVE ItemsFit(l)'
    BY <1>1 DEF ArgInv, ItemsFit
  <1>7. QED
    BY <1>2, <1>3, <1>4, <1>5, <1>6 DEF ArgInv

LEMMA ArgStep ==
  ASSUME ArgInv, [ArgNext]_argVars
  PROVE  ArgInv'
  <1>1. CASE \E out \in Variable, xs \in {<<>>} \cup {<<c>> : c \in Cell} : EnterFunction(xs, out)
    BY <1>1, EnterKeepsArgs
  <1>2. CASE LeaveFunction
    BY <1>2, LeaveKeepsArgs
  <1>3. CASE frame # None /\ ValueStep
    <2>1. PICK v \in Variable :
            \/ \E w \in Variable : Copy(v, w) \/ RootOf(v, w) \/ Assign(v, w)
            \/ \E c \in Cell : Fresh(v, c)
            \/ \E l \in List : FrontOrBack(v, l) \/ Deref(v, l) \/ \E i \in 1 .. MaxItems : At(v, l, i)
            \/ Unbind(v) \/ Forget(v)
      BY <1>3 DEF ValueStep
    <2>2. CASE \E w \in Variable : Copy(v, w) \/ RootOf(v, w) \/ Assign(v, w)
      BY <1>3, <2>2, CopyKeepsArgs, RootOfKeeps, AssignKeepsArgs
    <2>3. CASE \E c \in Cell : Fresh(v, c)
      BY <1>3, <2>3, FreshKeeps
    <2>4. CASE \E l \in List : FrontOrBack(v, l) \/ Deref(v, l) \/ \E i \in 1 .. MaxItems : At(v, l, i)
      BY <1>3, <2>4, AtKeeps
    <2>5. CASE Unbind(v) \/ Forget(v)
      BY <1>3, <2>5, UnbindKeeps, ForgetKeeps
    <2>6. QED
      BY <2>1, <2>2, <2>3, <2>4, <2>5
  <1>4. CASE frame # None /\ ListStep
    <2>1. PICK l \in List :
            \/ \E v \in Variable : PushBack(l, v) \/ MakeListOf(l, <<v>>)
            \/ \E v \in Variable, k \in Root : PushRoot(l, v, k)
            \/ PushRefused(l) \/ MakeList(l) \/ ForgetList(l)
            \/ \E m \in List : CopyList(l, m) \/ AssignList(l, m)
      BY <1>4 DEF ListStep
    <2>2. CASE \E v \in Variable : PushBack(l, v) \/ MakeListOf(l, <<v>>)
      BY <1>4, <2>2, PushBackKeeps, MakeListOfKeeps
    <2>3. CASE \E v \in Variable, k \in Root : PushRoot(l, v, k)
      BY <1>4, <2>3, PushRootKeeps
    <2>4. CASE PushRefused(l)
      <3>1. UNCHANGED <<frame, values, lists, kept, rooted, cells, alive>>
        BY <2>4 DEF PushRefused
      <3>2. QED
        BY <3>1, SameArgs
    <2>5. CASE MakeList(l) \/ ForgetList(l)
      BY <1>4, <2>5, MakeListKeeps, ForgetListKeeps
    <2>6. CASE \E m \in List : CopyList(l, m) \/ AssignList(l, m)
      BY <1>4, <2>6, CopyListKeeps, AssignListKeeps
    <2>7. QED
      BY <2>1, <2>2, <2>3, <2>4, <2>5, <2>6
  <1>5. CASE frame # None /\ GcValues
    BY <1>5, GcValuesKeeps
  <1>6. CASE UNCHANGED argVars
    BY <1>6, SameArgs DEF argVars
  <1>7. QED
    BY <1>1, <1>2, <1>3, <1>4, <1>5, <1>6 DEF ArgNext

\* ArgInv holds in every reachable state.
LEMMA ArgInvHolds == ArgSpec => []ArgInv
  <1>1. ArgInit => ArgInv
    BY NothingFits DEF ArgInit, Nothing
  <1>2. ArgInv /\ [ArgNext]_argVars => ArgInv'
    BY ArgStep
  <1>3. QED
    BY <1>1, <1>2, PTL DEF ArgSpec

\* What a call's values, roots and lists of arguments may be relied on for:
\* a list reads its own elements, a root keeps what it guards, and what a
\* list guards is alive, in whatever order they are copied, assigned, grown
\* and given up (value.cpp, root.cpp, arguments.cpp).
THEOREM ArgumentsSoundHolds == ArgSpec => []ArgumentsSound
  <1>1. ArgInv => ArgumentsSound
    <2> SUFFICES ASSUME ArgInv PROVE ArgumentsSound
      OBVIOUS
    <2>1. ArgTypeOK
      <3>1. \A v \in Declared : values[v].val \in Things /\ values[v].root \in BOOLEAN
        BY ValueTypes DEF ArgInv, Declared
      <3>2. \A l \in List : Len(lists[l].vector) <= MaxItems /\ lists[l].roots \subseteq Root
        BY ListTypes DEF ArgInv, ListIs
      <3>3. QED
        BY <3>1, <3>2 DEF ArgTypeOK, ArgInv, CellsFit
    <2>2. OwnElements
      <3>1. ASSUME NEW l \in Made
            PROVE  \/ lists[l].argv = l /\ lists[l].n = Len(lists[l].vector)
                   \/ lists[l].argv = "frame" /\ lists[l].vector = <<>> /\ lists[l].n = Cardinality(DOMAIN frame) - 1
                   \/ lists[l] = [Empty EXCEPT !.guarded = lists[l].guarded]
        <4>1. PICK r : r = lists[l]
          OBVIOUS
        <4>2. r \in ListRec /\ r.exists = TRUE /\ ListIs(l, r)
          BY <4>1, ListTypes DEF Made, ArgInv
        <4>3. CASE r.argv = "null" /\ r.vector = <<>> /\ r.n = 0 /\ r.roots = {}
          <5>1. PICK x, y, g : x = Empty /\ g = r.guarded /\ y = [x EXCEPT !.guarded = g]
            OBVIOUS
          <5>2. /\ x \in ListRec /\ g \in BOOLEAN
                /\ x.vector = r.vector /\ x.n = r.n /\ x.argv = r.argv /\ x.roots = r.roots
                /\ x.exists = TRUE
            BY <4>2, <4>3, <5>1, EmptyFacts DEF Made, ListRec
          <5>3. y \in ListRec
            BY ONLY <5>1, <5>2 DEF ListRec
          <5>4. /\ y.vector = x.vector /\ y.n = x.n /\ y.argv = x.argv /\ y.roots = x.roots
                /\ y.guarded = g /\ y.exists = x.exists
            BY ONLY <5>1, <5>2 DEF ListRec
          <5>5. y = r
            BY ONLY <4>2, <5>1, <5>2, <5>3, <5>4 DEF ListRec
          <5>6. QED
            BY <4>1, <5>1, <5>5
        <4>4. QED
          BY <4>1, <4>2, <4>3 DEF ListIs
      <3>2. QED
        BY <3>1 DEF OwnElements
    <2>3. RootsStand
      <3>1. ASSUME NEW s \in rooted PROVE s[1] # "own" \/ values[s[2]] # None
        <4>1. CASE \E v \in Variable : values[v] # None /\ values[v].root = TRUE /\ values[v].ref = s
          BY <4>1, Places DEF ArgInv, ValuesFit, ValueFits
        <4>2. CASE \E k \in Root : kept[k] # None /\ kept[k].ref = s
          BY <4>2, Places DEF ArgInv, KeptFit, KeptFits
        <4>3. QED
          BY <4>1, <4>2 DEF ArgInv, RootedFit
      <3>2. ASSUME NEW v \in Declared, values[v].root
            PROVE  values[v].ref # Lost /\ Read(values[v].ref) \in alive \cup {Void}
        <4>1. v \in Variable /\ values[v] # None /\ values[v].root = TRUE
          BY <3>2, ValueTypes DEF Declared, ArgInv
        <4>2. QED
          BY <4>1, RootAlive DEF Live
      <3>3. \A k \in Root : kept[k] # None => Read(kept[k].ref) \in alive \cup {Void}
        BY KeptAlive DEF Live
      <3>4. QED
        BY <3>1, <3>2, <3>3 DEF RootsStand
    <2>4. ItemsAlive
      <3>1. ASSUME NEW l \in Made, lists[l].guarded, NEW i \in DOMAIN lists[l].vector
            PROVE  lists[l].vector[i] \in alive \cup {Void}
        <4>1. l \in List /\ lists[l].guarded = TRUE /\ lists[l].roots \subseteq Root
          BY <3>1, ListTypes DEF Made, ArgInv
        <4>2. PICK k \in lists[l].roots : Read(kept[k].ref) = lists[l].vector[i]
          BY <4>1 DEF ArgInv, ItemsFit
        <4>3. k \in Root /\ kept[k] # None
          BY <4>1, <4>2 DEF ArgInv, ItemsFit
        <4>4. QED
          BY <4>2, <4>3, KeptAlive DEF Live
      <3>2. QED
        BY <3>1 DEF ItemsAlive
    <2>5. QED
      BY <2>1, <2>2, <2>3, <2>4 DEF ArgumentsSound
  <1>2. QED
    BY <1>1, ArgInvHolds, PTL

-----------------------------------------------------------------------------
(* to_integral_number. *)

LEMMA Division ==
  ASSUME NEW a \in Int, NEW m \in Nat \ {0}
  PROVE  /\ a % m \in 0 .. m - 1 /\ a \div m \in Int
         /\ a = m * (a \div m) + (a % m)
  OBVIOUS

LEMMA Multiple ==
  ASSUME NEW q \in Int, NEW m \in Nat \ {0}
  PROVE  (m * q) % m = 0
  OBVIOUS

\* What is left of a number, with the sign that fmod gives it.
LEMMA RemainderIs ==
  ASSUME NEW a \in Int, NEW m \in Nat \ {0}
  PROVE  /\ Remainder(a, m) \in Int
         /\ -m < Remainder(a, m) /\ Remainder(a, m) < m
         /\ \E q \in Int : Remainder(a, m) - a = m * q
  <1>1. CASE a < 0
    <2>1. PICK r, d : r = (-a) % m /\ d = (-a) \div m
      OBVIOUS
    <2>2. r \in 0 .. m - 1 /\ d \in Int /\ -a = m * d + r
      BY <2>1, Division
    <2>3. Remainder(a, m) = -r
      BY <1>1, <2>1 DEF Remainder
    <2>4. Remainder(a, m) - a = m * d
      BY <2>2, <2>3
    <2>5. QED
      BY <2>2, <2>3, <2>4
  <1>2. CASE ~(a < 0)
    <2>1. PICK r, d : r = a % m /\ d = a \div m
      OBVIOUS
    <2>2. r \in 0 .. m - 1 /\ d \in Int /\ a = m * d + r
      BY <2>1, Division
    <2>3. Remainder(a, m) = r
      BY <1>2, <2>1 DEF Remainder
    <2>4. PICK e \in Int : e = -d
      BY <2>2
    <2>5. Remainder(a, m) - a = m * e
      BY <2>2, <2>3, <2>4
    <2>6. -m < r /\ r < m /\ r \in Int
      BY ONLY <2>2, m \in Nat \ {0}
    <2>7. \E q \in Int : Remainder(a, m) - a = m * q
      <3>1. WITNESS e \in Int
      <3>2. QED
        BY <2>5
    <2>8. QED
      BY <2>3, <2>6, <2>7
  <1>3. QED
    BY Zenon, <1>1, <1>2

\* The answer is the number of that width that is congruent.
LEMMA IntegralIs ==
  ASSUME NEW half \in Int, NEW bits, NEW signed \in BOOLEAN,
         2 ^ bits \in Nat \ {0}, (2 ^ bits) % 2 = 0,
         NEW y, y = to_integral_number(half, bits, signed)
  PROVE  /\ (y - Truncated(half)) % (2 ^ bits) = 0
         /\ signed => y \in -((2 ^ bits) \div 2) + 1 .. (2 ^ bits) \div 2
         /\ ~signed => y \in 0 .. (2 ^ bits) - 1
  <1>1. PICK m, t : m = 2 ^ bits /\ t = Truncated(half)
    OBVIOUS
  <1>2. m \in Nat \ {0} /\ t \in Int
    BY <1>1 DEF Truncated
  <1>3. PICK h : h \in Nat /\ h = m \div 2 /\ 2 * h = m
    BY <1>1, <1>2
  <1>4. PICK r : r = Remainder(t, m)
    OBVIOUS
  <1>5. PICK q \in Int : r \in Int /\ -m < r /\ r < m /\ r - t = m * q
    BY <1>2, <1>4, RemainderIs
  <1>6. PICK x : x = IF r < 0 THEN r + m ELSE r
    OBVIOUS
  <1>7. PICK p \in Int : x \in 0 .. m - 1 /\ x - t = m * p
    <2>1. CASE r < 0
      <3>1. x - t = m * (q + 1)
        BY <1>2, <1>5, <1>6, <2>1
      <3>2. QED
        BY <1>2, <1>5, <1>6, <2>1, <3>1
    <2>2. CASE ~(r < 0)
      BY <1>2, <1>5, <1>6, <2>2
    <2>3. QED
      BY <2>1, <2>2
  <1>8. y = IF signed /\ x > h THEN x - m ELSE x
    BY <1>1, <1>3, <1>4, <1>6 DEF to_integral_number
  <1>9. \E k \in Int : y - t = m * k
    <2>1. x - m - t = m * (p - 1)
      BY <1>2, <1>7
    <2>2. QED
      BY <1>7, <1>8, <2>1
  <1>10. (y - t) % m = 0
    BY <1>2, <1>9, Multiple
  <1>11. signed => y \in -h + 1 .. h
    BY <1>2, <1>3, <1>7, <1>8
  <1>12. ~signed => y \in 0 .. m - 1
    BY <1>7, <1>8
  <1>13. QED
    BY <1>1, <1>3, <1>10, <1>11, <1>12

-----------------------------------------------------------------------------
(* What conversions come to. *)

\* Numbers, and what an answer of to_number may be.
Answer == {Number(x) : x \in Numbers} \cup {OfKind("nan"), OfKind("thrown")}

LEMMA IntegerFacts ==
  ASSUME NEW n \in Answer, NEW d \in Integer(n), d # Thrown
  PROVE  /\ d.kind = "int" /\ d.cell = "none" /\ d.num \in Lowest .. Highest
         /\ n.kind = "number" => d.num = n.num
  <1>1. CASE n \in {Number(x) : x \in Numbers}
    BY <1>1, LimitAssumption DEF Integer, Number, Done
  <1>2. CASE n = OfKind("nan")
    BY <1>2 DEF Integer, OfKind, Done
  <1>3. CASE n = OfKind("thrown")
    BY <1>3 DEF Integer, OfKind
  <1>4. QED
    BY <1>1, <1>2, <1>3 DEF Answer

LEMMA FromIntFacts ==
  ASSUME NEW v \in Value, NEW d \in FromInt(v), d # Thrown
  PROVE  /\ d.kind = "int" /\ d.cell = "none" /\ d.num \in Lowest .. Highest
         /\ v.kind = "number" => d.num = v.num
  <1>1. PICK T : T = {Integer(n) : n \in ToNumber(v)}
    OBVIOUS
  <1>2. d \in UNION T
    BY <1>1 DEF FromInt
  <1>3. PICK n \in ToNumber(v) : d \in Integer(n)
    BY <1>1, <1>2
  <1>4. n \in Answer /\ (v.kind = "number" => n = v)
    BY <1>3 DEF ToNumber, Answer, Value, Number, OfKind, IsObject
  <1>5. QED
    BY <1>3, <1>4, IntegerFacts

\* A conversion's outcome is a C++ thing; an integer is within its limits;
\* what is new is a string or an object.
LEMMA ConversionFacts ==
  ASSUME NEW t \in (ParamType \cup {"this"}) \ {"bytes"}, NEW v \in Value,
         NEW d \in Conversion(t, v), d # Thrown
  PROVE  /\ d.kind # "pending"
         /\ d.kind = "int" => d.num \in Lowest .. Highest
         /\ d.cell = "new" => d.kind \in {"string", "object"}
  <1>1. CASE t = "int"
    BY <1>1, FromIntFacts DEF Conversion
  <1>2. CASE t = "optional"
    <2>1. d \in FromOptional(v)
      BY <1>2 DEF Conversion
    <2>2. CASE d \in FromInt(v)
      BY <2>2, FromIntFacts
    <2>3. CASE d = Done("absent", 0, "none")
      BY <2>3 DEF Done
    <2>4. QED
      BY <2>1, <2>2, <2>3 DEF FromOptional
  <1>3. CASE t = "bool"
    BY <1>3 DEF Conversion, FromBool, Done
  <1>4. CASE t = "double"
    BY <1>4 DEF Conversion, FromDouble, Done
  <1>5. CASE t = "string"
    BY <1>5 DEF Conversion, FromString, Done
  <1>6. CASE t = "text"
    BY <1>6 DEF Conversion, FromText, Done
  <1>7. CASE t = "object"
    BY <1>7 DEF Conversion, FromObject, Done
  <1>8. CASE t \in {"native", "this"}
    BY <1>8 DEF Conversion, FromNative, FromThis, Done
  <1>9. CASE t = "value"
    BY <1>9 DEF Conversion, FromValue, Done
  <1>10. QED
    BY <1>1, <1>2, <1>3, <1>4, <1>5, <1>6, <1>7, <1>8, <1>9 DEF ParamType

-----------------------------------------------------------------------------
(* A call of a C++ function: the invariant. *)

Adapter == {"plain", "native", "object", "member"}
Callee == [adapter : Adapter, types : Seq(ParamType), void : BOOLEAN]

\* What each parameter is of, and from where.
LEMMA ParamsFacts ==
  ASSUME NEW f \in Callee
  PROVE  /\ \A i \in DOMAIN Params(f) :
              /\ Params(f)[i].type \in ParamType \cup {"this"}
              /\ Params(f)[i].from \in Nat
         /\ \A n \in DOMAIN f.types :
              LET i == IF f.adapter \in {"native", "object"} THEN n + 1 ELSE n
              IN  /\ i \in DOMAIN Params(f)
                  /\ Params(f)[i].type = f.types[n] /\ Params(f)[i].from = n
                  /\ n # 0
  <1>1. PICK s, n : s = f.types /\ n = Len(f.types)
    OBVIOUS
  <1>2. s \in Seq(ParamType) /\ n \in Nat /\ DOMAIN s = 1 .. n /\ n = Len(s)
    BY <1>1 DEF Callee
  <1>3. \A i \in 1 .. n : s[i] \in ParamType
    BY <1>2
  <1>4. CASE f.adapter = "plain"
    <2>1. Params(f) = [i \in 1 .. n |-> Param(s[i], i)]
      BY <1>1, <1>2, <1>4 DEF Params, PlainParams
    <2>2. QED
      BY <1>1, <1>2, <1>3, <1>4, <2>1 DEF Param
  <1>5. CASE f.adapter \in {"native", "object"}
    <2>1. PICK u \in {"this", "value"} :
            Params(f) = [i \in 1 .. n + 1 |-> IF i = 1 THEN Param(u, 0) ELSE Param(s[i - 1], i - 1)]
      BY <1>1, <1>2, <1>5 DEF Params, NativeParams, ObjectParams
    <2>2. DOMAIN Params(f) = 1 .. n + 1
      BY <2>1
    <2>3. ASSUME NEW i \in 1 .. n + 1
          PROVE  Params(f)[i].type \in ParamType \cup {"this"} /\ Params(f)[i].from \in Nat
      <3>1. CASE i = 1
        BY <2>1, <3>1 DEF Param, ParamType
      <3>2. CASE i # 1
        <4>1. i - 1 \in 1 .. n /\ Params(f)[i] = Param(s[i - 1], i - 1)
          BY <1>2, <2>1, <3>2
        <4>2. QED
          BY <1>3, <4>1 DEF Param
      <3>3. QED
        BY <3>1, <3>2
    <2>4. ASSUME NEW k \in 1 .. n
          PROVE  k + 1 \in 1 .. n + 1 /\ Params(f)[k + 1].type = s[k] /\ Params(f)[k + 1].from = k
      <3>1. k + 1 \in 1 .. n + 1 /\ k + 1 # 1 /\ k + 1 - 1 = k
        BY <1>2
      <3>2. Params(f)[k + 1] = Param(s[k], k)
        BY <2>1, <3>1
      <3>3. QED
        BY <3>1, <3>2 DEF Param
    <2>5. QED
      BY <1>1, <1>2, <1>5, <2>2, <2>3, <2>4
  <1>6. CASE f.adapter = "member"
    <2>1. Params(f) = [i \in 0 .. n |-> IF i = 0 THEN Param("this", 0) ELSE Param(s[i], i)]
      BY <1>1, <1>2, <1>6 DEF Params, MemberParams
    <2>2. QED
      BY <1>1, <1>2, <1>3, <1>6, <2>1 DEF Param
  <1>7. QED
    BY <1>4, <1>5, <1>6 DEF Callee, Adapter

\* The parameters of a call are of the function that is called.
CallFits ==
  /\ stage \in {"idle", "converting", "running"}
  /\ callee \in Callee /\ args \in Seq(Value) /\ self \in Value
  /\ array \in Seq(Value)
  /\ DOMAIN given = IF stage = "idle" THEN {} ELSE DOMAIN Params(callee)
  /\ stage = "idle" => given = <<>> /\ callee = Nobody /\ guards = {}
  /\ stage = "running" => Pending = {}
  /\ guards \subseteq DOMAIN given /\ living \subseteq DOMAIN given

\* What has been converted is what its argument converts to, and if it was
\* new it is kept and alive.
GivenFits ==
  \A i \in DOMAIN given :
    /\ given[i].kind \notin {"pending", "bytes"} => given[i] \in Conversion(TypeOf(i), Wanted(i))
    /\ given[i].kind = "int" => given[i].num \in Lowest .. Highest
    /\ given[i].cell = "new" => i \in living /\ i \in guards

\* Of an array that is being converted as many elements have been taken as
\* its length allows, and in its order.
TakingFits(t) ==
  /\ DOMAIN t = {"i", "length", "taken", "start", "touched"}
  /\ t.taken \in Seq(Int) /\ t.length \in Nat /\ t.start \in Seq(Value) /\ t.touched \in BOOLEAN
  /\ \A j \in DOMAIN t.taken : t.taken[j] \in Lowest .. Highest
  /\ t # NoTaking =>
       /\ stage = "converting"
       /\ t.i \in DOMAIN given /\ TypeOf(t.i) = "bytes"
       /\ Len(t.taken) <= t.length /\ t.length = Len(t.start)
       /\ t.touched = FALSE =>
            /\ array = t.start
            /\ \A j \in DOMAIN t.taken : t.start[j].kind = "number" => t.taken[j] = t.start[j].num

ConvInv == CallFits /\ GivenFits /\ TakingFits(taking) /\ IntegralCongruent

LEMMA NobodyFacts == Nobody \in Callee
  BY DEF Nobody, Callee, Adapter

\* No call is under way.
NoCall ==
  /\ stage = "idle" /\ callee = Nobody /\ args = <<>> /\ self = OfKind("undefined") /\ given = <<>>
  /\ guards = {} /\ living = {} /\ array = <<>> /\ taking = NoTaking

LEMMA IdleFits == NoCall => CallFits /\ GivenFits /\ TakingFits(taking)
  <1> SUFFICES ASSUME NoCall PROVE CallFits /\ GivenFits /\ TakingFits(taking)
    OBVIOUS
  <1>1. DOMAIN given = {} /\ OfKind("undefined") \in Value
    BY DEF NoCall, Value
  <1>2. CallFits
    BY <1>1, NobodyFacts DEF NoCall, CallFits
  <1>3. GivenFits
    BY <1>1 DEF GivenFits
  <1>4. TakingFits(taking)
    BY DEF NoCall, TakingFits, NoTaking
  <1>5. QED
    BY <1>2, <1>3, <1>4

LEMMA OverFits == ASSUME ConvInv, Over PROVE ConvInv'
  <1>1. NoCall'
    BY DEF Over, NoCall
  <1>2. (CallFits /\ GivenFits /\ TakingFits(taking))'
    BY <1>1, IdleFits, PTL
  <1>3. IntegralCongruent'
    BY DEF ConvInv, Over, IntegralCongruent
  <1>4. QED
    BY <1>2, <1>3 DEF ConvInv

LEMMA ConvInitFits == ASSUME ConvInit PROVE ConvInv
  <1>1. IntegralCongruent
    <2>1. integral.half = 0 /\ integral.bits = 1 /\ integral.signed = FALSE /\ integral.answer = 0
      BY DEF ConvInit, NotAsked
    <2>2. 2 ^ 1 = 2 /\ Truncated(0) = 0
      BY DEF Truncated
    <2>3. QED
      BY <2>1, <2>2 DEF IntegralCongruent
  <1>2. QED
    BY <1>1, IdleFits DEF ConvInit, NoCall, ConvInv

LEMMA SeqOfFacts ==
  ASSUME NEW S, NEW n \in Nat, NEW s \in SeqOf(S, n)
  PROVE  s \in Seq(S)
  <1>1. PICK m \in 0 .. n : s \in [1 .. m -> S]
    BY DEF SeqOf
  <1>2. QED
    BY <1>1

LEMMA ArraysFacts == Arrays \subseteq Seq(Value)
  <1>1. PICK T : T = {Number(x) : x \in Numbers} \cup {OfKind("object")}
    OBVIOUS
  <1>2. T \subseteq Value
    BY <1>1 DEF Value
  <1>3. Arrays = SeqOf(T, MaxArgs)
    BY ONLY <1>1 DEF Arrays
  <1>4. Arrays \subseteq Seq(T)
    BY <1>3, ArgsAssumption, SeqOfFacts
  <1>5. Seq(T) \subseteq Seq(Value)
    BY <1>2
  <1>6. QED
    BY ONLY <1>4, <1>5

LEMMA BeginFits ==
  ASSUME ConvInv, NEW f \in Signatures, NEW as \in ArgLists, NEW s \in {OfKind("native"), OfKind("foreign")},
         NEW elements \in Arrays \cup {<<>>}, BeginCall(f, as, s, elements)
  PROVE  ConvInv'
  <1>1. f \in Callee
    BY SignatureAssumption DEF Callee, Adapter
  <1>2. as \in Seq(Value) /\ s \in Value /\ elements \in Seq(Value)
    <2>1. as \in Seq(Value)
      BY ArgsAssumption, SeqOfFacts DEF ArgLists
    <2>2. s \in Value
      BY DEF Value
    <2>3. elements \in Seq(Value)
      <3>1. <<>> \in Seq(Value)
        OBVIOUS
      <3>2. QED
        BY <3>1, ArraysFacts
    <2>4. QED
      BY <2>1, <2>2, <2>3
  <1>3. /\ stage' = "converting" /\ callee' = f /\ args' = as /\ self' = s /\ array' = elements
        /\ given' = [i \in DOMAIN Params(f) |-> Done("pending", 0, "none")]
        /\ guards' = {} /\ living' = {} /\ taking' = NoTaking /\ integral' = integral
    BY DEF BeginCall
  <1>4. CallFits'
    BY <1>1, <1>2, <1>3 DEF CallFits
  <1>5. GivenFits'
    BY <1>3 DEF GivenFits, Done
  <1>6. TakingFits(taking)'
    BY <1>3 DEF TakingFits, NoTaking
  <1>7. IntegralCongruent'
    BY <1>3 DEF ConvInv, IntegralCongruent
  <1>8. QED
    BY <1>4, <1>5, <1>6, <1>7 DEF ConvInv

LEMMA WantedIsValue ==
  ASSUME ConvInv, NEW i \in DOMAIN given
  PROVE  Wanted(i) \in Value /\ TypeOf(i) \in ParamType \cup {"this"}
  <1>1. i \in DOMAIN Params(callee) /\ callee \in Callee /\ args \in Seq(Value) /\ self \in Value
    BY DEF ConvInv, CallFits
  <1>2. TypeOf(i) \in ParamType \cup {"this"}
    BY <1>1, ParamsFacts DEF TypeOf
  <1>3. \A n : Arg(n) \in Value
    BY <1>1 DEF Arg, Value
  <1>4. QED
    BY <1>1, <1>2, <1>3 DEF Wanted

LEMMA ConvertFits == ASSUME ConvInv, NEW i \in DOMAIN given, Convert(i) PROVE ConvInv'
  <1>1. PICK d \in Conversion(TypeOf(i), Wanted(i)) :
          \/ d = Thrown /\ ThrowsOut
          \/ /\ d # Thrown
             /\ given' = [given EXCEPT ![i] = d]
             /\ living' = IF d.cell = "new" THEN living \cup {i} ELSE living
             /\ guards' = Kept(i, d)
             /\ UNCHANGED <<stage, callee, args, self, array, taking, result, integral>>
    BY DEF Convert
  <1>2. CASE d = Thrown /\ ThrowsOut
    BY <1>2, OverFits DEF ThrowsOut
  <1>3. CASE /\ d # Thrown
             /\ given' = [given EXCEPT ![i] = d]
             /\ living' = IF d.cell = "new" THEN living \cup {i} ELSE living
             /\ guards' = Kept(i, d)
             /\ UNCHANGED <<stage, callee, args, self, array, taking, result, integral>>
    <2>1. TypeOf(i) \in (ParamType \cup {"this"}) \ {"bytes"} /\ Wanted(i) \in Value
      BY WantedIsValue DEF Convert
    <2>2. /\ d.kind # "pending"
          /\ d.kind = "int" => d.num \in Lowest .. Highest
          /\ d.cell = "new" => d.kind \in {"string", "object"}
      BY <1>3, <2>1, ConversionFacts
    <2>3. DOMAIN given' = DOMAIN given /\ given'[i] = d /\ \A j \in DOMAIN given : j # i => given'[j] = given[j]
      BY <1>3
    <2>4. \A j : TypeOf(j)' = TypeOf(j) /\ Wanted(j)' = Wanted(j)
      BY <1>3 DEF TypeOf, Wanted, Arg
    <2>5. living \subseteq living' /\ guards \subseteq guards' /\ living' \subseteq living \cup {i}
          /\ guards' \subseteq guards \cup {i} /\ (d.cell = "new" => i \in living' /\ i \in guards')
      BY <1>3, <2>2 DEF Kept
    <2>6. stage = "converting" /\ stage' = "converting"
      BY <1>3 DEF Convert
    <2>7. CallFits'
      BY <1>3, <2>3, <2>5, <2>6 DEF ConvInv, CallFits
    <2>8. GivenFits'
      <3>1. ASSUME NEW j \in DOMAIN given
            PROVE  /\ given'[j].kind \notin {"pending", "bytes"} => given'[j] \in Conversion(TypeOf(j), Wanted(j))
                   /\ given'[j].kind = "int" => given'[j].num \in Lowest .. Highest
                   /\ given'[j].cell = "new" => j \in living' /\ j \in guards'
        <4>1. CASE j = i
          BY <2>2, <2>3, <2>5, <4>1
        <4>2. CASE j # i
          BY <2>3, <2>5, <4>2 DEF ConvInv, GivenFits
        <4>3. QED
          BY <4>1, <4>2
      <3>2. ASSUME NEW j PROVE (Conversion(TypeOf(j), Wanted(j)))' = Conversion(TypeOf(j), Wanted(j))
        BY <1>3 DEF TypeOf, Wanted, Arg
      <3>3. QED
        BY <2>3, <3>1, <3>2 DEF GivenFits
    <2>9. TakingFits(taking)'
      BY <1>3, <2>3, <2>4, <2>6 DEF ConvInv, TakingFits
    <2>10. IntegralCongruent'
      BY <1>3 DEF ConvInv, IntegralCongruent
    <2>11. QED
      BY <2>7, <2>8, <2>9, <2>10 DEF ConvInv
  <1>4. QED
    BY <1>1, <1>2, <1>3

LEMMA TakeBeginFits == ASSUME ConvInv, NEW i \in DOMAIN given, TakeBegin(i) PROVE ConvInv'
  <1>1. CASE ThrowsOut
    BY <1>1, OverFits DEF ThrowsOut
  <1>2. CASE /\ taking' = [NoTaking EXCEPT !.i = i, !.length = Len(array), !.start = array]
             /\ UNCHANGED <<stage, callee, args, self, given, guards, living, array, result, integral>>
    <2>1. stage = "converting" /\ TypeOf(i) = "bytes" /\ array \in Seq(Value)
      BY DEF TakeBegin, ConvInv, CallFits
    <2>2. /\ DOMAIN taking' = {"i", "length", "taken", "start", "touched"}
          /\ taking'.i = i /\ taking'.length = Len(array) /\ taking'.taken = <<>>
          /\ taking'.start = array /\ taking'.touched = FALSE
      BY <1>2 DEF NoTaking
    <2>3. TakingFits(taking)'
      <3>1. PICK u, x : u = taking' /\ x = array
        OBVIOUS
      <3>2. /\ u.taken \in Seq(Int) /\ DOMAIN u.taken = {} /\ Len(u.taken) = 0
            /\ u.length \in Nat /\ Len(u.start) = u.length /\ u.start \in Seq(Value)
        <4>1. u.taken = <<>> /\ u.start = x /\ u.length = Len(x) /\ x \in Seq(Value)
          BY <2>1, <2>2, <3>1
        <4>2. u.taken \in Seq(Int) /\ DOMAIN u.taken = {} /\ Len(u.taken) = 0
          BY ONLY <4>1
        <4>3. u.length \in Nat /\ Len(u.start) = u.length /\ u.start \in Seq(Value)
          BY ONLY <4>1
        <4>4. QED
          BY ONLY <4>2, <4>3
      <3>3. TypeOf(u.i)' = "bytes" /\ u.i \in DOMAIN given' /\ array' = u.start
        BY <1>2, <2>1, <2>2, <3>1 DEF TypeOf
      <3>4. stage' = "converting"
        BY <1>2, <2>1
      <3>5. TakingFits(u)'
        <4>1. /\ DOMAIN u = {"i", "length", "taken", "start", "touched"}
              /\ u.touched \in BOOLEAN
          BY ONLY <2>2, <3>1
        <4>2. Len(u.taken) <= u.length /\ u.length = Len(u.start)
          BY ONLY <3>2
        <4>3. QED
          BY ONLY <3>2, <3>3, <3>4, <4>1, <4>2 DEF TakingFits, TypeOf
      <3>6. QED
        BY <3>1, <3>5
    <2>4. CallFits' /\ GivenFits' /\ IntegralCongruent'
      BY <1>2 DEF ConvInv, CallFits, GivenFits, IntegralCongruent, Pending, TypeOf, Wanted, Arg
    <2>5. QED
      BY <2>3, <2>4 DEF ConvInv
  <1>3. QED
    BY <1>1, <1>2 DEF TakeBegin

LEMMA TakeElementFits == ASSUME ConvInv, TakeElement PROVE ConvInv'
  <1>1. PICK v : v = ElementAt(Len(taking.taken) + 1)
    OBVIOUS
  <1>2. PICK d \in FromInt(v) :
           \/ d = Thrown /\ ThrowsOut
           \/ /\ d # Thrown
              /\ array' \in IF IsObject(v) THEN Arrays ELSE {array}
              /\ taking' = [taking EXCEPT !.taken = Append(@, d.num),
                                          !.touched = @ \/ array' # array]
              /\ UNCHANGED <<stage, callee, args, self, given, guards, living, result, integral>>
    BY <1>1 DEF TakeElement
  <1>3. CASE d = Thrown /\ ThrowsOut
    BY <1>3, OverFits DEF ThrowsOut
  <1>4. CASE /\ d # Thrown
             /\ array' \in IF IsObject(v) THEN Arrays ELSE {array}
             /\ taking' = [taking EXCEPT !.taken = Append(@, d.num),
                                         !.touched = @ \/ array' # array]
             /\ UNCHANGED <<stage, callee, args, self, given, guards, living, result, integral>>
    <2>1. PICK t, x, u : t = taking /\ x = array /\ u = taking'
      OBVIOUS
    <2>2. /\ t # NoTaking /\ stage = "converting" /\ Len(t.taken) < t.length
          /\ TakingFits(t) /\ x \in Seq(Value)
      BY <2>1 DEF TakeElement, Taking, ConvInv, CallFits
    <2>3. /\ DOMAIN t = {"i", "length", "taken", "start", "touched"}
          /\ t.taken \in Seq(Int) /\ t.length \in Nat /\ t.start \in Seq(Value)
          /\ \A j \in DOMAIN t.taken : t.taken[j] \in Lowest .. Highest
          /\ t.i \in DOMAIN given /\ TypeOf(t.i) = "bytes"
          /\ t.length = Len(t.start)
          /\ t.touched = FALSE =>
               /\ x = t.start
               /\ \A j \in DOMAIN t.taken : t.start[j].kind = "number" => t.taken[j] = t.start[j].num
      BY <2>1, <2>2 DEF TakingFits
    <2>4. PICK k \in Nat : k = Len(t.taken)
      BY <2>3
    <2>5. v \in Value /\ (k + 1 \in DOMAIN x => v = x[k + 1])
      BY <1>1, <2>1, <2>2, <2>4 DEF ElementAt, Value
    <2>6. d.num \in Lowest .. Highest /\ d.num \in Int /\ (v.kind = "number" => d.num = v.num)
      BY <1>4, <2>5, FromIntFacts, LimitAssumption
    <2>7. PICK b : b = (t.touched \/ array' # x)
      OBVIOUS
    <2>8. u = [t EXCEPT !.taken = Append(@, d.num), !.touched = b]
      BY <1>4, <2>1, <2>7
    <2>9. /\ DOMAIN u = {"i", "length", "taken", "start", "touched"}
          /\ u.i = t.i /\ u.length = t.length /\ u.start = t.start
          /\ u.taken = Append(t.taken, d.num) /\ u.touched = b
      BY ONLY <2>3, <2>8
    <2>10. /\ u.taken \in Seq(Int) /\ Len(u.taken) = k + 1 /\ DOMAIN t.taken = 1 .. k
           /\ DOMAIN u.taken = 1 .. k + 1 /\ u.taken[k + 1] = d.num
           /\ \A j \in 1 .. k : u.taken[j] = t.taken[j]
      BY <2>3, <2>4, <2>6, <2>9
    <2>11. array' \in Seq(Value)
      <3>1. IsObject(v) => array' \in Arrays
        BY <1>4
      <3>2. array' \in Arrays => array' \in Seq(Value)
        BY ArraysFacts
      <3>3. QED
        BY <1>4, <2>1, <2>2, <3>1, <3>2
    <2>12. u.touched = FALSE =>
             /\ array' = u.start
             /\ \A j \in DOMAIN u.taken : u.start[j].kind = "number" => u.taken[j] = u.start[j].num
      <3>1. SUFFICES ASSUME u.touched = FALSE
                     PROVE  /\ array' = u.start
                            /\ \A j \in DOMAIN u.taken : u.start[j].kind = "number" => u.taken[j] = u.start[j].num
        OBVIOUS
      <3>2. ~t.touched /\ array' = x
        BY Zenon, <2>7, <2>9, <3>1
      <3>3. t.touched = FALSE
        BY <2>2, <3>2 DEF TakingFits
      <3>4. k + 1 \in DOMAIN x
        BY <2>2, <2>3, <2>4, <3>3
      <3>5. QED
        BY <2>3, <2>5, <2>6, <2>9, <2>10, <3>2, <3>3, <3>4
    <2>13. TakingFits(taking)'
      <3>1. \A i : TypeOf(i)' = TypeOf(i)
        BY <1>4 DEF TypeOf
      <3>2. Len(u.taken) <= u.length
        BY <2>2, <2>3, <2>4, <2>9, <2>10
      <3>3. \A j \in DOMAIN u.taken : u.taken[j] \in Lowest .. Highest
        BY <2>3, <2>6, <2>10
      <3>4. stage' = "converting" /\ given' = given
        BY <1>4, <2>2
      <3>5. TypeOf(u.i)' = "bytes" /\ u.i \in DOMAIN given'
        BY <1>4, <2>3, <2>9 DEF TypeOf
      <3>6. u.touched \in BOOLEAN
        BY Zenon, <2>7, <2>9
      <3>7. QED
        BY <2>1, <2>3, <2>9, <2>10, <2>12, <3>6, <3>2, <3>3, <3>4, <3>5 DEF TakingFits, TypeOf
    <2>14. CallFits' /\ GivenFits' /\ IntegralCongruent'
      BY <1>4, <2>11 DEF ConvInv, CallFits, GivenFits, IntegralCongruent, Pending, TypeOf, Wanted, Arg
    <2>15. QED
      BY <2>13, <2>14 DEF ConvInv
  <1>5. QED
    BY <1>2, <1>3, <1>4

LEMMA TakeEndFits == ASSUME ConvInv, TakeEnd PROVE ConvInv'
  <1>1. PICK d : d = Done("bytes", taking.length, "none")
    OBVIOUS
  <1>2. d.kind = "bytes" /\ d.cell = "none"
    BY <1>1 DEF Done
  <1>3. taking.i \in DOMAIN given /\ stage = "converting"
    BY DEF TakeEnd, Taking, ConvInv, TakingFits
  <1>4. /\ given' = [given EXCEPT ![taking.i] = d] /\ taking' = NoTaking
        /\ UNCHANGED <<stage, callee, args, self, guards, living, array, result, integral>>
    BY <1>1 DEF TakeEnd
  <1>5. /\ DOMAIN given' = DOMAIN given
        /\ \A j \in DOMAIN given : given'[j] = d \/ given'[j] = given[j]
    BY <1>4
  <1>6. CallFits'
    BY <1>3, <1>4, <1>5 DEF ConvInv, CallFits
  <1>7. GivenFits'
    <2>1. ASSUME NEW j PROVE (Conversion(TypeOf(j), Wanted(j)))' = Conversion(TypeOf(j), Wanted(j))
      BY <1>4 DEF TypeOf, Wanted, Arg
    <2>2. QED
      BY <1>2, <1>4, <1>5, <2>1 DEF ConvInv, GivenFits
  <1>8. TakingFits(taking)'
    BY <1>4 DEF TakingFits, NoTaking
  <1>9. IntegralCongruent'
    BY <1>4 DEF ConvInv, IntegralCongruent
  <1>10. QED
    BY <1>6, <1>7, <1>8, <1>9 DEF ConvInv

LEMMA RunFits == ASSUME ConvInv, Run PROVE ConvInv'
  BY DEF Run, ConvInv, CallFits, GivenFits, TakingFits, IntegralCongruent, Pending, TypeOf, Wanted, Arg

LEMMA GcFits == ASSUME ConvInv, GcConverted PROVE ConvInv'
  BY DEF GcConverted, ConvInv, CallFits, GivenFits, TakingFits, IntegralCongruent, Pending, TypeOf, Wanted, Arg

LEMMA AskFits ==
  ASSUME ConvInv, NEW half \in Halves, NEW bits \in Widths, NEW signed \in BOOLEAN, AskIntegral(half, bits, signed)
  PROVE  ConvInv'
  <1>1. PICK y : y = to_integral_number(half, bits, signed)
    OBVIOUS
  <1>2. /\ integral' = [half |-> half, bits |-> bits, signed |-> signed, answer |-> y]
        /\ UNCHANGED <<stage, callee, args, self, given, guards, living, array, taking, result>>
    BY <1>1 DEF AskIntegral
  <1>3. integral'.half = half /\ integral'.bits = bits /\ integral'.answer = y /\ integral'.signed = signed
    BY <1>2
  <1>4. /\ (y - Truncated(half)) % (2 ^ bits) = 0
        /\ signed => y \in -((2 ^ bits) \div 2) + 1 .. (2 ^ bits) \div 2
        /\ ~signed => y \in 0 .. (2 ^ bits) - 1
    BY <1>1, IntegralIs, WidthAssumption DEF Halves
  <1>5. IntegralCongruent'
    BY <1>3, <1>4 DEF IntegralCongruent
  <1>6. CallFits' /\ GivenFits' /\ TakingFits(taking)'
    BY <1>2 DEF ConvInv, CallFits, GivenFits, TakingFits, Pending, TypeOf, Wanted, Arg
  <1>7. QED
    BY <1>5, <1>6 DEF ConvInv

LEMMA ConvInvHolds == ConvSpec => []ConvInv
  <1>1. ASSUME ConvInv, [ConvNext]_convVars PROVE ConvInv'
    <2>1. CASE \E f \in Signatures, as \in ArgLists :
                 \E s \in IF f.adapter = "plain" THEN {OfKind("foreign")} ELSE {OfKind("native"), OfKind("foreign")},
                    elements \in IF OfKind("array") \in ToSet(as) THEN Arrays ELSE {<<>>} :
                      BeginCall(f, as, s, elements)
      <3>1. PICK f \in Signatures, as \in ArgLists :
                 \E s \in IF f.adapter = "plain" THEN {OfKind("foreign")} ELSE {OfKind("native"), OfKind("foreign")},
                    elements \in IF OfKind("array") \in ToSet(as) THEN Arrays ELSE {<<>>} :
                      BeginCall(f, as, s, elements)
        BY <2>1
      <3>2. PICK s, elements :
               /\ s \in IF f.adapter = "plain" THEN {OfKind("foreign")} ELSE {OfKind("native"), OfKind("foreign")}
               /\ elements \in IF OfKind("array") \in ToSet(as) THEN Arrays ELSE {<<>>}
               /\ BeginCall(f, as, s, elements)
        BY <3>1
      <3>3. s \in {OfKind("native"), OfKind("foreign")} /\ elements \in Arrays \cup {<<>>}
        BY <3>2
      <3>4. QED
        BY <1>1, <3>2, <3>3, BeginFits
    <2>2. CASE \E i \in DOMAIN given : Convert(i)
      BY <1>1, <2>2, ConvertFits
    <2>3. CASE \E i \in DOMAIN given : TakeBegin(i)
      BY <1>1, <2>3, TakeBeginFits
    <2>4. CASE TakeElement
      BY <1>1, <2>4, TakeElementFits
    <2>5. CASE TakeEnd
      BY <1>1, <2>5, TakeEndFits
    <2>6. CASE Run
      BY <1>1, <2>6, RunFits
    <2>7. CASE Return \/ Throw
      BY <1>1, <2>7, OverFits DEF Return, Throw, ThrowsOut
    <2>8. CASE GcConverted
      BY <1>1, <2>8, GcFits
    <2>9. CASE \E half \in Halves, bits \in Widths, signed \in BOOLEAN : AskIntegral(half, bits, signed)
      BY <1>1, <2>9, AskFits
    <2>10. CASE UNCHANGED convVars
      BY <1>1, <2>10 DEF convVars, ConvInv, CallFits, GivenFits, TakingFits, IntegralCongruent,
                         Pending, TypeOf, Wanted, Arg
    <2>11. QED
      BY <1>1, <2>1, <2>2, <2>3, <2>4, <2>5, <2>6, <2>7, <2>8, <2>9, <2>10 DEF ConvNext
  <1>2. QED
    BY <1>1, ConvInitFits, PTL DEF ConvSpec

\* A C++ function is given what script has passed, each argument in its
\* place, within the limits of its type, alive until it returns, whatever
\* the conversions of the others have run and collected; and
\* to_integral_number answers with the congruent number of that width
\* (function_adapter.hpp, convert.hpp, value.cpp).
THEOREM ConversionsSoundHolds == ConvSpec => []ConversionsSound
  <1>1. ASSUME ConvInv PROVE ConversionsSound
    <2>1. ConvTypeOK /\ GivenAlive
      BY <1>1 DEF ConvInv, CallFits, GivenFits, ConvTypeOK, GivenAlive
    <2>2. InPlace
      <3>1. SUFFICES ASSUME NEW n \in DOMAIN callee.types,
                            NEW i, i = IF callee.adapter \in {"native", "object"} THEN n + 1 ELSE n,
                            given[i].kind \notin {"pending", "bytes"}
                     PROVE  given[i] \in Conversion(callee.types[n], IF n <= Len(args) THEN args[n] ELSE OfKind("undefined"))
        BY DEF InPlace
      <3>2. callee \in Callee /\ args \in Seq(Value) /\ (stage = "idle" => callee = Nobody)
            /\ (stage # "idle" => DOMAIN given = DOMAIN Params(callee))
        BY <1>1 DEF ConvInv, CallFits
      <3>3. stage # "idle"
        BY <3>1, <3>2 DEF Nobody
      <3>4. /\ i \in DOMAIN given /\ TypeOf(i) = callee.types[n]
            /\ Params(callee)[i].from = n /\ n # 0
        BY <3>1, <3>2, <3>3, ParamsFacts DEF TypeOf
      <3>5. n \in Nat
        BY <3>1, <3>2 DEF Callee
      <3>6. Wanted(i) = IF n <= Len(args) THEN args[n] ELSE OfKind("undefined")
        BY <3>2, <3>4, <3>5 DEF Wanted, Arg
      <3>7. QED
        BY <1>1, <3>1, <3>4, <3>6 DEF ConvInv, GivenFits
    <2>3. InLimits
      BY <1>1 DEF ConvInv, GivenFits, TakingFits, InLimits
    <2>4. TakenInOrder
      BY <1>1 DEF ConvInv, TakingFits, TakenInOrder, Taking
    <2>5. QED
      BY <1>1, <2>1, <2>2, <2>3, <2>4 DEF ConvInv, ConversionsSound
  <1>2. QED
    BY <1>1, ConvInvHolds, PTL

-----------------------------------------------------------------------------
(***************************************************************************)
(* Stream: what is read is what is there, and what is printed is what was  *)
(* meant.                                                                  *)
(***************************************************************************)
PartFold == INSTANCE FoldLemmas WITH op <- Joint

(* Sequences of bytes. *)

\* The bytes that a stream holds: the separators' are among them.
Byte == Bytes \cup {"f", "r"}
Separator == {Unset, <<"r">>, <<"f">>}

LEMMA FunctionSeq ==
  ASSUME NEW S, NEW n \in Nat, NEW f \in [1 .. n -> S]
  PROVE  f \in Seq(S) /\ Len(f) = n
  <1>1. f \in Seq(S)
    BY SeqDef
  <1>2. Len(f) \in Nat /\ DOMAIN f = 1 .. Len(f) /\ DOMAIN f = 1 .. n
    BY <1>1
  <1>3. QED
    BY <1>1, <1>2

\* What has been written at one place leaves what is before it as it was, and
\* is put after it when it is written at the end.
LEMMA WrittenFits ==
  ASSUME NEW pos \in Nat, NEW s \in Seq(Byte), data \in Seq(Byte)
  PROVE  /\ Written(pos, s) \in Seq(Byte)
         /\ Len(data) <= Len(Written(pos, s))
         /\ pos + Len(s) <= Len(Written(pos, s))
         /\ \A i \in 1 .. Len(data) : i <= pos => Written(pos, s)[i] = data[i]
         /\ pos = Len(data) => Written(pos, s) = data \o s
  <1>1. PICK n \in Nat : n = Len(data) /\ DOMAIN data = 1 .. n
    OBVIOUS
  <1>2. PICK m \in Nat : m = Len(s) /\ DOMAIN s = 1 .. m
    OBVIOUS
  <1>3. PICK grown : grown = IF pos + m > n THEN data \o Zeros(pos + m - n) ELSE data
    OBVIOUS
  <1>4. PICK l \in Nat : l = IF pos + m > n THEN pos + m ELSE n
    OBVIOUS
  <1>5. grown \in Seq(Byte) /\ Len(grown) = l /\ DOMAIN grown = 1 .. l
        /\ \A i \in 1 .. n : grown[i] = data[i]
    <2>1. CASE pos + m > n
      <3>1. PICK k \in Nat : k = pos + m - n
        BY <2>1
      <3>2. PICK z : z = Zeros(k)
        OBVIOUS
      <3>3. z \in Seq(Byte) /\ Len(z) = k
        BY <3>2, NulAssumption DEF Zeros, Byte
      <3>4. grown = data \o z
        BY <1>3, <2>1, <3>1, <3>2
      <3>5. QED
        BY <1>1, <1>4, <2>1, <3>1, <3>3, <3>4, ConcatProperties, LenProperties
    <2>2. CASE ~(pos + m > n)
      BY <1>1, <1>3, <1>4, <2>2
    <2>3. QED
      BY <2>1, <2>2
  <1>6. PICK w : w = [i \in 1 .. l |-> IF i \in pos + 1 .. pos + m THEN s[i - pos] ELSE grown[i]]
    OBVIOUS
  <1>7. Written(pos, s) = w
    BY <1>1, <1>2, <1>3, <1>5, <1>6 DEF Written
  <1>8. ASSUME NEW i \in 1 .. l PROVE w[i] \in Byte
    <2>1. CASE i \in pos + 1 .. pos + m
      <3>1. i - pos \in 1 .. m
        BY <2>1
      <3>2. QED
        BY <1>2, <1>6, <2>1, <3>1, ElementOfSeq
    <2>2. CASE i \notin pos + 1 .. pos + m
      BY <1>5, <1>6, <2>2, ElementOfSeq
    <2>3. QED
      BY <2>1, <2>2
  <1>9. w \in Seq(Byte) /\ Len(w) = l
    <2>1. w \in [1 .. l -> Byte]
      BY <1>6, <1>8
    <2>2. QED
      BY <2>1, FunctionSeq
  <1>10. \A i \in 1 .. n : i <= pos => w[i] = data[i]
    BY <1>4, <1>5, <1>6
  <1>11. ASSUME pos = n PROVE w = data \o s
    <2>1. l = n + m
      BY <1>4, <1>11
    <2>2. PICK c : c = data \o s
      OBVIOUS
    <2>3. c \in Seq(Byte) /\ Len(c) = n + m
          /\ \A i \in 1 .. n + m : c[i] = IF i <= n THEN data[i] ELSE s[i - n]
      BY <1>1, <1>2, <2>2, ConcatProperties
    <2>4. ASSUME NEW i \in 1 .. l PROVE w[i] = c[i]
      <3>1. CASE i <= n
        BY <1>10, <1>11, <2>1, <2>3, <3>1
      <3>2. CASE ~(i <= n)
        <4>1. i \in pos + 1 .. pos + m
          BY <1>11, <2>1, <3>2
        <4>2. QED
          BY <1>6, <1>11, <2>1, <2>3, <3>2, <4>1
      <3>3. QED
        BY <3>1, <3>2
    <2>5. QED
      BY <1>9, <2>1, <2>2, <2>3, <2>4, SeqEqual
  <1>12. n <= l /\ pos + m <= l
    BY <1>4
  <1>13. QED
    BY <1>1, <1>2, <1>7, <1>9, <1>10, <1>11, <1>12

\* What has been read stays, when no byte of it changes.
LEMMA BeginningStays ==
  ASSUME NEW d \in Seq(Byte), NEW e \in Seq(Byte), NEW p \in Nat, p <= Len(d), p <= Len(e),
         \A i \in 1 .. p : e[i] = d[i]
  PROVE  SubSeq(e, 1, p) = SubSeq(d, 1, p)
  <1>1. /\ SubSeq(e, 1, p) \in Seq(Byte) /\ Len(SubSeq(e, 1, p)) = p
        /\ \A i \in 1 .. p : SubSeq(e, 1, p)[i] = e[i]
    <2>1. \A i \in 1 .. p : e[i] \in Byte
      BY ElementOfSeq
    <2>2. QED
      BY <2>1, SubSeqProperties
  <1>2. /\ SubSeq(d, 1, p) \in Seq(Byte) /\ Len(SubSeq(d, 1, p)) = p
        /\ \A i \in 1 .. p : SubSeq(d, 1, p)[i] = d[i]
    <2>1. \A i \in 1 .. p : d[i] \in Byte
      BY ElementOfSeq
    <2>2. QED
      BY <2>1, SubSeqProperties
  <1>3. QED
    BY <1>1, <1>2, SeqEqual

-----------------------------------------------------------------------------
(* What is read. *)

LEMMA LeftFacts ==
  ASSUME data \in Seq(Byte), posRead \in Nat
  PROVE  Left \in Nat /\ (Left > 0 => posRead + Left <= Len(data))
         /\ (posRead <= Len(data) => posRead + Left <= Len(data))
  <1>1. PICK n \in Nat : n = Len(data)
    OBVIOUS
  <1>2. PICK ok \in BOOLEAN : ok = (Readable /\ posRead <= Len(data))
    OBVIOUS
  <1>3. Left = IF ok THEN n - posRead ELSE 0
    BY <1>1, <1>2 DEF Left
  <1>4. ok => posRead <= n
    BY <1>1, <1>2
  <1>5. CASE ok = TRUE
    <2>1. Left = n - posRead /\ posRead <= n
      BY <1>3, <1>4, <1>5
    <2>2. QED
      BY <1>1, <2>1
  <1>6. CASE ok = FALSE
    <2>1. Left = 0
      BY <1>3, <1>6
    <2>2. QED
      BY <1>1, <2>1
  <1>7. QED
    BY <1>5, <1>6

\* What is taken is not more than there is, and taking so much gives the same.
LEMMA TakeFacts ==
  ASSUME data \in Seq(Byte), posRead \in Nat, NEW n \in Nat
  PROVE  /\ Take(n) \in Seq(Byte)
         /\ Len(Take(n)) = IF n < Left THEN n ELSE Left
         /\ Take(Len(Take(n))) = Take(n)
  <1>1. PICK l \in Nat : l = Left /\ (l > 0 => posRead + l <= Len(data))
    BY LeftFacts
  <1>2. PICK k \in Nat : k = (IF n < l THEN n ELSE l) /\ k <= l
    OBVIOUS
  <1>3. Take(n) = SubSeq(data, posRead + 1, posRead + k)
    BY <1>1, <1>2 DEF Take
  <1>4. Take(k) = SubSeq(data, posRead + 1, posRead + k)
    <2>1. k = IF k < l THEN k ELSE l
      BY <1>2
    <2>2. Take(k) = SubSeq(data, posRead + 1, posRead + IF k < l THEN k ELSE l)
      BY <1>1 DEF Take
    <2>3. QED
      BY <2>1, <2>2
  <1>5. ASSUME NEW i \in posRead + 1 .. posRead + k PROVE data[i] \in Byte
    <2>1. PICK d \in Nat : d = Len(data)
      OBVIOUS
    <2>2. i \in 1 .. d
      BY <1>1, <1>2, <2>1
    <2>3. QED
      BY <2>1, <2>2, ElementOfSeq
  <1>6. Take(n) \in Seq(Byte) /\ Len(Take(n)) = k
    <2>1. posRead + 1 \in Int /\ posRead + k \in Int
      OBVIOUS
    <2>2. SubSeq(data, posRead + 1, posRead + k) \in Seq(Byte)
          /\ Len(SubSeq(data, posRead + 1, posRead + k))
               = IF posRead + 1 <= posRead + k THEN posRead + k - (posRead + 1) + 1 ELSE 0
      BY <1>5, <2>1, SubSeqProperties
    <2>3. QED
      BY <1>3, <2>2
  <1>7. QED
    BY <1>1, <1>2, <1>3, <1>4, <1>6

\* The least of the places at which a test holds.
LEMMA LeastPlace ==
  ASSUME NEW I \in SUBSET Nat, I # {}
  PROVE  Min(I) \in I
  <1>1. PICK m \in I : \A j \in I : m <= j
    BY LeastNumber
  <1>2. QED
    BY <1>1 DEF Min

\* A text is a beginning of what was read, and all of it if it has no zero.
LEMMA TextFacts ==
  ASSUME NEW s \in Seq(Byte)
  PROVE  Text(s) \in Seq(Byte) /\ (Nul \notin ToSet(s) => Text(s) = s)
  <1>1. PICK n \in Nat : n = Len(s) /\ DOMAIN s = 1 .. n
    OBVIOUS
  <1>2. PICK t : t = s \o <<Nul>>
    OBVIOUS
  <1>3. Len(t) = n + 1 /\ t[n + 1] = Nul /\ \A i \in 1 .. n : t[i] = s[i]
    <2>1. <<Nul>> \in Seq(Byte) /\ Len(<<Nul>>) = 1 /\ <<Nul>>[1] = Nul
      BY NulAssumption DEF Byte
    <2>2. QED
      BY <1>1, <1>2, <2>1, ConcatProperties
  <1>4. PICK I : I = {i \in 1 .. n + 1 : t[i] = Nul}
    OBVIOUS
  <1>5. n + 1 \in I /\ I \in SUBSET Nat /\ I \subseteq 1 .. n + 1
    BY <1>3, <1>4
  <1>6. Min(I) \in I
    BY <1>5, LeastPlace
  <1>7. Text(s) = SubSeq(s, 1, Min(I) - 1)
    BY <1>2, <1>3, <1>4, <1>5 DEF Text, SelectInSeq
  <1>8. PICK k \in 0 .. n : k = Min(I) - 1
    <2>1. \A j \in 1 .. n + 1 : j - 1 \in 0 .. n
      OBVIOUS
    <2>2. Min(I) \in 1 .. n + 1
      BY <1>5, <1>6
    <2>3. QED
      BY <2>1, <2>2
  <1>9. Text(s) \in Seq(Byte)
    <2>1. \A i \in 1 .. k : s[i] \in Byte
      BY <1>1, ElementOfSeq
    <2>2. QED
      BY <1>7, <1>8, <2>1, SubSeqProperties
  <1>10. ASSUME Nul \notin ToSet(s) PROVE Text(s) = s
    <2>1. \A i \in 1 .. n : s[i] # Nul
      BY <1>1, <1>10 DEF ToSet
    <2>2. Min(I) = n + 1
      BY <1>3, <1>4, <1>5, <1>6, <2>1
    <2>3. k = n
      BY <1>8, <2>2
    <2>4. QED
      BY <1>1, <1>7, <1>8, <2>3, SubSeqFull
  <1>11. QED
    BY <1>9, <1>10

\* A line is not more than there is.
LEMMA ConsumedFacts ==
  ASSUME data \in Seq(Byte), posRead \in Nat, NEW sep
  PROVE  Consumed(sep) \in Nat /\ Consumed(sep) <= Left
  <1>1. PICK l \in Nat : l = Left
    BY LeftFacts
  <1>2. PICK rest \in Seq(Byte) : rest = Take(l) /\ Len(rest) = l
    BY <1>1, TakeFacts
  <1>3. CASE sep \in ToSet(rest)
    <2>1. PICK I : I = {i \in 1 .. l : rest[i] = sep}
      OBVIOUS
    <2>2. I # {}
      BY <1>2, <1>3, <2>1 DEF ToSet
    <2>3. Min(I) \in I
      BY <2>1, <2>2, LeastPlace
    <2>4. Consumed(sep) = Min(I)
      BY <1>1, <1>2, <1>3, <2>1, <2>2 DEF Consumed, SelectInSeq
    <2>5. QED
      BY <1>1, <2>1, <2>3, <2>4
  <1>4. CASE sep \notin ToSet(rest)
    BY <1>1, <1>2, <1>4 DEF Consumed
  <1>5. QED
    BY <1>3, <1>4

\* What the readers keep: where they are, and that they have given all.
ReadingFits ==
  /\ data \in Seq(Byte) /\ posRead \in Nat /\ straight \in BOOLEAN
  /\ ReadsInOrder

LEMMA GivesKeeps ==
  ASSUME ReadingFits, UNCHANGED data, NEW n \in Nat, n <= Left, NEW s,
         NEW cut \in BOOLEAN, Gives(s, n, cut), cut = FALSE => s = Take(n)
  PROVE  ReadingFits'
  <1>1. /\ data \in Seq(Byte) /\ posRead \in Nat /\ straight \in BOOLEAN
        /\ data' = data /\ posRead' = posRead + n /\ straight' = (straight /\ ~cut)
        /\ got' = IF straight' THEN got \o s ELSE <<>>
    BY DEF ReadingFits, Gives
  <1>2. posRead' \in Nat /\ straight' \in BOOLEAN
    BY <1>1
  <1>3. ASSUME straight' PROVE got' = SubSeq(data, 1, posRead + n) /\ posRead + n <= Len(data)
    <2>1. straight /\ cut = FALSE
      BY <1>1, <1>3
    <2>2. got = SubSeq(data, 1, posRead) /\ posRead <= Len(data)
      BY <2>1 DEF ReadingFits, ReadsInOrder
    <2>3. PICK l \in Nat : l = Left /\ posRead + l <= Len(data)
      BY <1>1, <2>2, LeftFacts
    <2>4. posRead + n <= Len(data)
      <3>1. PICK d \in Nat : d = Len(data)
        BY <1>1
      <3>2. QED
        BY <1>1, <2>3, <3>1
    <2>5. s = SubSeq(data, posRead + 1, posRead + n)
      <3>1. n = IF n < l THEN n ELSE l
        BY <2>3
      <3>2. Take(n) = SubSeq(data, posRead + 1, posRead + IF n < l THEN n ELSE l)
        BY <2>3 DEF Take
      <3>3. QED
        BY <2>1, <3>1, <3>2
    <2>6. got' = SubSeq(data, 1, posRead) \o SubSeq(data, posRead + 1, posRead + n)
      BY <1>1, <1>3, <2>2, <2>5
    <2>7. PICK d \in Nat : d = Len(data)
      BY <1>1
    <2>8. 1 \in 1 .. d + 1 /\ posRead \in 1 - 1 .. d /\ posRead + n \in posRead .. d
      BY <1>1, <2>2, <2>4, <2>7
    <2>9. QED
      BY <1>1, <2>4, <2>6, <2>7, <2>8, ConcatAdjacentSubSeq
  <1>4. QED
    BY <1>1, <1>2, <1>3 DEF ReadingFits, ReadsInOrder

\* What is written next comes after all data.
WritesAtEnd == whole = <<>> /\ Writable /\ Len(data) = IF kind = "file" THEN posRead ELSE posWrite

LEMMA WriteKeeps ==
  ASSUME ReadingFits, posWrite \in Nat, NEW s \in Seq(Byte), DeviceWrite(s), UNCHANGED file
  PROVE  /\ ReadingFits' /\ posWrite' \in Nat
         /\ kind # "array" => posWrite' = posWrite
         /\ WritesAtEnd /\ whole' = <<>> => data' = data \o s /\ WritesAtEnd'
  <1>1. CASE ~Writable
    <2>1. UNCHANGED <<device, reading>> /\ kind # "array"
      BY <1>1 DEF DeviceWrite, Writable
    <2>2. QED
      BY <1>1, <2>1 DEF device, reading, ReadingFits, ReadsInOrder, WritesAtEnd
  <1>2. CASE kind = "array"
    <2>1. /\ data' = Written(posWrite, s) /\ posWrite' = posWrite + Len(s)
          /\ straight' = (straight /\ posWrite >= posRead) /\ posRead' = posRead /\ got' = got
      BY <1>2 DEF DeviceWrite, ArrayWrite, Writable
    <2>2. data \in Seq(Byte) /\ posRead \in Nat /\ straight \in BOOLEAN
      BY DEF ReadingFits
    <2>3. /\ data' \in Seq(Byte) /\ Len(data) <= Len(data')
          /\ \A i \in 1 .. Len(data) : i <= posWrite => data'[i] = data[i]
          /\ posWrite = Len(data) => data' = data \o s
      BY <2>1, <2>2, WrittenFits
    <2>4. ASSUME straight' PROVE got' = SubSeq(data', 1, posRead') /\ posRead' <= Len(data')
      <3>1. straight /\ posWrite >= posRead
        BY <2>1, <2>4
      <3>2. got = SubSeq(data, 1, posRead) /\ posRead <= Len(data)
        BY <3>1 DEF ReadingFits, ReadsInOrder
      <3>3. posRead <= Len(data')
        <4>1. PICK d \in Nat, e \in Nat : d = Len(data) /\ e = Len(data')
          BY <2>2, <2>3
        <4>2. QED
          BY <2>2, <2>3, <3>2, <4>1
      <3>4. \A i \in 1 .. posRead : data'[i] = data[i]
        <4>1. PICK d \in Nat : d = Len(data)
          BY <2>2
        <4>2. QED
          BY <2>2, <2>3, <3>1, <3>2, <4>1
      <3>5. SubSeq(data', 1, posRead) = SubSeq(data, 1, posRead)
        BY <2>2, <2>3, <3>2, <3>3, <3>4, BeginningStays
      <3>6. QED
        BY <2>1, <3>2, <3>3, <3>5
    <2>5. posWrite' \in Nat /\ straight' \in BOOLEAN /\ posRead' \in Nat
      <3>1. Len(s) \in Nat
        OBVIOUS
      <3>2. (posWrite >= posRead) \in BOOLEAN
        BY <2>2
      <3>3. QED
        BY <2>1, <2>2, <3>1, <3>2
    <2>6. ASSUME posWrite = Len(data) PROVE data' = data \o s /\ posWrite' = Len(data')
      <3>1. data' = data \o s
        BY <2>3, <2>6
      <3>2. Len(data \o s) = Len(data) + Len(s)
        BY <2>2, ConcatProperties
      <3>3. QED
        BY <2>1, <2>6, <3>1, <3>2
    <2>7. ReadingFits' /\ posWrite' \in Nat
      BY <2>3, <2>4, <2>5 DEF ReadingFits, ReadsInOrder
    <2>8. WritesAtEnd /\ whole' = <<>> => data' = data \o s /\ WritesAtEnd'
      BY <1>2, <2>6 DEF WritesAtEnd, Writable, file
    <2>9. QED
      BY <1>2, <2>7, <2>8
  <1>3. CASE kind = "file" /\ Writable
    <2>1. /\ data' = Written(posRead, s) /\ posRead' = posRead + Len(s)
          /\ straight' = FALSE /\ posWrite' = posWrite
      BY <1>3 DEF DeviceWrite, FileWrite
    <2>2. data \in Seq(Byte) /\ posRead \in Nat /\ Len(s) \in Nat
      BY DEF ReadingFits
    <2>3. data' \in Seq(Byte) /\ (posRead = Len(data) => data' = data \o s)
      BY <2>1, <2>2, WrittenFits
    <2>4. posRead' \in Nat /\ straight' \in BOOLEAN
      <3>1. posRead' \in Nat
        BY <2>1, <2>2
      <3>2. straight' = FALSE
        BY <2>1
      <3>3. QED
        BY <3>1, <3>2
    <2>5. ReadingFits'
      <3>1. ReadsInOrder'
        BY <2>1 DEF ReadsInOrder
      <3>2. QED
        BY <2>3, <2>4, <3>1 DEF ReadingFits
    <2>6. ASSUME posRead = Len(data) PROVE data' = data \o s /\ posRead' = Len(data')
      <3>1. data' = data \o s /\ Len(data \o s) = Len(data) + Len(s)
        BY <2>2, <2>3, <2>6, ConcatProperties
      <3>2. QED
        BY <2>1, <2>6, <3>1
    <2>7. WritesAtEnd /\ whole' = <<>> => data' = data \o s /\ WritesAtEnd'
      BY <1>3, <2>6 DEF WritesAtEnd, Writable, file
    <2>8. QED
      BY <1>3, <2>1, <2>5, <2>7
  <1>4. QED
    BY <1>1, <1>2, <1>3 DEF Writable

LEMMA ReadsItselfKeeps ==
  ASSUME ReadingFits, NEW n \in Nat, ReadsItself(n)
  PROVE  ReadingFits' /\ kind = "array" /\ posWrite' = posWrite
  <1>1. PICK old \in Nat : old = Len(data)
    BY DEF ReadingFits
  <1>2. data \in Seq(Byte) /\ posRead \in Nat /\ straight \in BOOLEAN
    BY DEF ReadingFits
  <1>3. PICK m \in Nat : m = IF posRead > old + n THEN 0 ELSE IF posRead > old THEN old + n - posRead ELSE n
    <2>1. PICK p \in Nat : p = posRead
      BY <1>2
    <2>2. CASE p > old + n
      BY <2>1, <2>2
    <2>3. CASE p > old /\ ~(p > old + n)
      <3>1. old + n - p \in Nat
        BY <2>3
      <3>2. QED
        BY <2>1, <2>3, <3>1
    <2>4. CASE ~(p > old)
      <3>1. ~(p > old + n)
        BY <2>4
      <3>2. QED
        BY <2>1, <2>4, <3>1
    <2>5. QED
      BY <2>2, <2>3, <2>4
  <1>4. PICK s \in [1 .. m -> Bytes] : data' = data \o s
    BY <1>1, <1>3 DEF ReadsItself
  <1>5. s \in Seq(Bytes) /\ Len(s) = m
    BY FunctionSeq
  <1>6. s \in Seq(Byte)
    BY <1>5, SeqMonotonic DEF Byte
  <1>7. data' \in Seq(Byte)
    BY <1>2, <1>4, <1>6, ConcatProperties
  <1>8. /\ kind = "array" /\ posRead' = posRead + m /\ straight' = (straight /\ m = 0)
        /\ got' = got /\ posWrite' = posWrite
    BY <1>1, <1>3 DEF ReadsItself
  <1>9. ASSUME straight' PROVE got' = SubSeq(data', 1, posRead') /\ posRead' <= Len(data')
    <2>1. straight /\ m = 0
      BY <1>8, <1>9
    <2>2. s = <<>>
      BY <1>5, <2>1
    <2>3. data' = data
      BY <1>2, <1>4, <2>2
    <2>4. posRead' = posRead
      BY <1>2, <1>8, <2>1
    <2>5. QED
      BY <1>8, <2>1, <2>3, <2>4 DEF ReadingFits, ReadsInOrder
  <1>10. posRead' \in Nat /\ straight' \in BOOLEAN
    BY <1>2, <1>8
  <1>11. QED
    BY <1>7, <1>8, <1>9, <1>10 DEF ReadingFits, ReadsInOrder

-----------------------------------------------------------------------------
(* What print is meant to write. *)

Delimiter == {<<>>, <<"f">>}
CallType == [args : Seq(Argument), next : Nat, delim : Delimiter, saved : Separator, from : Nat]

\* Parts put together.
Together(parts) == FoldLeft(Joint, <<>>, parts)

\* What an argument is to be followed by, if it is the i-th.
Follows(c, i) == IF i < Len(c.args) THEN c.delim ELSE <<>>
Parts(c) == [i \in DOMAIN c.args |-> PartOf(c.args[i], c.delim) \o Follows(c, i)]

\* What a call has to have written before its next argument.
Upto(c) == Together(SubSeq(Parts(c), 1, c.next - 1))

LEMMA JointFolds ==
  /\ Together(<<>>) = <<>>
  /\ \A E : \A s \in Seq(E), e \in E :
       Together(Append(s, e)) = Together(s) \o e
  <1>1. \A s : Together(s) = PartFold!Fold(<<>>, s)
    BY DEF Together, FoldLeft, MapThenFoldSet, Max, PartFold!Fold, PartFold!Folding, PartFold!Largest
  <1>2. ASSUME NEW E, NEW s \in Seq(E), NEW e \in E
        PROVE  Together(Append(s, e)) = Together(s) \o e
    <2>1. PartFold!Fold(<<>>, Append(s, e)) = Joint(PartFold!Fold(<<>>, s), e)
      BY PartFold!FoldMore
    <2>2. QED
      BY <1>1, <2>1 DEF Joint
  <1>3. QED
    BY <1>1, <1>2, PartFold!FoldNothing

LEMMA JointTypes ==
  \A s \in Seq(Seq(Byte)) : Together(s) \in Seq(Byte)
  <1> DEFINE T == {s \in Seq(Seq(Byte)) : Together(s) \in Seq(Byte)}
  <1>1. <<>> \in T
    <2>1. <<>> \in Seq(Seq(Byte)) /\ <<>> \in Seq(Byte)
      BY EmptySeq
    <2>2. QED
      BY <2>1, JointFolds
  <1>2. ASSUME NEW s \in T, NEW e \in Seq(Byte) PROVE Append(s, e) \in T
    <2>1. Together(Append(s, e)) = Together(s) \o e
      BY JointFolds
    <2>2. Together(s) \o e \in Seq(Byte)
      BY ConcatProperties
    <2>3. Append(s, e) \in Seq(Seq(Byte))
      BY AppendProperties
    <2>4. QED
      BY <2>1, <2>2, <2>3
  <1>3. T = Seq(Seq(Byte))
    <2> HIDE DEF T
    <2>1. T \subseteq Seq(Seq(Byte))
      BY DEF T
    <2>2. QED
      BY <1>1, <1>2, <2>1, SequenceInduction
  <1>4. QED
    BY <1>3

LEMMA ArgumentFacts ==
  ASSUME NEW a \in Argument
  PROVE  /\ "list" \in DOMAIN a => a.list \in Seq(Single)
         /\ "text" \in DOMAIN a => "list" \notin DOMAIN a /\ a.text \in Seq(Bytes)
         /\ "assigns" \in DOMAIN a =>
              "list" \notin DOMAIN a /\ "text" \notin DOMAIN a /\ a.assigns \in {<<"r">>, <<"f">>}
  <1>1. CASE a \in [text : Seq(Bytes)]
    <2>1. DOMAIN a = {"text"} /\ a.text \in Seq(Bytes)
      BY <1>1
    <2>2. QED
      BY <2>1
  <1>2. CASE a \in [throws : {TRUE}]
    <2>1. DOMAIN a = {"throws"}
      BY <1>2
    <2>2. QED
      BY <2>1
  <1>3. CASE a \in [assigns : {<<"r">>, <<"f">>}]
    <2>1. DOMAIN a = {"assigns"} /\ a.assigns \in {<<"r">>, <<"f">>}
      BY <1>3
    <2>2. QED
      BY <2>1
  <1>4. CASE a \in [list : Seq(Single)]
    <2>1. DOMAIN a = {"list"} /\ a.list \in Seq(Single)
      BY <1>4
    <2>2. QED
      BY <2>1
  <1>5. QED
    BY <1>1, <1>2, <1>3, <1>4 DEF Argument, Single

LEMMA SingleFacts ==
  ASSUME NEW a \in Single
  PROVE  a \in Argument /\ "list" \notin DOMAIN a
  <1>1. a \in Argument
    BY DEF Argument
  <1>2. CASE a \in [text : Seq(Bytes)]
    <2>1. DOMAIN a = {"text"}
      BY <1>2
    <2>2. QED
      BY <1>1, <2>1
  <1>3. CASE a \in [throws : {TRUE}]
    <2>1. DOMAIN a = {"throws"}
      BY <1>3
    <2>2. QED
      BY <1>1, <2>1
  <1>4. CASE a \in [assigns : {<<"r">>, <<"f">>}]
    <2>1. DOMAIN a = {"assigns"}
      BY <1>4
    <2>2. QED
      BY <1>1, <2>1
  <1>5. QED
    BY <1>2, <1>3, <1>4 DEF Single

\* What separates is made of bytes.
LEMMA DelimiterTypes ==
  \A d \in Delimiter : d \in Seq(Byte)
  <1>1. "f" \in Byte
    BY DEF Byte
  <1>2. <<"f">> \in Seq(Byte) /\ <<>> \in Seq(Byte)
    BY <1>1
  <1>3. QED
    BY <1>2 DEF Delimiter

LEMMA TextTypes ==
  ASSUME NEW a \in Argument
  PROVE  TextOf(a) \in Seq(Byte)
  <1>1. CASE "text" \in DOMAIN a
    <2>1. a.text \in Seq(Bytes)
      BY <1>1, ArgumentFacts
    <2>2. a.text \in Seq(Byte)
      BY <2>1, SeqMonotonic DEF Byte
    <2>3. QED
      BY <1>1, <2>2, TextFacts DEF TextOf
  <1>2. CASE "text" \notin DOMAIN a
    BY <1>2 DEF TextOf
  <1>3. QED
    BY <1>1, <1>2

\* The parts of a list of arguments that have each been made into a text.
Pieces(parts, delim) == [i \in DOMAIN parts |-> parts[i] \o (IF i < Len(parts) THEN delim ELSE <<>>)]

LEMMA PiecesTypes ==
  ASSUME NEW parts \in Seq(Seq(Byte)), NEW delim \in Delimiter
  PROVE  Pieces(parts, delim) \in Seq(Seq(Byte)) /\ Len(Pieces(parts, delim)) = Len(parts)
         /\ Joined(parts, delim) \in Seq(Byte)
  <1>1. PICK n \in Nat : n = Len(parts) /\ DOMAIN parts = 1 .. n
    OBVIOUS
  <1>2. ASSUME NEW i \in 1 .. n PROVE parts[i] \o (IF i < n THEN delim ELSE <<>>) \in Seq(Byte)
    <2>1. parts[i] \in Seq(Byte)
      BY <1>1, ElementOfSeq
    <2>2. delim \in Seq(Byte) /\ <<>> \in Seq(Byte)
      BY DelimiterTypes
    <2>3. PICK d \in Seq(Byte) : d = IF i < n THEN delim ELSE <<>>
      <3>1. CASE i < n
        BY <2>2, <3>1
      <3>2. CASE ~(i < n)
        BY <2>2, <3>2
      <3>3. QED
        BY <3>1, <3>2
    <2>4. QED
      BY <2>1, <2>3, ConcatProperties
  <1>3. Pieces(parts, delim) \in [1 .. n -> Seq(Byte)]
    BY <1>1, <1>2 DEF Pieces
  <1>4. Pieces(parts, delim) \in Seq(Seq(Byte)) /\ Len(Pieces(parts, delim)) = n
    BY <1>3, FunctionSeq
  <1>5. Joined(parts, delim) = Together(Pieces(parts, delim))
    BY DEF Joined, Pieces, Together
  <1>6. QED
    BY <1>1, <1>4, <1>5, JointTypes

\* The texts of an array's elements.
LEMMA TextsTypes ==
  ASSUME NEW s \in Seq(Single)
  PROVE  [i \in DOMAIN s |-> TextOf(s[i])] \in Seq(Seq(Byte))
         /\ Len([i \in DOMAIN s |-> TextOf(s[i])]) = Len(s)
  <1>1. PICK n \in Nat : n = Len(s) /\ DOMAIN s = 1 .. n
    OBVIOUS
  <1>2. \A i \in 1 .. n : TextOf(s[i]) \in Seq(Byte)
    BY <1>1, ElementOfSeq, SingleFacts, TextTypes
  <1>3. [i \in DOMAIN s |-> TextOf(s[i])] \in [1 .. n -> Seq(Byte)]
    BY <1>1, <1>2
  <1>4. QED
    BY <1>1, <1>3, FunctionSeq

LEMMA PartTypes ==
  ASSUME NEW a \in Argument, NEW delim \in Delimiter
  PROVE  PartOf(a, delim) \in Seq(Byte)
  <1>1. CASE "list" \in DOMAIN a
    <2>1. a.list \in Seq(Single)
      BY <1>1, ArgumentFacts
    <2>2. PICK t \in Seq(Seq(Byte)) : t = [i \in DOMAIN a.list |-> TextOf(a.list[i])]
      BY <2>1, TextsTypes
    <2>3. Joined(t, delim) \in Seq(Byte)
      BY PiecesTypes
    <2>4. QED
      BY <1>1, <2>2, <2>3 DEF PartOf
  <1>2. CASE "list" \notin DOMAIN a
    BY <1>2, TextTypes DEF PartOf
  <1>3. QED
    BY <1>1, <1>2

\* The parts of a call, as they are joined.
LEMMA PartsFacts ==
  ASSUME NEW c \in CallType
  PROVE  /\ Parts(c) \in Seq(Seq(Byte)) /\ Len(Parts(c)) = Len(c.args)
         /\ \A end : Meant(c, end) = Together(Parts(c)) \o end
  <1>1. PICK n \in Nat : n = Len(c.args) /\ DOMAIN c.args = 1 .. n
    BY DEF CallType
  <1>2. c.args \in Seq(Argument) /\ c.delim \in Delimiter
    BY DEF CallType
  <1>3. PICK p : p = [i \in DOMAIN c.args |-> PartOf(c.args[i], c.delim)]
    OBVIOUS
  <1>4. \A i \in 1 .. n : PartOf(c.args[i], c.delim) \in Seq(Byte)
    BY <1>1, <1>2, ElementOfSeq, PartTypes
  <1>5. p \in [1 .. n -> Seq(Byte)]
    BY <1>1, <1>3, <1>4
  <1>6. p \in Seq(Seq(Byte)) /\ Len(p) = n /\ DOMAIN p = 1 .. n
    BY <1>5, FunctionSeq
  <1>7. Parts(c) = Pieces(p, c.delim)
    BY <1>1, <1>3, <1>6 DEF Parts, Pieces, Follows
  <1>8. \A end : Meant(c, end) = Joined(p, c.delim) \o end
    BY <1>3 DEF Meant
  <1>9. Joined(p, c.delim) = Together(Pieces(p, c.delim))
    BY DEF Joined, Pieces, Together
  <1>10. QED
    BY <1>1, <1>2, <1>6, <1>7, <1>8, <1>9, PiecesTypes

LEMMA UptoFirst ==
  ASSUME NEW c \in CallType, c.next = 1
  PROVE  Upto(c) = <<>>
  <1>1. SubSeq(Parts(c), 1, 0) = <<>>
    BY SubSeqEmpty
  <1>2. c.next - 1 = 0
    OBVIOUS
  <1>3. QED
    BY <1>1, <1>2, JointFolds DEF Upto

LEMMA UptoTypes ==
  ASSUME NEW c \in CallType, c.next \in 1 .. Len(c.args) + 1
  PROVE  Upto(c) \in Seq(Byte)
  <1>1. PICK n \in Nat : n = Len(c.args)
    BY DEF CallType
  <1>2. PICK k \in 0 .. n : k = c.next - 1
    <2>1. \A j \in 1 .. n + 1 : j - 1 \in 0 .. n
      OBVIOUS
    <2>2. QED
      BY <1>1, <2>1
  <1>3. PICK p \in Seq(Seq(Byte)) : p = Parts(c) /\ Len(p) = n
    BY <1>1, PartsFacts
  <1>4. \A i \in 1 .. k : p[i] \in Seq(Byte)
    BY <1>3, ElementOfSeq
  <1>5. SubSeq(p, 1, k) \in Seq(Seq(Byte))
    BY <1>4, SubSeqProperties
  <1>6. QED
    BY <1>2, <1>3, <1>5, JointTypes DEF Upto

\* An argument more.
LEMMA UptoNext ==
  ASSUME NEW c \in CallType, c.next \in 1 .. Len(c.args)
  PROVE  /\ After(c) \in CallType
         /\ After(c).next = c.next + 1 /\ After(c).next \in 1 .. Len(After(c).args) + 1
         /\ After(c).args = c.args /\ After(c).delim = c.delim
         /\ After(c).saved = c.saved /\ After(c).from = c.from
         /\ Delim(c) \in Seq(Byte)
         /\ PartOf(c.args[c.next], c.delim) \in Seq(Byte)
         /\ Upto(After(c)) = Upto(c) \o (PartOf(c.args[c.next], c.delim) \o Delim(c))
  <1>1. PICK n \in Nat : n = Len(c.args) /\ DOMAIN c.args = 1 .. n
    BY DEF CallType
  <1>2. PICK k \in 1 .. n : k = c.next
    BY <1>1
  <1>3. /\ After(c) \in CallType /\ After(c).next = k + 1
        /\ After(c).args = c.args /\ After(c).delim = c.delim
        /\ After(c).saved = c.saved /\ After(c).from = c.from
    <2>1. k + 1 \in Nat
      OBVIOUS
    <2>2. QED
      BY <1>2, <2>1 DEF CallType, After
  <1>4. Delim(c) = Follows(c, k)
    BY <1>2 DEF Delim, Follows
  <1>5. PICK p \in Seq(Seq(Byte)) : p = Parts(c) /\ Len(p) = n
    BY <1>1, PartsFacts
  <1>6. Parts(After(c)) = p
    BY <1>3, <1>5 DEF Parts, Follows
  <1>7. p[k] = PartOf(c.args[c.next], c.delim) \o Delim(c) /\ p[k] \in Seq(Byte)
    BY <1>1, <1>2, <1>4, <1>5, ElementOfSeq DEF Parts
  <1>8. SubSeq(p, 1, k) = SubSeq(p, 1, k - 1) \o <<p[k]>>
    <2>1. 1 \in 1 .. Len(p) /\ k \in 1 .. Len(p)
      BY <1>5
    <2>2. QED
      BY <2>1, SubSeqRecursiveSecond
  <1>9. SubSeq(p, 1, k - 1) \in Seq(Seq(Byte))
    <2>1. \A i \in 1 .. k - 1 : p[i] \in Seq(Byte)
      BY <1>5, ElementOfSeq
    <2>2. QED
      BY <2>1, SubSeqProperties
  <1>10. SubSeq(p, 1, k) = Append(SubSeq(p, 1, k - 1), p[k])
    BY <1>7, <1>8, <1>9, AppendIsConcat
  <1>11. Upto(After(c)) = Together(SubSeq(p, 1, k))
    <2>1. After(c).next - 1 = k
      BY <1>3
    <2>2. QED
      BY <1>6, <2>1 DEF Upto
  <1>12. Upto(c) = Together(SubSeq(p, 1, k - 1))
    BY <1>2, <1>5 DEF Upto
  <1>13. Upto(After(c)) = Upto(c) \o p[k]
    <2>1. PICK s \in Seq(Seq(Byte)), e \in Seq(Byte) : s = SubSeq(p, 1, k - 1) /\ e = p[k]
      BY <1>7, <1>9
    <2>2. Together(Append(s, e)) = Together(s) \o e
      BY JointFolds
    <2>3. QED
      BY <1>10, <1>11, <1>12, <2>1, <2>2
  <1>14. Delim(c) \in Seq(Byte)
    <2>1. c.delim \in Delimiter /\ <<>> \in Seq(Byte)
      BY DEF CallType
    <2>2. CASE k < n
      BY <1>1, <1>2, <2>1, <2>2, DelimiterTypes DEF Delim
    <2>3. CASE ~(k < n)
      BY <1>1, <1>2, <2>1, <2>3 DEF Delim
    <2>4. QED
      BY <2>2, <2>3
  <1>15. PartOf(c.args[c.next], c.delim) \in Seq(Byte)
    <2>1. c.args[k] \in Argument /\ c.delim \in Delimiter
      BY <1>1, ElementOfSeq DEF CallType
    <2>2. QED
      BY <1>2, <2>1, PartTypes
  <1>16. After(c).next \in 1 .. Len(After(c).args) + 1
    BY <1>1, <1>3
  <1>17. QED
    BY <1>2, <1>3, <1>7, <1>13, <1>14, <1>15, <1>16

\* At the end everything has been written but the separator.
LEMMA UptoEnd ==
  ASSUME NEW c \in CallType, c.next = Len(c.args) + 1
  PROVE  /\ Upto(c) = Together(Parts(c))
         /\ \A end : Meant(c, end) = Upto(c) \o end
  <1>1. PICK n \in Nat : n = Len(c.args)
    BY DEF CallType
  <1>2. PICK p \in Seq(Seq(Byte)) : p = Parts(c) /\ Len(p) = n
    BY <1>1, PartsFacts
  <1>3. c.next - 1 = n
    BY <1>1
  <1>4. SubSeq(p, 1, n) = p
    BY <1>2, SubSeqFull
  <1>5. QED
    BY <1>2, <1>3, <1>4, PartsFacts DEF Upto

\* A print of an array's elements writes the array's part of the print around it.
LEMMA NestedWhole ==
  ASSUME NEW c \in CallType, c.next = Len(c.args) + 1, c.args \in Seq(Single),
         NEW a \in Argument, "list" \in DOMAIN a, a.list = c.args
  PROVE  Upto(c) = PartOf(a, c.delim)
  <1>1. PICK n \in Nat : n = Len(c.args) /\ DOMAIN c.args = 1 .. n
    BY DEF CallType
  <1>2. PICK t \in Seq(Seq(Byte)) :
          t = [i \in DOMAIN c.args |-> TextOf(c.args[i])] /\ Len(t) = n /\ DOMAIN t = 1 .. n
    BY <1>1, TextsTypes
  <1>3. \A i \in 1 .. n : PartOf(c.args[i], c.delim) = t[i]
    <2>1. \A i \in 1 .. n : "list" \notin DOMAIN c.args[i]
      BY <1>1, ElementOfSeq, SingleFacts
    <2>2. QED
      BY <1>1, <1>2, <2>1 DEF PartOf
  <1>4. Parts(c) = Pieces(t, c.delim)
    BY <1>1, <1>2, <1>3 DEF Parts, Pieces, Follows
  <1>5. PartOf(a, c.delim) = Together(Pieces(t, c.delim))
    BY <1>2 DEF PartOf, Joined, Pieces, Together
  <1>6. QED
    BY <1>4, <1>5, UptoEnd

-----------------------------------------------------------------------------
(* The invariant. *)

StreamTypes ==
  /\ kind \in {"array", "string", "file"}
  /\ posWrite \in Nat
  /\ fileOpen \in {Unset, NameA} /\ fileName \in {Unset, NameA, NameB}
  /\ field \in {Unset, <<"f">>} /\ record \in Separator /\ set \in Separator
  /\ whole \in {<<>>, <<TRUE>>, <<FALSE>>}
  /\ undone \in BOOLEAN
  /\ kind # "array" => posWrite = 0

FieldNow == IF field = Unset THEN <<>> ELSE field
PrintFits(c) == c.next \in 1 .. Len(c.args) + 1 /\ c.delim = FieldNow

\* A print that no other one is under way in has written what is before its
\* next argument; recordSeparator is as script has left it.
OneFits(c) ==
  /\ PrintFits(c) /\ c.from = 0
  /\ ~undone => record = set /\ data = Upto(c)

\* A print of an array's elements, in the print that the array is given to:
\* it has no separator, the other one has saved it.
TwoFit(i, o) ==
  /\ PrintFits(i) /\ PrintFits(o) /\ o.from = 0
  /\ i.args \in Seq(Single)
  /\ o.next \in 1 .. Len(o.args)
  /\ "list" \in DOMAIN o.args[o.next] /\ o.args[o.next].list = i.args
  /\ ~undone => record = Unset /\ o.saved = set /\ data = Upto(o) \o Upto(i)

PrintingFits ==
  prints # <<>> =>
    /\ prints \in Seq(CallType) /\ Len(prints) <= 2
    /\ WritesAtEnd
    /\ Len(prints) = 1 => OneFits(prints[1])
    /\ Len(prints) = 2 => TwoFit(prints[1], prints[2])

RestFits == prints = <<>> /\ ~undone => record = set

StreamInv == ReadingFits /\ StreamTypes /\ PrintingFits /\ RestFits /\ PrintsJoined

LEMMA ShortSequences ==
  ASSUME NEW S, NEW s \in Seq(S)
  PROVE  /\ Len(s) = 1 => s[1] \in S /\ s = <<s[1]>>
         /\ Len(s) = 2 => s[1] \in S /\ s[2] \in S /\ s = <<s[1], s[2]>>
  <1>1. ASSUME Len(s) = 1 PROVE s[1] \in S /\ s = <<s[1]>>
    <2>1. 1 \in 1 .. Len(s)
      BY <1>1
    <2>2. s[1] \in S
      BY <2>1, ElementOfSeq
    <2>3. <<s[1]>> \in Seq(S) /\ Len(<<s[1]>>) = 1 /\ \A i \in 1 .. 1 : <<s[1]>>[i] = s[i]
      BY <2>2
    <2>4. QED
      BY <1>1, <2>2, <2>3, SeqEqual
  <1>2. ASSUME Len(s) = 2 PROVE s[1] \in S /\ s[2] \in S /\ s = <<s[1], s[2]>>
    <2>1. 1 \in 1 .. Len(s) /\ 2 \in 1 .. Len(s)
      BY <1>2
    <2>2. s[1] \in S /\ s[2] \in S
      BY <2>1, ElementOfSeq
    <2>3. /\ <<s[1], s[2]>> \in Seq(S) /\ Len(<<s[1], s[2]>>) = 2
          /\ \A i \in 1 .. 2 : <<s[1], s[2]>>[i] = s[i]
      BY <2>2
    <2>4. QED
      BY <1>2, <2>2, <2>3, SeqEqual
  <1>3. QED
    BY <1>1, <1>2

LEMMA ThePrint ==
  ASSUME StreamInv, prints # <<>>
  PROVE  /\ WritesAtEnd
         /\ \/ \E c \in CallType : prints = <<c>> /\ OneFits(c)
            \/ \E i, o \in CallType : prints = <<i, o>> /\ TwoFit(i, o)
  <1>1. PICK n \in Nat : n = Len(prints) /\ n <= 2 /\ prints \in Seq(CallType)
    BY DEF StreamInv, PrintingFits
  <1>2. n # 0
    BY <1>1
  <1>3. CASE n = 1
    <2>1. prints = <<prints[1]>> /\ prints[1] \in CallType
      BY <1>1, <1>3, ShortSequences
    <2>2. OneFits(prints[1])
      BY <1>1, <1>3 DEF StreamInv, PrintingFits
    <2>3. QED
      BY <2>1, <2>2 DEF StreamInv, PrintingFits
  <1>4. CASE n = 2
    <2>1. prints = <<prints[1], prints[2]>> /\ prints[1] \in CallType /\ prints[2] \in CallType
      BY <1>1, <1>4, ShortSequences
    <2>2. TwoFit(prints[1], prints[2])
      BY <1>1, <1>4 DEF StreamInv, PrintingFits
    <2>3. QED
      BY <2>1, <2>2 DEF StreamInv, PrintingFits
  <1>5. QED
    BY <1>1, <1>2, <1>3, <1>4

LEMMA OneCall ==
  ASSUME NEW c \in CallType, prints' = <<c>>, OneFits(c)',
         WritesAtEnd'
  PROVE  PrintingFits' /\ RestFits'
  <1>1. Len(prints') = 1 /\ prints'[1] = c /\ prints' \in Seq(CallType) /\ prints' # <<>>
    OBVIOUS
  <1>2. QED
    BY <1>1 DEF PrintingFits, RestFits

LEMMA TwoCalls ==
  ASSUME NEW i \in CallType, NEW o \in CallType, prints' = <<i, o>>, TwoFit(i, o)',
         WritesAtEnd'
  PROVE  PrintingFits' /\ RestFits'
  <1>1. Len(prints') = 2 /\ prints'[1] = i /\ prints'[2] = o /\ prints' \in Seq(CallType) /\ prints' # <<>>
    OBVIOUS
  <1>2. QED
    BY <1>1 DEF PrintingFits, RestFits

\* Nothing is being printed.
LEMMA IdleStays ==
  ASSUME StreamInv, prints = <<>>, UNCHANGED printing
  PROVE  /\ PrintingFits' /\ RestFits' /\ PrintsJoined'
         /\ (record \in Separator /\ set \in Separator /\ undone \in BOOLEAN)'
  BY DEF StreamInv, PrintingFits, RestFits, PrintsJoined, printing, StreamTypes

LEMMA DelimNow ==
  ASSUME StreamInv
  PROVE  FieldNow \in Delimiter
  BY DEF StreamInv, StreamTypes, FieldNow, Delimiter

-----------------------------------------------------------------------------
(* The steps that read and write. *)

LEMMA readKeeps ==
  ASSUME StreamInv, NEW n \in Nat, read(n)
  PROVE  StreamInv'
  <1>1. PICK m \in Nat : m = IF n = 0 THEN Chunk ELSE n
    BY ChunkAssumption
  <1>2. ReadingFits /\ data \in Seq(Byte) /\ posRead \in Nat
    BY DEF StreamInv, ReadingFits
  <1>3. PICK s : s = Take(m)
    OBVIOUS
  <1>4. PICK l \in Nat : l = Left
    BY <1>2, LeftFacts
  <1>5. s \in Seq(Byte) /\ Len(s) \in Nat /\ Len(s) <= Left /\ Take(Len(s)) = s
    <2>1. Len(s) = IF m < l THEN m ELSE l
      BY <1>2, <1>3, <1>4, TakeFacts
    <2>2. QED
      BY <1>2, <1>3, <1>4, <2>1, TakeFacts
  <1>6. PICK cut \in BOOLEAN : cut = (Nul \in ToSet(s))
    <2>1. (Nul \in ToSet(s)) \in BOOLEAN
      BY DEF ToSet
    <2>2. QED
      BY ONLY <2>1
  <1>7. /\ Gives(Text(s), Len(s), cut) /\ prints = <<>> /\ whole = <<>>
        /\ UNCHANGED <<device, file, field, whole, printing>>
    BY <1>1, <1>3, <1>6 DEF read, Idle
  <1>8. cut = FALSE => Text(s) = Take(Len(s))
    BY <1>5, <1>6, TextFacts
  <1>9. ReadingFits'
    BY <1>2, <1>5, <1>7, <1>8, GivesKeeps DEF device
  <1>10. StreamTypes'
    BY <1>7 DEF StreamInv, StreamTypes, device, file, printing
  <1>11. QED
    BY <1>7, <1>9, <1>10, IdleStays DEF StreamInv

\* A reader gives all that it takes.
LEMMA GivenWhole ==
  ASSUME StreamInv, NEW n \in Nat, n <= Left, Gives(Take(n), n, FALSE), Idle,
         whole' \in {<<>>, <<TRUE>>, <<FALSE>>}, UNCHANGED <<device, file, field, printing>>
  PROVE  StreamInv'
  <1>1. ReadingFits'
    BY GivesKeeps DEF StreamInv, device
  <1>2. StreamTypes'
    BY DEF StreamInv, StreamTypes, device, file, printing
  <1>3. QED
    BY <1>1, <1>2, IdleStays DEF StreamInv, Idle

LEMMA WholeKeeps ==
  ASSUME StreamInv, read_whole
  PROVE  StreamInv'
  <1>1. PICK k \in Nat : k = Left /\ k <= Left
    BY LeftFacts DEF StreamInv, ReadingFits
  <1>2. Gives(Take(k), k, FALSE) /\ Idle /\ UNCHANGED <<device, file, field, whole, printing>>
    BY <1>1 DEF read_whole
  <1>3. whole' \in {<<>>, <<TRUE>>, <<FALSE>>}
    BY <1>2 DEF StreamInv, StreamTypes
  <1>4. QED
    BY <1>1, <1>2, <1>3, GivenWhole

LEMMA LineKeeps ==
  ASSUME StreamInv, NEW sep, read_line(sep)
  PROVE  StreamInv'
  <1>1. Consumed(sep) \in Nat /\ Consumed(sep) <= Left
    BY ConsumedFacts DEF StreamInv, ReadingFits
  <1>2. QED
    BY <1>1, GivenWhole DEF read_line, Line, StreamInv, StreamTypes

LEMMA ChunkTaken ==
  ASSUME StreamInv, NEW m \in Nat
  PROVE  Len(Take(m)) \in Nat /\ Len(Take(m)) <= Left /\ Take(Len(Take(m))) = Take(m)
  <1>1. data \in Seq(Byte) /\ posRead \in Nat
    BY DEF StreamInv, ReadingFits
  <1>2. PICK l \in Nat : l = Left
    BY <1>1, LeftFacts
  <1>3. Len(Take(m)) = IF m < l THEN m ELSE l
    BY <1>1, <1>2, TakeFacts
  <1>4. QED
    BY <1>1, <1>2, <1>3, TakeFacts

LEMMA BinaryKeeps ==
  ASSUME StreamInv, NEW n \in Nat, NEW itself \in BOOLEAN, read_binary(n, itself)
  PROVE  StreamInv'
  <1>1. PICK m \in Nat : m = IF n = 0 THEN Chunk ELSE n
    BY ChunkAssumption
  <1>2. /\ Idle /\ UNCHANGED <<file, field, whole, printing>>
        /\ \/ Gives(Take(m), Len(Take(m)), FALSE) /\ UNCHANGED device
           \/ ReadsItself(m)
    BY <1>1 DEF read_binary
  <1>3. CASE Gives(Take(m), Len(Take(m)), FALSE) /\ UNCHANGED device
    <2>1. PICK k \in Nat : k = Len(Take(m)) /\ k <= Left /\ Take(k) = Take(m)
      BY ChunkTaken
    <2>2. Gives(Take(k), k, FALSE)
      BY <1>3, <2>1
    <2>3. whole' \in {<<>>, <<TRUE>>, <<FALSE>>}
      BY <1>2 DEF StreamInv, StreamTypes
    <2>4. QED
      BY <1>2, <1>3, <2>1, <2>2, <2>3, GivenWhole
  <1>4. CASE ReadsItself(m)
    <2>1. ReadingFits' /\ posWrite' = posWrite
      BY <1>4, ReadsItselfKeeps DEF StreamInv
    <2>2. StreamTypes'
      BY <1>2, <2>1 DEF StreamInv, StreamTypes, file, printing
    <2>3. QED
      BY <1>2, <2>1, <2>2, IdleStays DEF StreamInv, Idle
  <1>5. QED
    BY <1>2, <1>3, <1>4

LEMMA WholeBinaryKeeps ==
  ASSUME StreamInv, NEW itself \in BOOLEAN, read_whole_binary(itself)
  PROVE  StreamInv'
  <1>1. ReadingFits'
    BY DEF StreamInv, ReadingFits, ReadsInOrder, read_whole_binary, device, reading
  <1>2. StreamTypes'
    BY DEF StreamInv, StreamTypes, read_whole_binary, device, file, printing
  <1>3. QED
    BY <1>1, <1>2, IdleStays DEF StreamInv, Idle, read_whole_binary

LEMMA LoopIdle ==
  ASSUME StreamInv, whole # <<>>
  PROVE  prints = <<>>
  BY DEF StreamInv, PrintingFits, WritesAtEnd

\* A step of readWholeBinary is not Idle, but nothing is being printed.
LEMMA NextChunkKeeps ==
  ASSUME StreamInv, NextChunk
  PROVE  StreamInv'
  <1>1. prints = <<>>
    BY LoopIdle DEF NextChunk
  <1>2. PICK k \in Nat : k = Len(Take(Chunk)) /\ k <= Left /\ Take(k) = Take(Chunk)
    BY ChunkTaken, ChunkAssumption
  <1>3. Gives(Take(k), k, FALSE) /\ UNCHANGED <<device, file, field, printing>>
    BY <1>2 DEF NextChunk
  <1>4. ReadingFits'
    BY <1>2, <1>3, GivesKeeps DEF StreamInv, device
  <1>5. StreamTypes'
    BY <1>3 DEF StreamInv, StreamTypes, NextChunk, device, file, printing
  <1>6. QED
    BY <1>1, <1>3, <1>4, <1>5, IdleStays DEF StreamInv

LEMMA NextOfItselfKeeps ==
  ASSUME StreamInv, NextChunkOfItself
  PROVE  StreamInv'
  <1>1. prints = <<>>
    BY LoopIdle DEF NextChunkOfItself
  <1>2. ReadingFits' /\ posWrite' = posWrite
    BY ReadsItselfKeeps, ChunkAssumption DEF StreamInv, NextChunkOfItself
  <1>3. StreamTypes'
    BY <1>2 DEF StreamInv, StreamTypes, NextChunkOfItself, file, printing
  <1>4. QED
    BY <1>1, <1>2, <1>3, IdleStays DEF StreamInv, NextChunkOfItself

\* Something is written while nothing is being printed.
LEMMA WrittenIdle ==
  ASSUME StreamInv, Idle, NEW s \in Seq(Byte), DeviceWrite(s),
         UNCHANGED <<file, field, whole, printing>>
  PROVE  StreamInv'
  <1>1. ReadingFits' /\ posWrite' \in Nat /\ (kind # "array" => posWrite' = posWrite)
    BY WriteKeeps DEF StreamInv, StreamTypes
  <1>2. StreamTypes'
    BY <1>1 DEF StreamInv, StreamTypes, file, printing
  <1>3. QED
    BY <1>1, <1>2, IdleStays DEF StreamInv, Idle

\* A file takes nothing.
LEMMA NothingWritten ==
  ASSUME StreamInv, Idle, UNCHANGED <<device, reading, file, field, whole, printing>>
  PROVE  StreamInv'
  <1>1. ReadingFits'
    BY DEF StreamInv, ReadingFits, ReadsInOrder, device, reading
  <1>2. StreamTypes'
    BY DEF StreamInv, StreamTypes, device, file, printing
  <1>3. QED
    BY <1>1, <1>2, IdleStays DEF StreamInv, Idle

LEMMA WriteItselfKeeps ==
  ASSUME StreamInv, WriteItself
  PROVE  StreamInv'
  <1>1. data \in Seq(Byte)
    BY DEF StreamInv, ReadingFits
  <1>2. PICK s \in {data} \cup [DOMAIN data -> Bytes] : DeviceWrite(s)
    BY DEF WriteItself
  <1>3. s \in Seq(Byte)
    <2>1. PICK n \in Nat : DOMAIN data = 1 .. n
      BY <1>1
    <2>2. CASE s \in [1 .. n -> Bytes]
      BY <2>2, FunctionSeq, SeqMonotonic DEF Byte
    <2>3. QED
      BY <1>1, <1>2, <2>1, <2>2
  <1>4. QED
    BY <1>2, <1>3, WrittenIdle DEF WriteItself

LEMMA ResizeKeeps ==
  ASSUME StreamInv, NEW n \in Nat, Resize(n)
  PROVE  StreamInv'
  <1>1. data \in Seq(Byte) /\ posRead \in Nat /\ straight \in BOOLEAN
    BY DEF StreamInv, ReadingFits
  <1>2. PICK l \in Nat : l = Len(data)
    BY <1>1
  <1>3. /\ n < l /\ data' = SubSeq(data, 1, n) /\ straight' = (straight /\ posRead <= n)
        /\ Idle /\ UNCHANGED <<posWrite, file, posRead, got, field, whole, printing>>
    BY <1>2 DEF Resize
  <1>4. /\ SubSeq(data, 1, n) \in Seq(Byte) /\ Len(SubSeq(data, 1, n)) = n
        /\ \A i \in 1 .. n : SubSeq(data, 1, n)[i] = data[i]
    <2>1. \A i \in 1 .. n : data[i] \in Byte
      BY <1>1, <1>2, <1>3, ElementOfSeq
    <2>2. QED
      BY <2>1, SubSeqProperties
  <1>5. ASSUME straight' PROVE got' = SubSeq(data', 1, posRead') /\ posRead' <= Len(data')
    <2>1. straight /\ posRead <= n
      BY <1>3, <1>5
    <2>2. got = SubSeq(data, 1, posRead)
      BY <2>1 DEF StreamInv, ReadingFits, ReadsInOrder
    <2>3. PICK e \in Seq(Byte) : e = SubSeq(data, 1, n) /\ Len(e) = n /\ \A i \in 1 .. n : e[i] = data[i]
      BY <1>4
    <2>4. SubSeq(e, 1, posRead) = SubSeq(data, 1, posRead)
      BY <1>1, <1>2, <1>3, <2>1, <2>3, BeginningStays
    <2>5. QED
      BY <1>3, <2>1, <2>2, <2>3, <2>4
  <1>6. straight' \in BOOLEAN
    BY <1>1, <1>3
  <1>7. ReadingFits'
    BY <1>1, <1>3, <1>4, <1>5, <1>6 DEF ReadingFits, ReadsInOrder
  <1>8. StreamTypes'
    BY <1>3 DEF StreamInv, StreamTypes, file, printing
  <1>9. QED
    BY <1>3, <1>7, <1>8, IdleStays DEF StreamInv, Idle

LEMMA OpenKeeps ==
  ASSUME StreamInv, NEW name \in {NameA, NameB}, open(name)
  PROVE  StreamInv'
  <1>1. Idle /\ UNCHANGED <<device, kind, field, whole, printing>> /\ fileName' = name
    BY DEF open
  <1>2. ReadingFits' /\ fileOpen' \in {Unset, NameA}
    <2>1. CASE fileOpen = Unset /\ name = NameA
      <3>1. fileOpen' = NameA /\ posRead' = 0 /\ got' = <<>> /\ straight' = TRUE /\ data' = data
        BY <1>1, <2>1 DEF open, device
      <3>2. data \in Seq(Byte)
        BY DEF StreamInv, ReadingFits
      <3>3. SubSeq(data, 1, 0) = <<>> /\ 0 <= Len(data)
        BY <3>2, SubSeqEmpty
      <3>4. QED
        BY <3>1, <3>2, <3>3 DEF ReadingFits, ReadsInOrder
    <2>2. CASE ~(fileOpen = Unset /\ name = NameA)
      BY <2>2 DEF open, StreamInv, StreamTypes, ReadingFits, ReadsInOrder, device, reading
    <2>3. QED
      BY <2>1, <2>2
  <1>3. StreamTypes'
    BY <1>1, <1>2 DEF StreamInv, StreamTypes, device, printing
  <1>4. QED
    BY <1>1, <1>2, <1>3, IdleStays DEF StreamInv, Idle

LEMMA CloseKeeps ==
  ASSUME StreamInv, close
  PROVE  StreamInv'
  <1>1. Idle /\ UNCHANGED <<device, kind, fileName, reading, field, whole, printing>> /\ fileOpen' = Unset
    BY DEF close
  <1>2. ReadingFits'
    BY <1>1 DEF StreamInv, ReadingFits, ReadsInOrder, device, reading
  <1>3. StreamTypes'
    BY <1>1 DEF StreamInv, StreamTypes, device, printing
  <1>4. QED
    BY <1>1, <1>2, <1>3, IdleStays DEF StreamInv, Idle

LEMMA AssignRecordKeeps ==
  ASSUME StreamInv, NEW r \in Separator, AssignRecord(r)
  PROVE  StreamInv'
  <1>1. /\ Idle /\ record' = r /\ set' = r /\ undone' = FALSE
        /\ UNCHANGED <<device, file, reading, field, whole, prints, printed>>
    BY DEF AssignRecord
  <1>2. ReadingFits'
    BY <1>1 DEF StreamInv, ReadingFits, ReadsInOrder, device, reading
  <1>3. StreamTypes'
    BY <1>1 DEF StreamInv, StreamTypes, device, file
  <1>4. QED
    BY <1>1, <1>2, <1>3 DEF StreamInv, Idle, PrintingFits, RestFits, PrintsJoined

LEMMA AssignFieldKeeps ==
  ASSUME StreamInv, AssignField(Unset)
  PROVE  StreamInv'
  <1>1. /\ Idle /\ field' = Unset
        /\ UNCHANGED <<device, file, reading, whole, printing>>
    BY DEF AssignField
  <1>2. ReadingFits'
    BY <1>1 DEF StreamInv, ReadingFits, ReadsInOrder, device, reading
  <1>3. StreamTypes'
    BY <1>1 DEF StreamInv, StreamTypes, device, file, printing
  <1>4. QED
    BY <1>1, <1>2, <1>3, IdleStays DEF StreamInv, Idle

-----------------------------------------------------------------------------
(* The steps of print. *)

LEMMA CallMade ==
  ASSUME StreamInv, NEW list \in Seq(Argument)
  PROVE  /\ Call(list) \in CallType /\ PrintFits(Call(list)) /\ Call(list).args = list
         /\ Call(list).next = 1 /\ Call(list).from = posWrite /\ Upto(Call(list)) = <<>>
  <1>1. FieldNow \in Delimiter /\ posWrite \in Nat
    BY DelimNow DEF StreamInv, StreamTypes
  <1>2. Call(list) = [args |-> list, next |-> 1, delim |-> FieldNow, saved |-> Unset, from |-> posWrite]
    BY DEF Call, FieldNow
  <1>3. Unset \in Separator
    BY DEF Separator
  <1>4. Call(list) \in CallType
    BY <1>1, <1>2, <1>3 DEF CallType
  <1>5. Upto(Call(list)) = <<>>
    BY <1>2, <1>4, UptoFirst
  <1>6. 1 \in 1 .. Len(list) + 1
    <2>1. Len(list) \in Nat
      OBVIOUS
    <2>2. QED
      BY <2>1
  <1>7. QED
    BY <1>2, <1>4, <1>5, <1>6 DEF PrintFits

LEMMA PrintBegins ==
  ASSUME StreamInv, NEW list \in Seq(Argument), print(list)
  PROVE  StreamInv'
  <1>1. /\ Idle /\ Writable /\ data = <<>> /\ posWrite = 0 /\ (kind = "file" => posRead = 0)
        /\ prints' = <<Call(list)>>
        /\ UNCHANGED <<device, file, reading, field, whole, record, set, undone, printed>>
    BY DEF print
  <1>2. PICK c \in CallType : c = Call(list) /\ PrintFits(c) /\ c.from = 0 /\ Upto(c) = <<>>
    BY <1>1, CallMade
  <1>3. ReadingFits'
    BY <1>1 DEF StreamInv, ReadingFits, ReadsInOrder, device, reading
  <1>4. StreamTypes'
    BY <1>1 DEF StreamInv, StreamTypes, device, file
  <1>5. FieldNow' = FieldNow
    BY <1>1 DEF FieldNow
  <1>6. OneFits(c)'
    BY <1>1, <1>2, <1>5 DEF OneFits, PrintFits, StreamInv, RestFits, Idle, device
  <1>7. WritesAtEnd'
    BY <1>1 DEF WritesAtEnd, Writable, Idle, device, file, reading
  <1>8. PrintingFits' /\ RestFits'
    BY <1>1, <1>2, <1>6, <1>7, OneCall
  <1>9. QED
    BY <1>1, <1>3, <1>4, <1>8 DEF StreamInv, PrintsJoined

\* What a print writes goes to the end.
LEMMA PrintWrites ==
  ASSUME StreamInv, prints # <<>>, NEW s \in Seq(Byte), DeviceWrite(s), UNCHANGED <<file, whole>>
  PROVE  /\ ReadingFits' /\ posWrite' \in Nat /\ (kind # "array" => posWrite' = posWrite)
         /\ data \in Seq(Byte) /\ data' = data \o s /\ WritesAtEnd'
  <1>1. WritesAtEnd /\ whole' = <<>>
    BY ThePrint DEF WritesAtEnd
  <1>2. QED
    BY <1>1, WriteKeeps DEF StreamInv, StreamTypes, ReadingFits

LEMMA OneAfter ==
  ASSUME NEW c \in CallType, NEW d \in CallType
  PROVE  /\ [<<c>> EXCEPT ![1] = After(@)] = <<After(c)>>
         /\ [<<c, d>> EXCEPT ![1] = After(@)] = <<After(c), d>>
         /\ [<<c>> EXCEPT ![1].saved = record] = <<[c EXCEPT !.saved = record]>>
         /\ <<c>>[1] = c /\ <<c, d>>[1] = c /\ <<c, d>>[2] = d /\ <<c>> # <<>> /\ <<c, d>> # <<>>
         /\ Len(<<c>>) = 1 /\ Len(<<c, d>>) = 2 /\ Tail(<<c, d>>) = <<d>>
  OBVIOUS

\* An argument that is not an array is written, or nothing for one that assigns.
LEMMA ItemPrinted ==
  ASSUME StreamInv, HasItem, "list" \notin DOMAIN Item,
         DeviceWrite(PartOf(Item, prints[1].delim) \o Delim(prints[1])),
         prints' = [prints EXCEPT ![1] = After(@)],
         UNCHANGED <<file, field, whole, printed>>,
         undone' \in BOOLEAN, undone => undone', record' \in Separator, set' \in Separator,
         record' = set' \/ UNCHANGED <<record, set>>,
         Len(prints) > 1 /\ ~undone' => UNCHANGED <<record, set>>
  PROVE  StreamInv'
  <1>1. prints # <<>>
    BY DEF HasItem
  <1>2. PICK x : x = PartOf(Item, prints[1].delim) \o Delim(prints[1])
    OBVIOUS
  <1>3. FieldNow' = FieldNow
    BY DEF FieldNow
  <1>4. ASSUME x \in Seq(Byte)
        PROVE  /\ ReadingFits' /\ StreamTypes' /\ data \in Seq(Byte) /\ data' = data \o x
               /\ WritesAtEnd'
    <2>1. /\ ReadingFits' /\ posWrite' \in Nat /\ (kind # "array" => posWrite' = posWrite)
          /\ data \in Seq(Byte) /\ data' = data \o x /\ WritesAtEnd'
      BY <1>1, <1>2, <1>4, PrintWrites
    <2>2. StreamTypes'
      BY <2>1 DEF StreamInv, StreamTypes, file
    <2>3. QED
      BY <2>1, <2>2 DEF file
  <1>5. ASSUME NEW c \in CallType, prints[1] = c, PrintFits(c)
        PROVE  /\ x \in Seq(Byte) /\ Upto(c) \in Seq(Byte) /\ Upto(After(c)) = Upto(c) \o x
               /\ After(c) \in CallType /\ PrintFits(After(c))'
               /\ After(c).args = c.args /\ After(c).from = c.from
    <2>1. PICK n \in Nat : n = Len(c.args)
      BY DEF CallType
    <2>2. c.next \in 1 .. Len(c.args) /\ Item = c.args[c.next]
      <3>1. c.next <= n /\ c.next \in 1 .. n + 1
        BY <1>5, <2>1 DEF HasItem, PrintFits
      <3>2. QED
        BY <1>5, <2>1, <3>1 DEF Item
    <2>3. PartOf(Item, c.delim) \in Seq(Byte) /\ Delim(c) \in Seq(Byte)
      BY <2>2, UptoNext
    <2>4. x \in Seq(Byte) /\ Upto(After(c)) = Upto(c) \o x
      BY <1>2, <1>5, <2>2, <2>3, UptoNext, ConcatProperties
    <2>5. Upto(c) \in Seq(Byte)
      BY <1>5, UptoTypes DEF PrintFits
    <2>6. /\ After(c) \in CallType /\ After(c).args = c.args /\ After(c).delim = c.delim
          /\ After(c).from = c.from /\ After(c).next \in 1 .. Len(After(c).args) + 1
      BY <2>2, UptoNext
    <2>7. PrintFits(After(c))'
      BY <1>3, <1>5, <2>6 DEF PrintFits
    <2>8. QED
      BY <2>4, <2>5, <2>6, <2>7
  <1>6. CASE \E c \in CallType : prints = <<c>> /\ OneFits(c)
    <2>1. PICK c \in CallType : prints = <<c>> /\ OneFits(c)
      BY <1>6
    <2>2. prints[1] = c /\ prints' = <<After(c)>> /\ PrintFits(c)
      BY <2>1, OneAfter DEF OneFits
    <2>3. /\ x \in Seq(Byte) /\ Upto(After(c)) = Upto(c) \o x
          /\ After(c) \in CallType /\ PrintFits(After(c))' /\ After(c).from = 0
      BY <1>5, <2>1, <2>2 DEF OneFits
    <2>4. /\ ReadingFits' /\ StreamTypes' /\ data' = data \o x
          /\ WritesAtEnd'
      BY <1>4, <2>3
    <2>5. ~undone' => record' = set' /\ data' = Upto(After(c))
      <3>1. ~undone' => ~undone
        OBVIOUS
      <3>2. QED
        BY <2>1, <2>3, <2>4, <3>1 DEF OneFits
    <2>6. OneFits(After(c))'
      BY <2>3, <2>5 DEF OneFits
    <2>7. PrintingFits' /\ RestFits'
      BY <2>2, <2>3, <2>4, <2>6, OneCall
    <2>8. QED
      BY <2>4, <2>7 DEF StreamInv, PrintsJoined
  <1>7. CASE \E i, o \in CallType : prints = <<i, o>> /\ TwoFit(i, o)
    <2>1. PICK i \in CallType, o \in CallType : prints = <<i, o>> /\ TwoFit(i, o)
      BY <1>7
    <2>2. prints[1] = i /\ prints' = <<After(i), o>> /\ PrintFits(i) /\ Len(prints) = 2
      BY <2>1, OneAfter DEF TwoFit
    <2>3. /\ x \in Seq(Byte) /\ Upto(i) \in Seq(Byte) /\ Upto(After(i)) = Upto(i) \o x
          /\ After(i) \in CallType /\ PrintFits(After(i))' /\ After(i).args = i.args
      BY <1>5, <2>2
    <2>4. /\ ReadingFits' /\ StreamTypes' /\ data' = data \o x
          /\ WritesAtEnd'
      BY <1>4, <2>3
    <2>5. Upto(o) \in Seq(Byte) /\ PrintFits(o)'
      BY <1>3, <2>1, UptoTypes DEF TwoFit, PrintFits
    <2>6. ASSUME ~undone' PROVE record' = Unset /\ o.saved = set' /\ data' = Upto(o) \o Upto(After(i))
      <3>1. ~undone /\ UNCHANGED <<record, set>>
        BY <2>2, <2>6
      <3>2. record = Unset /\ o.saved = set /\ data = Upto(o) \o Upto(i)
        BY <2>1, <3>1 DEF TwoFit
      <3>3. (Upto(o) \o Upto(i)) \o x = Upto(o) \o (Upto(i) \o x)
        BY <2>3, <2>5, ConcatAssociative
      <3>4. QED
        BY <2>3, <2>4, <3>1, <3>2, <3>3
    <2>7. TwoFit(After(i), o)'
      BY <2>1, <2>3, <2>5, <2>6 DEF TwoFit
    <2>8. PrintingFits' /\ RestFits'
      BY <2>1, <2>2, <2>3, <2>4, <2>7, TwoCalls
    <2>9. QED
      BY <2>4, <2>8 DEF StreamInv, PrintsJoined
  <1>8. QED
    BY <1>1, <1>6, <1>7, ThePrint

\* The argument that is printed next is one.
LEMMA ItemType ==
  ASSUME StreamInv, HasItem
  PROVE  Item \in Argument /\ Delim(prints[1]) \in Seq(Byte)
  <1>1. PICK c \in CallType : prints[1] = c /\ PrintFits(c)
    <2>1. prints # <<>>
      BY DEF HasItem
    <2>2. CASE \E c \in CallType : prints = <<c>> /\ OneFits(c)
      BY <2>2, OneAfter DEF OneFits
    <2>3. CASE \E i, o \in CallType : prints = <<i, o>> /\ TwoFit(i, o)
      BY <2>3, OneAfter DEF TwoFit
    <2>4. QED
      BY <2>1, <2>2, <2>3, ThePrint
  <1>2. PICK n \in Nat : n = Len(c.args)
    BY DEF CallType
  <1>3. c.next \in 1 .. Len(c.args)
    BY <1>1, <1>2 DEF HasItem, PrintFits
  <1>4. c.args \in Seq(Argument)
    BY DEF CallType
  <1>5. QED
    BY <1>1, <1>3, <1>4, ElementOfSeq, UptoNext DEF Item

LEMMA PrintTextKeeps ==
  ASSUME StreamInv, PrintText
  PROVE  StreamInv'
  <1>1. HasItem /\ "text" \in DOMAIN Item /\ Item \in Argument
    BY ItemType DEF PrintText, Is
  <1>2. "list" \notin DOMAIN Item
    BY <1>1, ArgumentFacts
  <1>3. PartOf(Item, prints[1].delim) = Text(Item.text)
    BY <1>1, <1>2 DEF PartOf, TextOf
  <1>4. DeviceWrite(PartOf(Item, prints[1].delim) \o Delim(prints[1]))
    BY <1>3 DEF PrintText
  <1>5. /\ prints' = [prints EXCEPT ![1] = After(@)]
        /\ UNCHANGED <<file, field, whole, record, set, undone, printed>>
    BY DEF PrintText
  <1>6. undone' \in BOOLEAN /\ record' \in Separator /\ set' \in Separator
    BY <1>5 DEF StreamInv, StreamTypes
  <1>7. QED
    BY <1>1, <1>2, <1>4, <1>5, <1>6, ItemPrinted

LEMMA PrintAssignsKeeps ==
  ASSUME StreamInv, PrintAssigns
  PROVE  StreamInv'
  <1>1. HasItem /\ "assigns" \in DOMAIN Item /\ Item \in Argument
    BY ItemType DEF PrintAssigns, Is
  <1>2. "list" \notin DOMAIN Item /\ "text" \notin DOMAIN Item /\ Item.assigns \in {<<"r">>, <<"f">>}
    BY <1>1, ArgumentFacts
  <1>3. PartOf(Item, prints[1].delim) = <<>>
    BY <1>2 DEF PartOf, TextOf
  <1>4. <<>> \o Delim(prints[1]) = Delim(prints[1])
    BY <1>1, ItemType
  <1>5. DeviceWrite(PartOf(Item, prints[1].delim) \o Delim(prints[1]))
    BY <1>3, <1>4 DEF PrintAssigns
  <1>6. /\ prints' = [prints EXCEPT ![1] = After(@)]
        /\ record' = Item.assigns /\ set' = Item.assigns /\ undone' = (undone \/ Len(prints) > 1)
        /\ UNCHANGED <<file, field, whole, printed>>
    BY DEF PrintAssigns
  <1>7. PICK l \in Nat : l = Len(prints)
    BY <1>1, ThePrint, OneAfter DEF HasItem
  <1>8. undone' \in BOOLEAN /\ (undone => undone') /\ (l > 1 => undone')
    BY <1>6, <1>7
  <1>9. record' \in Separator /\ set' \in Separator
    BY <1>2, <1>6 DEF Separator
  <1>10. QED
    BY <1>1, <1>2, <1>5, <1>6, <1>7, <1>8, <1>9, ItemPrinted

LEMMA PrintThrowsKeeps ==
  ASSUME StreamInv, PrintThrows
  PROVE  StreamInv'
  <1>1. /\ HasItem /\ prints' = <<>> /\ undone' = (undone \/ Len(prints) > 1)
        /\ UNCHANGED <<device, file, reading, field, whole, record, set, printed>>
    BY DEF PrintThrows, Is
  <1>2. ReadingFits'
    BY <1>1 DEF StreamInv, ReadingFits, ReadsInOrder, device, reading
  <1>3. prints # <<>>
    BY <1>1 DEF HasItem
  <1>4. undone' \in BOOLEAN /\ (~undone' => record' = set')
    <2>1. CASE \E c \in CallType : prints = <<c>> /\ OneFits(c)
      <3>1. PICK c \in CallType : prints = <<c>> /\ OneFits(c)
        BY <2>1
      <3>2. undone' = undone /\ undone \in BOOLEAN
        BY <1>1, <3>1, OneAfter DEF StreamInv, StreamTypes
      <3>3. QED
        BY <1>1, <3>1, <3>2 DEF OneFits
    <2>2. CASE \E i, o \in CallType : prints = <<i, o>> /\ TwoFit(i, o)
      <3>1. Len(prints) = 2
        BY <2>2, OneAfter
      <3>2. Len(prints) > 1
        BY <3>1
      <3>3. undone' = (undone \/ Len(prints) > 1)
        BY <1>1
      <3>4. undone' = TRUE
        BY ONLY <3>2, <3>3
      <3>5. QED
        BY <3>4
    <2>3. QED
      BY <1>3, <2>1, <2>2, ThePrint
  <1>5. StreamTypes'
    BY <1>1, <1>4 DEF StreamInv, StreamTypes, device, file
  <1>6. QED
    BY <1>1, <1>2, <1>4, <1>5 DEF StreamInv, PrintingFits, RestFits, PrintsJoined

\* Only what is not in an array may be one.
LEMMA PrintListKeeps ==
  ASSUME StreamInv, PrintList
  PROVE  StreamInv'
  <1>1. /\ HasItem /\ "list" \in DOMAIN Item /\ record' = Unset
        /\ prints' = <<Call(Item.list)>> \o [prints EXCEPT ![1].saved = record]
        /\ UNCHANGED <<device, file, reading, field, whole, set, undone, printed>>
    BY DEF PrintList, Is
  <1>2. prints # <<>>
    BY <1>1 DEF HasItem
  <1>3. CASE \E i, o \in CallType : prints = <<i, o>> /\ TwoFit(i, o)
    <2>1. PICK i \in CallType, o \in CallType : prints = <<i, o>> /\ TwoFit(i, o)
      BY <1>3
    <2>2. i.args \in Seq(Single) /\ PrintFits(i) /\ prints[1] = i
      BY <2>1, OneAfter DEF TwoFit
    <2>3. PICK n \in Nat : n = Len(i.args)
      BY DEF CallType
    <2>4. i.next \in 1 .. Len(i.args)
      BY <1>1, <2>2, <2>3 DEF HasItem, PrintFits
    <2>5. Item \in Single
      BY <2>2, <2>4, ElementOfSeq DEF Item
    <2>6. QED
      BY <1>1, <2>5, SingleFacts
  <1>4. CASE \E c \in CallType : prints = <<c>> /\ OneFits(c)
    <2>1. PICK c \in CallType : prints = <<c>> /\ OneFits(c)
      BY <1>4
    <2>2. PICK o : o = [c EXCEPT !.saved = record]
      OBVIOUS
    <2>3. record \in Separator
      BY DEF StreamInv, StreamTypes
    <2>4. /\ o \in CallType /\ o.args = c.args /\ o.next = c.next /\ o.delim = c.delim
          /\ o.from = c.from /\ o.saved = record
      BY <2>2, <2>3 DEF CallType
    <2>5. Upto(o) = Upto(c)
      BY <2>4 DEF Upto, Parts, Follows
    <2>6. Item \in Argument
      BY <1>1, ItemType
    <2>7. Item.list \in Seq(Single)
      BY <1>1, <2>6, ArgumentFacts
    <2>8. Item.list \in Seq(Argument)
      BY <2>7, SeqMonotonic DEF Argument
    <2>9. PICK i \in CallType :
            /\ i = Call(Item.list) /\ PrintFits(i) /\ i.args = Item.list /\ Upto(i) = <<>>
      BY <2>8, CallMade
    <2>10. prints' = <<i, o>>
      <3>1. prints' = <<i>> \o <<o>>
        BY <1>1, <2>1, <2>2, <2>9, OneAfter
      <3>2. <<i>> \o <<o>> = <<i, o>>
        <4>1. o \in CallType
          BY <2>4
        <4>2. /\ <<i>> \in Seq(CallType) /\ Len(<<i>>) = 1 /\ <<i>>[1] = i
              /\ <<o>> \in Seq(CallType) /\ Len(<<o>>) = 1 /\ <<o>>[1] = o
              /\ <<i, o>> \in Seq(CallType) /\ Len(<<i, o>>) = 2 /\ <<i, o>>[1] = i /\ <<i, o>>[2] = o
          BY <4>1
        <4>3. PICK s : s = <<i>> \o <<o>>
          OBVIOUS
        <4>4. s \in Seq(CallType) /\ Len(s) = 2 /\ s[1] = i /\ s[2] = o
          BY <4>2, <4>3, ConcatProperties
        <4>5. s = <<s[1], s[2]>>
          BY <4>4, ShortSequences
        <4>6. QED
          BY <4>3, <4>4, <4>5
      <3>3. QED
        BY <3>1, <3>2
    <2>11. prints[1] = c
      BY <2>1, OneAfter
    <2>12. o.next \in 1 .. Len(o.args) /\ o.args[o.next] = Item
      <3>1. PICK n \in Nat : n = Len(c.args)
        BY DEF CallType
      <3>2. c.next \in 1 .. n
        BY <1>1, <2>1, <2>11, <3>1 DEF HasItem, OneFits, PrintFits
      <3>3. QED
        BY <2>4, <2>11, <3>1, <3>2 DEF Item
    <2>13. FieldNow' = FieldNow
      BY <1>1 DEF FieldNow
    <2>14. PrintFits(i)' /\ PrintFits(o)' /\ o.from = 0
      BY <2>1, <2>4, <2>9, <2>13 DEF PrintFits, OneFits
    <2>15. ~undone' => record' = Unset /\ o.saved = set' /\ data' = Upto(o) \o Upto(i)
      <3>1. data \in Seq(Byte)
        BY DEF StreamInv, ReadingFits
      <3>2. data \o <<>> = data
        BY <3>1
      <3>3. QED
        BY <1>1, <2>1, <2>4, <2>5, <2>9, <3>2 DEF OneFits, device
    <2>16. TwoFit(i, o)'
      BY <1>1, <2>7, <2>9, <2>12, <2>14, <2>15 DEF TwoFit
    <2>17. WritesAtEnd'
      BY <1>1, <1>2, ThePrint DEF WritesAtEnd, Writable, device, file, reading
    <2>18. PrintingFits' /\ RestFits'
      BY <2>4, <2>10, <2>16, <2>17, TwoCalls
    <2>19. ReadingFits'
      BY <1>1 DEF StreamInv, ReadingFits, ReadsInOrder, device, reading
    <2>20. StreamTypes'
      BY <1>1 DEF StreamInv, StreamTypes, Separator, device, file
    <2>21. QED
      BY <1>1, <2>18, <2>19, <2>20 DEF StreamInv, PrintsJoined
  <1>5. QED
    BY <1>2, <1>3, <1>4, ThePrint

LEMMA EndTypes ==
  ASSUME StreamInv
  PROVE  End \in Seq(Byte)
  <1>1. <<"r">> \in Seq(Byte) /\ <<"f">> \in Seq(Byte) /\ <<>> \in Seq(Byte)
    BY DEF Byte
  <1>2. record \in Separator
    BY DEF StreamInv, StreamTypes
  <1>3. QED
    BY <1>1, <1>2 DEF End, Separator

\* A call that has no argument left is at its end.
LEMMA AtEnd ==
  ASSUME NEW c \in CallType, prints # <<>>, prints[1] = c, PrintFits(c), ~HasItem
  PROVE  c.next = Len(c.args) + 1
  <1>1. PICK n \in Nat : n = Len(c.args)
    BY DEF CallType
  <1>2. c.next \in 1 .. n + 1 /\ ~(c.next <= n)
    BY <1>1 DEF HasItem, PrintFits
  <1>3. QED
    BY <1>1, <1>2

\* The last separator: what has been written is what was meant.
LEMMA LastEnd ==
  ASSUME StreamInv, PrintEnds, NEW c \in CallType, prints = <<c>>, OneFits(c)
  PROVE  StreamInv'
  <1>1. /\ DeviceWrite(End) /\ prints' = <<>> /\ ~HasItem
        /\ printed' = IF undone THEN printed
                      ELSE [want |-> Meant(c, IF set = Unset THEN <<>> ELSE set),
                            have |-> SubSeq(data', c.from + 1, Len(data'))]
        /\ UNCHANGED <<file, field, whole, set, undone, record>>
    BY OneAfter DEF PrintEnds
  <1>2. prints # <<>> /\ prints[1] = c
    BY OneAfter
  <1>3. End \in Seq(Byte)
    BY EndTypes
  <1>4. /\ ReadingFits' /\ posWrite' \in Nat /\ (kind # "array" => posWrite' = posWrite)
        /\ data \in Seq(Byte) /\ data' = data \o End
    BY <1>1, <1>2, <1>3, PrintWrites
  <1>5. c.next = Len(c.args) + 1
    BY <1>1, <1>2, AtEnd DEF OneFits
  <1>6. ASSUME ~undone PROVE record' = set' /\ printed'.have = printed'.want
    <2>1. record = set /\ data = Upto(c) /\ c.from = 0
      BY <1>6 DEF OneFits
    <2>2. Meant(c, End) = data'
      BY <1>4, <1>5, <2>1, UptoEnd
    <2>3. End = IF set = Unset THEN <<>> ELSE set
      BY <2>1 DEF End
    <2>4. data' \in Seq(Byte)
      BY <1>4 DEF ReadingFits
    <2>5. SubSeq(data', 1, Len(data')) = data'
      BY <2>4, SubSeqFull
    <2>6. c.from + 1 = 1
      BY <2>1
    <2>7. printed' = [want |-> Meant(c, End), have |-> SubSeq(data', 1, Len(data'))]
      BY <1>1, <1>4, <1>6, <2>3, <2>6
    <2>8. printed' = [want |-> data', have |-> data']
      BY <2>2, <2>5, <2>7
    <2>9. printed'.have = data' /\ printed'.want = data'
      BY <2>8
    <2>10. record' = record /\ set' = set
      BY <1>1
    <2>11. QED
      BY <2>1, <2>9, <2>10
  <1>7. PrintsJoined'
    <2>1. CASE undone
      BY <1>1, <2>1 DEF StreamInv, PrintsJoined
    <2>2. CASE ~undone
      BY <1>6, <2>2 DEF PrintsJoined
    <2>3. QED
      BY <2>1, <2>2
  <1>8. StreamTypes'
    BY <1>1, <1>4 DEF StreamInv, StreamTypes, file
  <1>9. PrintingFits' /\ RestFits'
    BY <1>1, <1>6 DEF PrintingFits, RestFits
  <1>10. QED
    BY <1>4, <1>7, <1>8, <1>9 DEF StreamInv

\* The array's elements have been written: the print that it was given to
\* goes on after it, with the separator that it has saved.
LEMMA NestedEnd ==
  ASSUME StreamInv, PrintEnds, NEW i \in CallType, NEW o \in CallType, prints = <<i, o>>, TwoFit(i, o)
  PROVE  StreamInv'
  <1>1. /\ DeviceWrite(End \o Delim(o)) /\ record' = o.saved /\ prints' = <<After(o)>> /\ ~HasItem
        /\ UNCHANGED <<file, field, whole, set, undone, printed>>
    BY OneAfter DEF PrintEnds, PutBack
  <1>2. prints # <<>> /\ prints[1] = i
    BY OneAfter
  <1>3. PrintFits(i) /\ PrintFits(o) /\ o.next \in 1 .. Len(o.args)
    BY DEF TwoFit
  <1>4. PICK d \in Seq(Byte) : d = Delim(o)
    BY <1>3, UptoNext
  <1>5. PICK e \in Seq(Byte) : e = End
    BY EndTypes
  <1>6. e \o d \in Seq(Byte) /\ DeviceWrite(e \o d)
    BY <1>1, <1>4, <1>5, ConcatProperties
  <1>7. /\ ReadingFits' /\ posWrite' \in Nat /\ (kind # "array" => posWrite' = posWrite)
        /\ data \in Seq(Byte) /\ data' = data \o (e \o d) /\ WritesAtEnd'
    BY <1>1, <1>2, <1>6, PrintWrites
  <1>8. i.next = Len(i.args) + 1
    BY <1>1, <1>2, <1>3, AtEnd
  <1>9. PICK a : a = o.args[o.next]
    OBVIOUS
  <1>10. a \in Argument
    BY <1>3, <1>9, ElementOfSeq DEF CallType
  <1>11. Upto(i) = PartOf(a, o.delim)
    <2>1. i.delim = o.delim
      BY <1>3 DEF PrintFits
    <2>2. Upto(i) = PartOf(a, i.delim)
      BY <1>8, <1>9, <1>10, NestedWhole DEF TwoFit
    <2>3. QED
      BY <2>1, <2>2
  <1>12. /\ After(o) \in CallType /\ After(o).next \in 1 .. Len(After(o).args) + 1
         /\ After(o).delim = o.delim /\ After(o).from = o.from
         /\ Upto(After(o)) = Upto(o) \o (Upto(i) \o d)
    BY <1>3, <1>4, <1>9, <1>11, UptoNext
  <1>13. FieldNow' = FieldNow
    BY <1>1 DEF FieldNow
  <1>14. PrintFits(After(o))' /\ After(o).from = 0
    BY <1>3, <1>12, <1>13 DEF PrintFits, TwoFit
  <1>15. ASSUME ~undone PROVE record' = set' /\ data' = Upto(After(o))
    <2>1. record = Unset /\ o.saved = set /\ data = Upto(o) \o Upto(i)
      BY <1>15 DEF TwoFit
    <2>2. e = <<>>
      BY <1>5, <2>1 DEF End
    <2>3. data' = (Upto(o) \o Upto(i)) \o d
      BY <1>4, <1>7, <2>1, <2>2
    <2>4. Upto(o) \in Seq(Byte) /\ Upto(i) \in Seq(Byte)
      BY <1>3, UptoTypes DEF PrintFits
    <2>5. QED
      BY <1>1, <1>12, <2>1, <2>3, <2>4, ConcatAssociative
  <1>16. OneFits(After(o))'
    BY <1>1, <1>14, <1>15 DEF OneFits
  <1>17. WritesAtEnd'
    BY <1>1, <1>7 DEF file
  <1>18. PrintingFits' /\ RestFits'
    BY <1>1, <1>12, <1>16, <1>17, OneCall
  <1>19. StreamTypes'
    BY <1>1, <1>7 DEF StreamInv, StreamTypes, CallType, file
  <1>20. QED
    BY <1>1, <1>7, <1>18, <1>19 DEF StreamInv, PrintsJoined

LEMMA PrintEndsKeeps ==
  ASSUME StreamInv, PrintEnds
  PROVE  StreamInv'
  <1>1. prints # <<>>
    BY DEF PrintEnds
  <1>2. QED
    BY <1>1, ThePrint, LastEnd, NestedEnd

-----------------------------------------------------------------------------
(* The theorem. *)

LEMMA StreamBegins == ASSUME Init PROVE StreamInv
  <1>1. data \in Seq(Byte)
    <2>1. PICK m \in Nat : data \in [1 .. m -> Bytes]
      BY ChunkAssumption DEF Init, SeqOf
    <2>2. QED
      BY <2>1, FunctionSeq, SeqMonotonic DEF Byte
  <1>2. posRead = 0 /\ got = <<>> /\ straight = TRUE
    BY DEF Init
  <1>3. SubSeq(data, 1, 0) = <<>> /\ 0 <= Len(data)
    BY <1>1, SubSeqEmpty
  <1>4. ReadingFits
    BY <1>1, <1>2, <1>3 DEF ReadingFits, ReadsInOrder
  <1>5. StreamTypes
    BY DEF Init, StreamTypes, Separator
  <1>6. PrintingFits /\ RestFits /\ PrintsJoined
    BY DEF Init, PrintingFits, RestFits, PrintsJoined
  <1>7. QED
    BY <1>4, <1>5, <1>6 DEF StreamInv

LEMMA StreamStep == ASSUME StreamInv, Next PROVE StreamInv'
  <1>1. ASSUME NEW n \in 0 .. 2, read(n) PROVE StreamInv'
    BY <1>1, readKeeps
  <1>2. ASSUME NEW n \in 0 .. 2, NEW itself \in BOOLEAN, read_binary(n, itself) PROVE StreamInv'
    BY <1>2, BinaryKeeps
  <1>3. ASSUME NEW b \in Bytes, read_line(b) PROVE StreamInv'
    BY <1>3, LineKeeps
  <1>4. ASSUME NEW b \in Bytes, NEW s \in {<<b>>, Text(<<b>>)}, write(s) PROVE StreamInv'
    <2>1. <<b>> \in Seq(Byte)
      BY DEF Byte
    <2>2. s \in Seq(Byte)
      BY <2>1, TextFacts
    <2>3. CASE DeviceWrite(s)
      BY <1>4, <2>2, <2>3, WrittenIdle DEF write
    <2>4. CASE UNCHANGED <<device, reading>>
      BY <1>4, <2>4, NothingWritten DEF write
    <2>5. QED
      BY <1>4, <2>3, <2>4 DEF write
  <1>5. ASSUME NEW n \in 0 .. 1, Resize(n) PROVE StreamInv'
    BY <1>5, ResizeKeeps
  <1>6. ASSUME NEW list \in Lists, print(list) PROVE StreamInv'
    BY <1>6, PrintBegins, ListsAssumption
  <1>7. Unset \in Separator /\ <<"r">> \in Separator
    BY DEF Separator
  <1>8. CASE \/ \E n \in 0 .. 2 : read(n) \/ read_binary(n, FALSE) \/ read_binary(n, TRUE)
             \/ \E b \in Bytes : read_line(b) \/ write(<<b>>) \/ write(Text(<<b>>))
             \/ \E n \in 0 .. 1 : Resize(n)
             \/ \E list \in Lists : print(list)
    BY <1>1, <1>2, <1>3, <1>4, <1>5, <1>6, <1>8
  <1>9. CASE \/ read_whole
             \/ \E itself \in BOOLEAN : read_whole_binary(itself)
             \/ NextChunk \/ NextChunkOfItself \/ WriteItself
             \/ open(NameA) \/ open(NameB) \/ close
             \/ AssignRecord(Unset) \/ AssignRecord(<<"r">>) \/ AssignField(Unset)
    BY <1>7, <1>9, WholeKeeps, WholeBinaryKeeps, NextChunkKeeps, NextOfItselfKeeps, WriteItselfKeeps,
       OpenKeeps, CloseKeeps, AssignRecordKeeps, AssignFieldKeeps
  <1>10. CASE PrintText \/ PrintAssigns \/ PrintThrows \/ PrintList \/ PrintEnds
    BY <1>10, PrintTextKeeps, PrintAssignsKeeps, PrintThrowsKeeps, PrintListKeeps, PrintEndsKeeps
  <1>11. QED
    BY <1>8, <1>9, <1>10 DEF Next

LEMMA StreamStutters == ASSUME StreamInv, UNCHANGED vars PROVE StreamInv'
  <1>1. ReadingFits'
    BY DEF StreamInv, ReadingFits, ReadsInOrder, vars
  <1>2. StreamTypes'
    BY DEF StreamInv, StreamTypes, vars
  <1>3. RestFits' /\ PrintsJoined'
    BY DEF StreamInv, RestFits, PrintsJoined, vars
  <1>4. PrintingFits'
    BY DEF StreamInv, PrintingFits, OneFits, TwoFit, PrintFits, FieldNow, WritesAtEnd, Writable, vars
  <1>5. QED
    BY <1>1, <1>2, <1>3, <1>4 DEF StreamInv

LEMMA StreamInvSound == ASSUME StreamInv PROVE StreamsSound
  <1>1. Len(prints) \in 0 .. 2
    <2>1. CASE prints = <<>>
      BY <2>1
    <2>2. CASE prints # <<>>
      BY <2>2, ThePrint, OneAfter
    <2>3. QED
      BY <2>1, <2>2
  <1>2. TypeOK
    BY <1>1 DEF StreamInv, ReadingFits, StreamTypes, TypeOK, Byte, Separator
  <1>3. SeparatorKept
    BY DEF StreamInv, RestFits, SeparatorKept, Idle
  <1>4. QED
    BY <1>2, <1>3 DEF StreamInv, ReadingFits, StreamsSound

(***************************************************************************)
(* Whatever script reads, of whatever sizes, it is given the data in order *)
(* and each byte once, unless a text had a zero in it, what had been read  *)
(* was changed afterwards or a file was written to; a print writes each    *)
(* text that it is given, up to its first zero, and those of the arrays    *)
(* among them with the separators where they belong, and leaves the        *)
(* separator as it found it, unless a print nested in it has thrown or     *)
(* assigned to it (stream.cpp). For separators without a zero.             *)
(***************************************************************************)
THEOREM StreamsSoundHolds == Spec => []StreamsSound
  <1>1. Init => StreamInv
    BY StreamBegins
  <1>2. StreamInv /\ [Next]_vars => StreamInv'
    BY StreamStep, StreamStutters
  <1>3. StreamInv => StreamsSound
    BY StreamInvSound
  <1>4. QED
    BY <1>1, <1>2, <1>3, PTL DEF Spec
=============================================================================
