---------------------------- MODULE StackLemmas -----------------------------
(***************************************************************************)
(* Facts that several proofs need: what a push and a pop leave of a        *)
(* sequence; induction over numbers, in a form that names a set instead of *)
(* a predicate; functions defined by iteration.                            *)
(***************************************************************************)
EXTENDS Integers, Sequences, SequenceTheorems, FiniteSetTheorems, WellFoundedInduction, TLAPS

\* Popping leaves all elements but the last where they were.
LEMMA AllButLast ==
  ASSUME NEW S, NEW t \in Seq(S), t # <<>>
  PROVE  /\ Len(t) \in Nat /\ Len(t) > 0
         /\ SubSeq(t, 1, Len(t) - 1) \in Seq(S)
         /\ Len(SubSeq(t, 1, Len(t) - 1)) = Len(t) - 1
         /\ \A i \in 1 .. Len(t) - 1 : SubSeq(t, 1, Len(t) - 1)[i] = t[i]
         /\ t[Len(t)] \in S
  <1> DEFINE n == Len(t) - 1
  <1>1. Len(t) \in Nat /\ Len(t) > 0 /\ t[Len(t)] \in S
    OBVIOUS
  <1>2. n \in Nat /\ n < Len(t)
    BY <1>1
  <1> HIDE DEF n
  <1>3. SubSeq(t, 1, n) \in Seq(S)
    BY <1>2
  <1>4. Len(SubSeq(t, 1, n)) = n
    BY <1>2
  <1>5. \A i \in 1 .. n : SubSeq(t, 1, n)[i] = t[i]
    BY <1>2
  <1>6. QED
    BY <1>1, <1>3, <1>4, <1>5 DEF n

\* Pushing adds one element at the end.
LEMMA PushOne ==
  ASSUME NEW S, NEW t \in Seq(S), NEW e \in S
  PROVE  /\ Len(t) \in Nat
         /\ Append(t, e) \in Seq(S)
         /\ Len(Append(t, e)) = Len(t) + 1
         /\ \A i \in 1 .. Len(t) : Append(t, e)[i] = t[i]
         /\ Append(t, e)[Len(t) + 1] = e
  BY AppendProperties

-----------------------------------------------------------------------------
(* Numbers *)

\* Every set of natural numbers has a least one: of the intervals that end
\* in the set, one contains no other, since inclusion of finite sets is well
\* founded.
LEMMA LeastNumber ==
  ASSUME NEW T \in SUBSET Nat, T # {}
  PROVE  \E n \in T : \A m \in T : n <= m
  <1> DEFINE All == {0 .. n : n \in T}
  <1>1. All \subseteq FiniteSubsetsOf(Nat) /\ All # {}
    <2> SUFFICES ASSUME NEW n \in T PROVE 0 .. n \in FiniteSubsetsOf(Nat)
      OBVIOUS
    <2>1. IsFiniteSet(0 .. n)
      BY FS_Interval
    <2>2. QED
      BY <2>1 DEF FiniteSubsetsOf
  <1>2. IsWellFoundedOn(StrictSubsetOrdering(Nat), FiniteSubsetsOf(Nat))
    BY FS_StrictSubsetOrderingWellFounded
  <1>3. PICK x \in All : \A y \in All : <<y, x>> \notin StrictSubsetOrdering(Nat)
    BY ONLY <1>1, <1>2, WFMin
  <1>4. PICK n \in T : x = 0 .. n
    BY <1>3
  <1>5. ASSUME NEW m \in T, m < n PROVE FALSE
    <2>1. n \in 0 .. n /\ n \notin 0 .. m
      BY <1>5
    <2>2. 0 .. m \in SUBSET Nat /\ 0 .. n \in SUBSET Nat /\ 0 .. m \subseteq 0 .. n
      BY <1>5
    <2>3. <<0 .. m, 0 .. n>> \in StrictSubsetOrdering(Nat)
      BY <2>1, <2>2 DEF StrictSubsetOrdering
    <2>4. QED
      BY <1>3, <1>4, <2>3
  <1>6. QED
    BY <1>5

\* Induction: a set that has 0 and with each number the next has them all.
LEMMA SetInduction ==
  ASSUME NEW T \in SUBSET Nat, 0 \in T, \A n \in T : n + 1 \in T
  PROVE  T = Nat
  <1> SUFFICES ASSUME Nat \ T # {} PROVE FALSE
    OBVIOUS
  <1>1. PICK n \in Nat \ T : \A m \in Nat \ T : n <= m
    BY LeastNumber
  <1>2. n # 0 /\ n - 1 \in Nat
    BY <1>1
  <1>3. n - 1 \in T
    BY <1>1, <1>2
  <1>4. n - 1 + 1 \in T
    BY <1>3
  <1>5. QED
    BY <1>1, <1>4

\* f begins with e and goes on with g, n times.
Iterates(f, X, e, g, n) ==
  f \in [0 .. n -> X] /\ f[0] = e /\ \A i \in 1 .. n : f[i] = g[f[i - 1]]

\* A function may be defined by what it is at 0 and how it goes on.
LEMMA Iteration ==
  ASSUME NEW X, NEW e \in X, NEW g \in [X -> X], NEW n \in Nat
  PROVE  \E f : Iterates(f, X, e, g, n)
  <1> DEFINE T == {k \in Nat : \E f : Iterates(f, X, e, g, k)}
  <1>1. 0 \in T
    <2>1. PICK f : f = [i \in 0 .. 0 |-> e]
      OBVIOUS
    <2>2. Iterates(f, X, e, g, 0)
      BY <2>1 DEF Iterates
    <2>3. QED
      BY <2>2
  <1>2. ASSUME NEW k \in T PROVE k + 1 \in T
    <2>1. PICK f : Iterates(f, X, e, g, k)
      BY <1>2
    <2>2. PICK h : h = [i \in 0 .. k + 1 |-> IF i = k + 1 THEN g[f[k]] ELSE f[i]]
      OBVIOUS
    <2>3. k \in Nat /\ f \in [0 .. k -> X] /\ f[k] \in X /\ g[f[k]] \in X
      BY <2>1 DEF Iterates
    <2>4. h \in [0 .. k + 1 -> X]
      BY <2>2, <2>3
    <2>5. h[0] = e
      BY <2>1, <2>2, <2>3 DEF Iterates
    <2>6. ASSUME NEW i \in 1 .. k + 1 PROVE h[i] = g[h[i - 1]]
      <3>1. CASE i = k + 1
        <4>1. h[i - 1] = f[k] /\ h[i] = g[f[k]]
          BY <2>2, <2>3, <3>1
        <4>2. QED
          BY <4>1
      <3>2. CASE i \in 1 .. k
        <4>1. f[i] = g[f[i - 1]]
          BY <2>1, <3>2 DEF Iterates
        <4>2. h[i] = f[i] /\ h[i - 1] = f[i - 1]
          BY <2>2, <2>3, <3>2
        <4>3. QED
          BY <4>1, <4>2
      <3>3. QED
        BY <2>3, <3>1, <3>2
    <2>7. Iterates(h, X, e, g, k + 1)
      BY <2>4, <2>5, <2>6 DEF Iterates
    <2>8. QED
      BY <2>3, <2>7
  <1>3. T = Nat
    BY <1>1, <1>2, SetInduction
  <1>4. n \in T
    BY <1>3
  <1>5. QED
    BY <1>4

\* Two that begin and go on alike are alike.
LEMMA IterationUnique ==
  ASSUME NEW X, NEW e, NEW g, NEW n \in Nat,
         NEW f, Iterates(f, X, e, g, n), NEW h, Iterates(h, X, e, g, n)
  PROVE  f[n] = h[n]
  <1> DEFINE T == {k \in Nat : k <= n => f[k] = h[k]}
  <1>1. 0 \in T
    BY DEF Iterates
  <1>2. ASSUME NEW k \in T PROVE k + 1 \in T
    <2>1. SUFFICES ASSUME k + 1 <= n PROVE f[k + 1] = h[k + 1]
      OBVIOUS
    <2>2. k + 1 \in 1 .. n /\ k + 1 - 1 = k /\ f[k] = h[k]
      BY <1>2, <2>1
    <2>3. f[k + 1] = g[f[k + 1 - 1]] /\ h[k + 1] = g[h[k + 1 - 1]]
      BY <2>2 DEF Iterates
    <2>4. QED
      BY ONLY <2>2, <2>3
  <1>3. T = Nat
    BY <1>1, <1>2, SetInduction
  <1>4. QED
    BY <1>3

\* What begins within a set and goes on within it stays there.
LEMMA IterationStays ==
  ASSUME NEW X, NEW C, NEW e \in C, NEW g, \A x \in C : g[x] \in C, NEW n \in Nat,
         NEW f, Iterates(f, X, e, g, n)
  PROVE  \A k \in 0 .. n : f[k] \in C
  <1> DEFINE T == {k \in Nat : k <= n => f[k] \in C}
  <1>1. 0 \in T
    BY DEF Iterates
  <1>2. ASSUME NEW k \in T PROVE k + 1 \in T
    <2>1. SUFFICES ASSUME k + 1 <= n PROVE f[k + 1] \in C
      OBVIOUS
    <2>2. k + 1 \in 1 .. n /\ k + 1 - 1 = k /\ f[k] \in C
      BY <1>2, <2>1
    <2>3. f[k + 1] = g[f[k + 1 - 1]]
      BY <2>2 DEF Iterates
    <2>4. QED
      BY ONLY <2>2, <2>3, \A x \in C : g[x] \in C
  <1>3. T = Nat
    BY <1>1, <1>2, SetInduction
  <1>4. QED
    BY <1>3

\* g makes subsets of X larger or leaves them.
Inflates(g, X) == g \in [SUBSET X -> SUBSET X] /\ \A B \in SUBSET X : B \subseteq g[B]

\* There are n elements in X.
Counts(n, X) == IsFiniteSet(X) /\ n \in Nat /\ n = Cardinality(X)

\* Ever larger subsets of a finite set, each made from the one before, come
\* to an end in as many steps as the set has elements.
LEMMA IterationEnds ==
  ASSUME NEW X, NEW g, Inflates(g, X), NEW n, Counts(n, X), NEW S \in SUBSET X,
         NEW h, Iterates(h, SUBSET X, S, g, n)
  PROVE  S \subseteq h[n] /\ g[h[n]] = h[n] /\ h[n] \in SUBSET X
  <1> DEFINE Good(k) == S \subseteq h[k] /\ (g[h[k]] = h[k] \/ Cardinality(h[k]) >= k)
             T == {k \in Nat : k <= n => Good(k)}
  <1>1. IsFiniteSet(X) /\ n \in Nat /\ n = Cardinality(X)
    BY DEF Counts
  <1>2. \A B \in SUBSET X : IsFiniteSet(B) /\ Cardinality(B) \in Nat /\ Cardinality(B) <= n
    BY <1>1, FS_Subset, FS_CardinalityType
  <1>3. h \in [0 .. n -> SUBSET X] /\ h[0] = S
    BY DEF Iterates
  <1>4. g \in [SUBSET X -> SUBSET X] /\ \A B \in SUBSET X : B \subseteq g[B]
    BY DEF Inflates
  <1>5. 0 \in T
    <2>1. Cardinality(h[0]) >= 0
      BY <1>2, <1>3
    <2>2. QED
      BY <1>3, <1>1, <2>1
  <1>6. ASSUME NEW k \in T PROVE k + 1 \in T
    <2>1. SUFFICES ASSUME k + 1 <= n PROVE Good(k + 1)
      OBVIOUS
    <2>2. k \in Nat /\ k <= n /\ k + 1 \in 1 .. n /\ k + 1 - 1 = k
      BY <1>1, <2>1
    <2>3. PICK a, b : a = h[k] /\ b = h[k + 1]
      OBVIOUS
    <2>4. a \in SUBSET X /\ b \in SUBSET X /\ b = g[a] /\ a \subseteq b
      <3>1. h[k + 1] = g[h[k + 1 - 1]]
        BY <2>2 DEF Iterates
      <3>2. k \in 0 .. n /\ k + 1 \in 0 .. n
        BY <1>1, <2>2
      <3>3. a \in SUBSET X /\ b \in SUBSET X
        BY <1>3, <2>3, <3>2
      <3>4. b = g[a]
        BY ONLY <2>2, <2>3, <3>1
      <3>5. QED
        BY <1>4, <3>3, <3>4
    <2>5. S \subseteq a /\ (g[a] = a \/ Cardinality(a) >= k)
      BY <1>6, <2>2, <2>3
    <2>6. CASE g[a] = a
      BY <2>3, <2>4, <2>5, <2>6
    <2>7. CASE g[a] # a
      <3>1. Cardinality(a) # Cardinality(b)
        BY <1>2, <1>1, <2>4, <2>7, FS_Subset
      <3>2. Cardinality(a) <= Cardinality(b)
        BY <1>2, <1>1, <2>4, FS_Subset
      <3>3. Cardinality(a) \in Nat /\ Cardinality(b) \in Nat /\ Cardinality(a) >= k
        BY <1>2, <2>4, <2>5, <2>7
      <3>4. Cardinality(b) >= k + 1
        BY <2>2, <3>1, <3>2, <3>3
      <3>5. QED
        BY <2>3, <2>4, <2>5, <3>4
    <2>8. QED
      BY <2>6, <2>7
  <1> HIDE DEF Good
  <1>7. Good(n)
    <2>1. T = Nat
      BY <1>5, <1>6, SetInduction
    <2>2. QED
      BY <1>1, <2>1
  <1>8. h[n] \in SUBSET X /\ S \subseteq h[n] /\ (g[h[n]] = h[n] \/ Cardinality(h[n]) >= n)
    BY <1>3, <1>7, <1>1 DEF Good
  <1>9. CASE Cardinality(h[n]) >= n
    <2>1. Cardinality(h[n]) = Cardinality(X)
      BY <1>2, <1>8, <1>9, <1>1
    <2>2. h[n] = X
      BY <1>8, <1>1, <2>1, FS_Subset
    <2>3. g[X] = X
      <3>1. X \in SUBSET X
        OBVIOUS
      <3>2. g[X] \in SUBSET X /\ X \subseteq g[X]
        BY <1>4, <3>1
      <3>3. QED
        BY <3>2
    <2>4. QED
      BY <1>8, <2>2, <2>3
  <1>10. QED
    BY <1>8, <1>9

-----------------------------------------------------------------------------
(* Sequences *)
\* What G leads to from the elements of S, and on from there, is found in as
\* many steps as there are elements: it has S, is closed, and is within all
\* that has S and is closed.
Spreads(h, X, S, G, n) ==
  h[0] = S /\ \A i \in 1 .. n : h[i - 1] \in SUBSET X =>
    \A y : y \in h[i] <=> y \in h[i - 1] \/ \E x \in h[i - 1] : y \in G[x]

\* A set and what its elements lead to.
Wider(X, G) == [B \in SUBSET X |-> B \cup {y \in X : \E x \in B : y \in G[x]}]

LEMMA WiderInflates ==
  ASSUME NEW X, NEW G \in [X -> SUBSET X]
  PROVE  Inflates(Wider(X, G), X)
  BY DEF Inflates, Wider

LEMMA SpreadIterates ==
  ASSUME NEW X, NEW G \in [X -> SUBSET X], NEW n \in Nat, NEW S \in SUBSET X,
         NEW h, Spreads(h, X, S, G, n)
  PROVE  Iterates([i \in 0 .. n |-> h[i]], SUBSET X, S, Wider(X, G), n)
  <1> DEFINE T == {k \in Nat : k <= n => h[k] \in SUBSET X}
  <1>1. ASSUME NEW i \in 1 .. n, h[i - 1] \in SUBSET X
        PROVE  h[i] = Wider(X, G)[h[i - 1]] /\ h[i] \in SUBSET X
    <2>1. \A y : y \in h[i] <=> y \in h[i - 1] \/ \E x \in h[i - 1] : y \in G[x]
      BY <1>1 DEF Spreads
    <2>2. PICK B : B = h[i - 1]
      OBVIOUS
    <2>3. B \in SUBSET X /\ \A x \in B : G[x] \in SUBSET X
      BY <1>1, <2>2
    <2>4. h[i] = B \cup {y \in X : \E x \in B : y \in G[x]}
      BY <2>1, <2>2, <2>3
    <2>5. Wider(X, G)[B] = B \cup {y \in X : \E x \in B : y \in G[x]}
      BY <2>3 DEF Wider
    <2>6. h[i] \in SUBSET X
      BY <2>3, <2>4
    <2>7. QED
      BY ONLY <2>2, <2>4, <2>5, <2>6
  <1>2. 0 \in T
    BY DEF Spreads
  <1>3. ASSUME NEW k \in T PROVE k + 1 \in T
    <2>1. SUFFICES ASSUME k + 1 <= n PROVE h[k + 1] \in SUBSET X
      OBVIOUS
    <2>2. k + 1 \in 1 .. n /\ k + 1 - 1 = k /\ h[k] \in SUBSET X
      BY <1>3, <2>1
    <2>3. QED
      BY <1>1, <2>2
  <1>4. T = Nat
    <2> HIDE DEF T
    <2>1. QED
      BY <1>2, <1>3, SetInduction DEF T
  <1>5. \A k \in 0 .. n : h[k] \in SUBSET X
    BY <1>4
  <1>6. PICK f : f = [i \in 0 .. n |-> h[i]]
    OBVIOUS
  <1>7. f \in [0 .. n -> SUBSET X] /\ f[0] = S
    BY <1>5, <1>6 DEF Spreads
  <1>8. ASSUME NEW i \in 1 .. n PROVE f[i] = Wider(X, G)[f[i - 1]]
    <2>1. i \in 0 .. n /\ i - 1 \in 0 .. n
      OBVIOUS
    <2>2. f[i] = h[i] /\ f[i - 1] = h[i - 1]
      BY <1>6, <2>1
    <2>3. QED
      BY <1>1, <1>5, <2>1, <2>2
  <1>9. QED
    BY <1>6, <1>7, <1>8 DEF Iterates

\* K is the least set that has S and is closed.
Closes(K, X, S, G) ==
  /\ S \subseteq K /\ K \in SUBSET X
  /\ \A x \in K : G[x] \subseteq K
  /\ \A C \in SUBSET X : S \subseteq C /\ (\A x \in C : G[x] \subseteq C) => K \subseteq C

LEMMA SpreadEnds ==
  ASSUME NEW X, NEW G \in [X -> SUBSET X], NEW n, Counts(n, X), NEW S \in SUBSET X,
         NEW h, Spreads(h, X, S, G, n)
  PROVE  Closes(h[n], X, S, G)
  <1>1. n \in Nat
    BY DEF Counts
  <1>2. PICK f : f = [i \in 0 .. n |-> h[i]]
    OBVIOUS
  <1>3. PICK g : g = Wider(X, G)
    OBVIOUS
  <1>4. Iterates(f, SUBSET X, S, g, n)
    BY <1>1, <1>2, <1>3, SpreadIterates
  <1>5. f[n] = h[n]
    BY <1>1, <1>2
  <1>6. Inflates(g, X)
    BY <1>3, WiderInflates
  <1>7. S \subseteq f[n] /\ g[f[n]] = f[n] /\ f[n] \in SUBSET X
    BY <1>4, <1>6, IterationEnds
  <1>8. PICK K : K = f[n]
    OBVIOUS
  <1>9. \A x \in K : G[x] \subseteq K
    <2>1. K \in SUBSET X /\ K = K \cup {y \in X : \E x \in K : y \in G[x]}
      BY <1>3, <1>7, <1>8 DEF Wider
    <2>2. QED
      BY <2>1
  <1>10. ASSUME NEW C \in SUBSET X, S \subseteq C, \A x \in C : G[x] \subseteq C
         PROVE  K \subseteq C
    <2>1. PICK D : D = SUBSET C
      OBVIOUS
    <2>2. S \in D
      BY <1>10, <2>1
    <2>3. ASSUME NEW B \in D PROVE g[B] \in D
      <3>1. B \in SUBSET X /\ g[B] = B \cup {y \in X : \E x \in B : y \in G[x]}
        BY <1>3, <2>1 DEF Wider
      <3>2. QED
        BY <1>10, <2>1, <3>1
    <2>4. \A k \in 0 .. n : f[k] \in D
      BY ONLY <1>1, <1>4, <2>2, <2>3, IterationStays
    <2>5. QED
      BY <1>1, <1>8, <2>1, <2>4
  <1>11. QED
    BY <1>5, <1>7, <1>8, <1>9, <1>10 DEF Closes

\* And there is such a growth.
LEMMA SpreadExists ==
  ASSUME NEW X, NEW G \in [X -> SUBSET X], NEW n \in Nat, NEW S \in SUBSET X
  PROVE  \E f \in [0 .. n -> SUBSET X] : Spreads(f, X, S, G, n)
  <1>1. PICK g, Y : g = Wider(X, G) /\ Y = SUBSET X
    OBVIOUS
  <1>2. g \in [Y -> Y] /\ S \in Y
    BY <1>1 DEF Wider
  <1>3. PICK f : Iterates(f, Y, S, g, n)
    BY ONLY <1>2, n \in Nat, Iteration
  <1>4. f \in [0 .. n -> SUBSET X] /\ f[0] = S /\ \A i \in 1 .. n : f[i] = g[f[i - 1]]
    BY <1>1, <1>3 DEF Iterates
  <1>5. ASSUME NEW i \in 1 .. n, f[i - 1] \in SUBSET X
        PROVE  \A y : y \in f[i] <=> y \in f[i - 1] \/ \E x \in f[i - 1] : y \in G[x]
    <2>1. PICK B : B = f[i - 1]
      OBVIOUS
    <2>2. B \in SUBSET X /\ f[i] = B \cup {y \in X : \E x \in B : y \in G[x]}
      BY <1>1, <1>4, <1>5, <2>1 DEF Wider
    <2>3. QED
      BY <2>1, <2>2
  <1>6. QED
    BY <1>4, <1>5 DEF Spreads

\* Induction: a set that has the empty sequence and with each sequence every
\* one that is longer by an element has them all.
LEMMA SequenceInduction ==
  ASSUME NEW E, NEW T \in SUBSET Seq(E), <<>> \in T,
         \A s \in T, e \in E : Append(s, e) \in T
  PROVE  T = Seq(E)
  <1> DEFINE N == {n \in Nat : \A s \in Seq(E) : Len(s) = n => s \in T}
  <1>1. 0 \in N
    OBVIOUS
  <1>2. ASSUME NEW n \in N PROVE n + 1 \in N
    <2>1. SUFFICES ASSUME NEW s \in Seq(E), Len(s) = n + 1 PROVE s \in T
      OBVIOUS
    <2>2. n \in Nat /\ s # <<>>
      BY <1>2, <2>1
    <2>3. PICK t \in Seq(E), e \in E : s = Append(t, e)
      BY <2>2, SequenceEmptyOrAppend
    <2>4. Len(t) = n
      BY <2>1, <2>2, <2>3
    <2>5. QED
      BY <1>2, <2>3, <2>4
  <1>3. N = Nat
    <2> HIDE DEF N
    <2>1. N \in SUBSET Nat
      BY DEF N
    <2>2. QED
      BY <1>1, <1>2, <2>1, SetInduction
  <1>4. ASSUME NEW s \in Seq(E) PROVE s \in T
    <2>1. Len(s) \in N
      BY <1>3
    <2>2. QED
      BY <2>1
  <1>5. QED
    BY <1>4

\* A sequence without repetition is as long as there are elements in it.
LEMMA AllDifferent ==
  ASSUME NEW S, NEW s \in Seq(S), \A i, j \in 1 .. Len(s) : s[i] = s[j] => i = j
  PROVE  Cardinality({s[i] : i \in 1 .. Len(s)}) = Len(s)
  <1>1. Len(s) \in Nat /\ s \in [1 .. Len(s) -> S]
    OBVIOUS
  <1>2. IsFiniteSet(1 .. Len(s)) /\ Cardinality(1 .. Len(s)) = Len(s)
    BY <1>1, FS_Interval
  <1>3. PICK E : E = {s[i] : i \in 1 .. Len(s)}
    OBVIOUS
  <1>4. s \in Bijection(1 .. Len(s), E)
    BY <1>1, <1>3 DEF Bijection, Injection, Surjection, IsInjective
  <1>5. ExistsBijection(1 .. Len(s), E)
    BY <1>4 DEF ExistsBijection
  <1>6. Cardinality(E) = Len(s)
    BY <1>2, <1>5, FS_Bijection
  <1>7. QED
    BY <1>3, <1>6
=============================================================================
