----------------------------- MODULE FoldLemmas -----------------------------
(***************************************************************************)
(* What FoldLeft of SequencesExt makes of a sequence, for an operation op  *)
(* that the module that takes these lemmas gives: nothing is folded to     *)
(* what the fold begins with, an element more is put to what the others    *)
(* were folded to.  The fold is defined here again, as what FoldLeft       *)
(* stands for when its definition is expanded.                             *)
(***************************************************************************)
EXTENDS StackLemmas

CONSTANT op(_, _)

Largest(S) == CHOOSE x \in S : \A y \in S : x >= y

\* g gives what the elements of s at the places S are folded to.
FoldsAt(g, b, s, S) == g[S] = IF S = {} THEN b ELSE op(g[S \ {Largest(S)}], s[Largest(S)])

Folding(g, b, s) ==
  g = [S \in SUBSET DOMAIN s |-> IF S = {} THEN b ELSE op(g[S \ {Largest(S)}], s[Largest(S)])]

Fold(b, s) == (CHOOSE g : Folding(g, b, s))[DOMAIN s]

\* There is such a g: it is made for longer and longer beginnings of s.
LEMMA FoldExists ==
  ASSUME NEW b, NEW s, NEW n \in Nat, DOMAIN s = 1 .. n
  PROVE  \E g : Folding(g, b, s)
  <1> DEFINE Upto(g, k) == \A S \in SUBSET (1 .. k) : FoldsAt(g, b, s, S)
             T == {k \in Nat : \E g : Upto(g, k)}
  <1>1. 0 \in T
    <2>1. PICK g : g = [S \in {{}} |-> b]
      OBVIOUS
    <2>2. \A S \in SUBSET (1 .. 0) : S = {}
      OBVIOUS
    <2>3. g[{}] = b
      BY <2>1
    <2>4. Upto(g, 0)
      BY <2>2, <2>3 DEF FoldsAt
    <2>5. QED
      BY <2>4
  <1>2. ASSUME NEW k \in T PROVE k + 1 \in T
    <2>1. PICK g : Upto(g, k)
      BY <1>2
    <2>2. PICK h : h = [S \in SUBSET (1 .. k + 1) |->
                          IF S \subseteq 1 .. k THEN g[S] ELSE op(g[S \ {Largest(S)}], s[Largest(S)])]
      OBVIOUS
    <2>3. ASSUME NEW S \in SUBSET (1 .. k + 1), ~(S \subseteq 1 .. k)
          PROVE  Largest(S) = k + 1
      <3>1. k + 1 \in S /\ \A y \in S : k + 1 >= y
        BY <2>3
      <3>2. \A x \in S : (\A y \in S : x >= y) => x = k + 1
        BY <3>1
      <3>3. QED
        BY <3>1, <3>2 DEF Largest
    <2>4. ASSUME NEW S \in SUBSET (1 .. k + 1) PROVE FoldsAt(h, b, s, S)
      <3>1. PICK R : R = S \ {Largest(S)}
        OBVIOUS
      <3>2. CASE S \subseteq 1 .. k
        <4>1. R \subseteq 1 .. k /\ R \in SUBSET (1 .. k + 1)
          BY <3>1, <3>2
        <4>2. h[S] = g[S] /\ h[R] = g[R]
          BY <2>2, <3>2, <4>1
        <4>3. FoldsAt(g, b, s, S)
          BY <2>1, <3>2
        <4>4. QED
          BY <3>1, <4>2, <4>3 DEF FoldsAt
      <3>3. CASE ~(S \subseteq 1 .. k)
        <4>1. Largest(S) = k + 1 /\ S # {}
          BY <2>3, <3>3
        <4>2. R \subseteq 1 .. k /\ R \in SUBSET (1 .. k + 1)
          BY <3>1, <4>1
        <4>3. h[S] = op(g[R], s[Largest(S)]) /\ h[R] = g[R]
          BY <2>2, <3>1, <3>3, <4>2
        <4>4. QED
          BY <3>1, <4>1, <4>3 DEF FoldsAt
      <3>4. QED
        BY <3>2, <3>3
    <2>5. Upto(h, k + 1)
      BY <2>4
    <2> HIDE DEF Upto
    <2>6. k + 1 \in Nat /\ \E f : Upto(f, k + 1)
      BY <2>5
    <2>7. QED
      BY <2>6
  <1>3. T = Nat
    <2> HIDE DEF T
    <2>1. QED
      BY <1>1, <1>2, SetInduction DEF T
  <1>4. PICK g : Upto(g, n)
    BY <1>3
  <1>5. PICK f : f = [S \in SUBSET (1 .. n) |-> g[S]]
    OBVIOUS
  <1>6. ASSUME NEW S \in SUBSET (1 .. n)
        PROVE  f[S] = IF S = {} THEN b ELSE op(f[S \ {Largest(S)}], s[Largest(S)])
    <2>1. PICK R : R = S \ {Largest(S)}
      OBVIOUS
    <2>2. f[S] = g[S] /\ f[R] = g[R]
      BY <1>5, <2>1
    <2>3. FoldsAt(g, b, s, S)
      BY <1>4
    <2>4. QED
      BY <2>1, <2>2, <2>3 DEF FoldsAt
  <1>7. f = [S \in SUBSET DOMAIN s |-> IF S = {} THEN b ELSE op(f[S \ {Largest(S)}], s[Largest(S)])]
    BY <1>5, <1>6
  <1>8. QED
    BY <1>7 DEF Folding

\* h is what the fold has come to after each of n elements.
Runs(h, b, s, n) == h[0] = b /\ \A i \in 1 .. n : h[i] = op(h[i - 1], s[i])

\* A fold goes through its sequence from the first element to the last.
LEMMA FoldRuns ==
  ASSUME NEW b, NEW s, NEW n \in Nat, DOMAIN s = 1 .. n
  PROVE  \E h : Runs(h, b, s, n) /\ Fold(b, s) = h[n]
  <1>1. PICK g : g = CHOOSE f : Folding(f, b, s)
    OBVIOUS
  <1>2. Folding(g, b, s)
    BY <1>1, FoldExists
  <1>3. \A S \in SUBSET (1 .. n) : g[S] = IF S = {} THEN b ELSE op(g[S \ {Largest(S)}], s[Largest(S)])
    BY <1>2 DEF Folding
  <1>4. PICK h : h = [i \in 0 .. n |-> g[1 .. i]]
    OBVIOUS
  <1>5. h[0] = b
    <2>1. 1 .. 0 = {} /\ h[0] = g[1 .. 0]
      BY <1>4
    <2>2. {} \in SUBSET (1 .. n)
      OBVIOUS
    <2>3. g[{}] = b
      BY <1>3, <2>2
    <2>4. QED
      BY <2>1, <2>3
  <1>6. ASSUME NEW i \in 1 .. n PROVE h[i] = op(h[i - 1], s[i])
    <2>1. PICK S : S = 1 .. i
      OBVIOUS
    <2>2. S \in SUBSET (1 .. n) /\ S # {} /\ i \in S /\ \A y \in S : i >= y
      BY <2>1
    <2>3. \A x \in S : (\A y \in S : x >= y) => x = i
      BY <2>1
    <2>4. Largest(S) = i
      BY <2>2, <2>3 DEF Largest
    <2>5. S \ {i} = 1 .. i - 1
      BY <2>1
    <2>6. g[S] = op(g[1 .. i - 1], s[i])
      BY <1>3, <2>2, <2>4, <2>5
    <2>7. h[i] = g[S] /\ h[i - 1] = g[1 .. i - 1]
      BY <1>4, <2>1
    <2>8. QED
      BY <2>6, <2>7
  <1>7. Fold(b, s) = h[n]
    <2>1. h[n] = g[1 .. n]
      BY <1>4
    <2>2. QED
      BY <1>1, <2>1 DEF Fold
  <1>8. QED
    BY <1>5, <1>6, <1>7 DEF Runs

\* Nothing is folded to what the fold begins with.
LEMMA FoldNothing ==
  ASSUME NEW b
  PROVE  Fold(b, <<>>) = b
  <1>1. PICK h : Runs(h, b, <<>>, 0) /\ Fold(b, <<>>) = h[0]
    BY FoldRuns
  <1>2. QED
    BY <1>1 DEF Runs

\* An element more is put to what the others are folded to.
LEMMA FoldMore ==
  ASSUME NEW b, NEW E, NEW s \in Seq(E), NEW e \in E
  PROVE  Fold(b, Append(s, e)) = op(Fold(b, s), e)
  <1>1. PICK n \in Nat : n = Len(s) /\ DOMAIN s = 1 .. n /\ DOMAIN Append(s, e) = 1 .. n + 1
    OBVIOUS
  <1>2. PICK h : Runs(h, b, s, n) /\ Fold(b, s) = h[n]
    BY <1>1, FoldRuns
  <1>3. PICK t : t = Append(s, e)
    OBVIOUS
  <1>4. PICK k : Runs(k, b, t, n + 1) /\ Fold(b, t) = k[n + 1]
    <2>1. n + 1 \in Nat /\ DOMAIN t = 1 .. n + 1
      BY <1>1, <1>3
    <2>2. QED
      BY <2>1, FoldRuns
  <1>5. \A i \in 1 .. n : t[i] = s[i]
    BY <1>1, <1>3
  <1>6. t[n + 1] = e
    BY <1>1, <1>3
  <1> DEFINE T == {i \in Nat : i <= n => k[i] = h[i]}
  <1>7. 0 \in T
    BY <1>2, <1>4 DEF Runs
  <1>8. ASSUME NEW i \in T PROVE i + 1 \in T
    <2>1. SUFFICES ASSUME i + 1 <= n PROVE k[i + 1] = h[i + 1]
      OBVIOUS
    <2>2. i + 1 \in 1 .. n /\ i + 1 \in 1 .. n + 1 /\ i + 1 - 1 = i /\ k[i] = h[i]
      BY <1>8, <2>1
    <2>3. k[i + 1] = op(k[i + 1 - 1], t[i + 1]) /\ h[i + 1] = op(h[i + 1 - 1], s[i + 1])
      BY <1>2, <1>4, <2>2 DEF Runs
    <2>4. QED
      BY <1>5, <2>2, <2>3
  <1>9. T = Nat
    BY <1>7, <1>8, SetInduction
  <1>10. k[n] = h[n]
    BY <1>9
  <1>11. k[n + 1] = op(k[n], e)
    <2>1. n + 1 \in 1 .. n + 1 /\ n + 1 - 1 = n
      OBVIOUS
    <2>2. k[n + 1] = op(k[n + 1 - 1], t[n + 1])
      BY <1>4, <2>1 DEF Runs
    <2>3. QED
      BY <1>6, <2>1, <2>2
  <1>12. QED
    BY <1>2, <1>3, <1>4, <1>10, <1>11

\* Of two sequences one after the other, the second is folded from what the
\* first is folded to.
LEMMA FoldConcat ==
  ASSUME NEW b, NEW E, NEW s \in Seq(E), NEW t \in Seq(E)
  PROVE  Fold(b, s \o t) = Fold(Fold(b, s), t)
  <1> DEFINE T == {u \in Seq(E) : Fold(b, s \o u) = Fold(Fold(b, s), u)}
  <1>1. <<>> \in T
    <2>1. s \o <<>> = s /\ <<>> \in Seq(E)
      OBVIOUS
    <2>2. QED
      BY <2>1, FoldNothing
  <1>2. ASSUME NEW u \in T, NEW e \in E PROVE Append(u, e) \in T
    <2>1. u \in Seq(E) /\ s \o u \in Seq(E) /\ Append(u, e) \in Seq(E)
      OBVIOUS
    <2>2. s \o Append(u, e) = Append(s \o u, e)
      BY <2>1
    <2>3. Fold(b, Append(s \o u, e)) = op(Fold(b, s \o u), e)
      <3>1. PICK v \in Seq(E) : v = s \o u
        BY <2>1
      <3>2. Fold(b, Append(v, e)) = op(Fold(b, v), e)
        BY FoldMore
      <3>3. QED
        BY <3>1, <3>2
    <2>4. Fold(Fold(b, s), Append(u, e)) = op(Fold(Fold(b, s), u), e)
      BY <2>1, FoldMore
    <2>5. QED
      BY <2>1, <2>2, <2>3, <2>4
  <1>3. T = Seq(E)
    <2> HIDE DEF T
    <2>1. T \subseteq Seq(E)
      BY DEF T
    <2>2. QED
      BY <1>1, <1>2, <2>1, SequenceInduction
  <1>4. QED
    BY <1>3
=============================================================================
