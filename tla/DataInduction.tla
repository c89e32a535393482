--------------------------- MODULE DataInduction ---------------------------
(***************************************************************************)
(* Induction over the data of the models: what a recursive function of     *)
(* theirs computes for every input.  An induction is over the set of the   *)
(* inputs that a statement holds for: that set contains the least input    *)
(* and, with every input, the next, so it contains them all.               *)
(***************************************************************************)
EXTENDS FiniteSetTheorems, SequenceTheorems, SequencesExt, TLAPS

\* A set of naturals that has 0 and, with every n, n + 1 has them all.
LEMMA UpTo ==
    ASSUME NEW Good \in SUBSET Nat, 0 \in Good, \A n \in Good : n + 1 \in Good
    PROVE  Good = Nat
<1> DEFINE Bad == Nat \ Good
<1>1. IsWellFoundedOn(OpToRel(<, Nat), Nat)
  BY NatLessThanWellFounded
<1>2. SUFFICES ASSUME Bad # {} PROVE FALSE
  OBVIOUS
<1>3. PICK m \in Bad : \A k \in Bad : <<k, m>> \notin OpToRel(<, Nat)
  <2> HIDE DEF Bad
  <2>1. Bad \subseteq Nat BY DEF Bad
  <2> QED BY <1>1, <1>2, <2>1, WFMin, Zenon
<1>4. \A k \in Bad : ~(k < m)
  BY <1>3 DEF OpToRel
<1> QED BY <1>4

\* The same from 0 up to a bound.
LEMMA UpToBound ==
    ASSUME NEW N \in Nat, NEW Good \in SUBSET (0 .. N), 0 \in Good,
           \A n \in 0 .. N - 1 : n \in Good => n + 1 \in Good
    PROVE  Good = 0 .. N
<1> DEFINE All == Good \cup {n \in Nat : n > N}
<1>1. All \in SUBSET Nat /\ 0 \in All
  <2>1. \A n \in Good : n \in Nat OBVIOUS
  <2> QED BY <2>1
<1>2. \A n \in All : n + 1 \in All
  <2> SUFFICES ASSUME NEW n \in All PROVE n + 1 \in All
    OBVIOUS
  <2>1. CASE n < N BY <2>1
  <2>2. CASE n >= N BY <2>2
  <2> QED BY <2>1, <2>2
<1>3. All = Nat
  <2> HIDE DEF All
  <2> QED BY <1>1, <1>2, UpTo
<1>4. ASSUME NEW n \in 0 .. N PROVE n \in Good
  BY <1>3
<1> QED BY <1>4

\* A set of subsets of a finite set that has {} and, with every T and every
\* element x, T \cup {x} has them all.
LEMMA SubsetInduction ==
    ASSUME NEW S, IsFiniteSet(S), NEW Good \in SUBSET SUBSET S, {} \in Good,
           \A T \in Good, x \in S : T \cup {x} \in Good
    PROVE  Good = SUBSET S
<1> DEFINE Bad == (SUBSET S) \ Good
<1>1. IsWellFoundedOn(StrictSubsetOrdering(S), SUBSET S)
  <2>1. FiniteSubsetsOf(S) = SUBSET S
    BY FS_FiniteSubsetsOfFinite
  <2> QED BY <2>1, FS_StrictSubsetOrderingWellFounded
<1>2. SUFFICES ASSUME Bad # {} PROVE FALSE
  OBVIOUS
<1>3. PICK T \in Bad : \A U \in Bad : <<U, T>> \notin StrictSubsetOrdering(S)
  <2> HIDE DEF Bad
  <2>1. Bad \subseteq SUBSET S BY DEF Bad
  <2> QED BY <1>1, <1>2, <2>1, WFMin, Zenon
<1>4. PICK x \in T : TRUE
  OBVIOUS
<1>5. T \ {x} \in Good
  <2>1. T \ {x} \in SUBSET S /\ T \in SUBSET S /\ T \ {x} # T
    BY <1>3, <1>4
  <2>2. <<T \ {x}, T>> \in StrictSubsetOrdering(S)
    BY <2>1 DEF StrictSubsetOrdering
  <2> QED BY <1>3, <2>1, <2>2
<1>6. (T \ {x}) \cup {x} = T /\ x \in S
  BY <1>3, <1>4
<1> QED BY <1>3, <1>5, <1>6

\* g starts with b and goes on with step[n].
Steps(g, N, X, b, step) ==
    /\ g \in [0 .. N -> X]
    /\ g[0] = b
    /\ \A n \in 1 .. N : g[n] = step[n][g[n - 1]]

\* There is such a function,
LEMMA RecursionExists ==
    ASSUME NEW N \in Nat, NEW X, NEW b \in X, NEW step \in [1 .. N -> [X -> X]]
    PROVE  \E g : Steps(g, N, X, b, step)
<1> DEFINE Good == {m \in 0 .. N : \E g : Steps(g, m, X, b, step)}
<1>1. 0 \in Good
  <2>1. Steps([n \in 0 .. 0 |-> b], 0, X, b, step)
    BY DEF Steps
  <2> QED BY <2>1
<1>2. ASSUME NEW m \in 0 .. N - 1, m \in Good PROVE m + 1 \in Good
  <2>1. PICK g : Steps(g, m, X, b, step)
    BY <1>2
  <2> DEFINE h == [n \in 0 .. m + 1 |-> IF n = m + 1 THEN step[n][g[m]] ELSE g[n]]
  <2>2. h \in [0 .. m + 1 -> X]
    BY <2>1 DEF Steps
  <2>3. ASSUME NEW n \in 1 .. m + 1 PROVE h[n] = step[n][h[n - 1]]
    <3>1. CASE n = m + 1 BY <2>1, <3>1
    <3>2. CASE n \in 1 .. m
      <4>1. g[n] = step[n][g[n - 1]] BY <2>1, <3>2 DEF Steps
      <4>2. h[n] = g[n] /\ h[n - 1] = g[n - 1] BY <3>2
      <4> QED BY <3>2, <4>1, <4>2
    <3> QED BY <3>1, <3>2
  <2>4. h[0] = b
    BY <2>1 DEF Steps
  <2>5. Steps(h, m + 1, X, b, step)
    <3> HIDE DEF h
    <3> QED BY <2>2, <2>3, <2>4 DEF Steps
  <2> HIDE DEF h
  <2> QED BY <2>5
<1>3. Good = 0 .. N
  <2> HIDE DEF Good
  <2>1. Good \in SUBSET (0 .. N) BY DEF Good
  <2> QED BY <1>1, <1>2, <2>1, UpToBound
<1>4. N \in Good
  <2> HIDE DEF Good
  <2> QED BY <1>3
<1> QED BY <1>4

\* and no other.
LEMMA RecursionUnique ==
    ASSUME NEW N \in Nat, NEW X, NEW Y, NEW b, NEW step, NEW g, NEW h,
           Steps(g, N, X, b, step), Steps(h, N, Y, b, step)
    PROVE  \A n \in 0 .. N : g[n] = h[n]
<1> DEFINE Good == {n \in 0 .. N : g[n] = h[n]}
<1>1. 0 \in Good
  BY DEF Steps
<1>2. ASSUME NEW n \in 0 .. N - 1, n \in Good PROVE n + 1 \in Good
  <2>1. n + 1 \in 1 .. N /\ (n + 1) - 1 = n OBVIOUS
  <2>2. g[n + 1] = step[n + 1][g[n]] /\ h[n + 1] = step[n + 1][h[n]]
    BY <2>1 DEF Steps
  <2> QED BY <1>2, <2>1, <2>2
<1>3. Good \in SUBSET (0 .. N)
  OBVIOUS
<1>4. Good = 0 .. N
  <2> HIDE DEF Good
  <2> QED BY <1>1, <1>2, <1>3, UpToBound
<1> QED BY <1>4

(***************************************************************************)
(* FlattenSeq                                                              *)
(***************************************************************************)
\* What joining a sequence of sequences does at its n-th.
Joins(ss, S) == [n \in 1 .. Len(ss) |-> [x \in Seq(S) |-> x \o ss[n]]]

Joining(g, ss, S) == Steps(g, Len(ss), Seq(S), << >>, Joins(ss, S))

\* The joined prefixes of a sequence of sequences exist,
LEMMA JoiningExists ==
    ASSUME NEW S, NEW ss \in Seq(Seq(S))
    PROVE  \E g : Joining(g, ss, S)
<1>1. Len(ss) \in Nat /\ << >> \in Seq(S)
  OBVIOUS
<1>2. Joins(ss, S) \in [1 .. Len(ss) -> [Seq(S) -> Seq(S)]]
  <2>1. \A n \in 1 .. Len(ss) : ss[n] \in Seq(S) OBVIOUS
  <2> QED BY <2>1 DEF Joins
<1>3. \E g : Steps(g, Len(ss), Seq(S), << >>, Joins(ss, S))
  BY <1>1, <1>2, RecursionExists
<1> QED BY <1>3 DEF Joining

LEMMA JoiningStep ==
    ASSUME NEW S, NEW ss \in Seq(Seq(S)), NEW g, Joining(g, ss, S)
    PROVE  /\ g \in [0 .. Len(ss) -> Seq(S)]
           /\ g[0] = << >>
           /\ \A n \in 1 .. Len(ss) : g[n] = g[n - 1] \o ss[n]
<1>1. ASSUME NEW n \in 1 .. Len(ss) PROVE g[n] = g[n - 1] \o ss[n]
  <2>1. g[n] = Joins(ss, S)[n][g[n - 1]] BY DEF Joining, Steps
  <2>2. n - 1 \in 0 .. Len(ss) OBVIOUS
  <2>3. g[n - 1] \in Seq(S) BY <2>2 DEF Joining, Steps
  <2> QED BY <2>1, <2>3 DEF Joins
<1> QED BY <1>1 DEF Joining, Steps

\* and the last of them is what FlattenSeq computes.
LEMMA JoiningFlattens ==
    ASSUME NEW S, NEW ss \in Seq(Seq(S)), NEW g, Joining(g, ss, S)
    PROVE  FlattenSeq(ss) = g[Len(ss)]
<1> DEFINE N == Len(ss)
<1>0. /\ g \in [0 .. N -> Seq(S)] /\ g[0] = << >>
      /\ \A n \in 1 .. N : g[n] = g[n - 1] \o ss[n]
  BY JoiningStep
<1>1. CASE N = 0
  <2>1. ss = << >> BY <1>1
  <2> QED BY <1>0, <1>1, <2>1 DEF FlattenSeq
<1>2. CASE N # 0
  <2> DEFINE Eq(f) == f = [i \in 1 .. N |-> IF i = 1 THEN ss[i] ELSE f[i - 1] \o ss[i]]
  <2> DEFINE h == [i \in 1 .. N |-> g[i]]
  <2>1. N \in Nat \ {0} BY <1>2
  <2>2. ASSUME NEW i \in 1 .. N
        PROVE  h[i] = IF i = 1 THEN ss[i] ELSE h[i - 1] \o ss[i]
    <3>1. g[i] = g[i - 1] \o ss[i] BY <1>0
    <3>2. CASE i = 1
      <4>1. ss[1] \in Seq(S) BY <2>1
      <4>2. << >> \o ss[1] = ss[1] BY <4>1
      <4>3. i - 1 = 0 BY <3>2
      <4>4. g[1] = ss[1] BY <1>0, <3>1, <3>2, <4>2, <4>3
      <4> QED BY <3>2, <4>4
    <3>3. CASE i # 1
      <4>1. i - 1 \in 1 .. N BY <3>3, <2>1
      <4>2. h[i] = g[i] /\ h[i - 1] = g[i - 1] BY <4>1
      <4> QED BY <3>1, <3>3, <4>2
    <3> QED BY <3>2, <3>3
  <2>3. Eq(h)
    <3>1. h = [i \in 1 .. N |-> h[i]] OBVIOUS
    <3> HIDE DEF h
    <3> QED BY <2>2, <3>1
  <2> DEFINE f == CHOOSE f : Eq(f)
  <2>4. Eq(f)
    <3> HIDE DEF h, Eq
    <3> QED BY <2>3
  <2>5. ASSUME NEW i \in 1 .. N
        PROVE  f[i] = IF i = 1 THEN ss[i] ELSE f[i - 1] \o ss[i]
    <3> HIDE DEF f, N
    <3> QED BY <2>4
  <2> DEFINE Good == {i \in 0 .. N : i = 0 \/ f[i] = h[i]}
  <2>6. ASSUME NEW i \in 0 .. N - 1, i \in Good PROVE i + 1 \in Good
    <3> HIDE DEF f, h
    <3>1. i + 1 \in 1 .. N /\ (i + 1) - 1 = i BY <2>1
    <3>2. f[i + 1] = IF i + 1 = 1 THEN ss[i + 1] ELSE f[i] \o ss[i + 1]
      BY <2>5, <3>1
    <3>3. h[i + 1] = IF i + 1 = 1 THEN ss[i + 1] ELSE h[i] \o ss[i + 1]
      BY <2>2, <3>1
    <3>4. i + 1 = 1 \/ f[i] = h[i] BY <2>6
    <3>5. f[i + 1] = h[i + 1]
      <4> HIDE DEF N
      <4> QED BY <3>2, <3>3, <3>4
    <3> QED BY <3>1, <3>5
  <2>7. f[N] = h[N]
    <3>1. \A i \in Good : i \in 0 .. N OBVIOUS
    <3>2. Good \in SUBSET (0 .. N) BY <3>1
    <3>3. 0 \in Good BY <2>1
    <3>4. Good = 0 .. N
      <4> HIDE DEF Good
      <4> QED BY <2>1, <2>6, <3>2, <3>3, UpToBound
    <3> HIDE DEF f, h
    <3>5. N \in Good BY <2>1, <3>4
    <3> QED BY <2>1, <3>5
  <2>8. FlattenSeq(ss) = f[N]
    BY <1>2 DEF FlattenSeq
  <2> QED BY <2>1, <2>7, <2>8
<1> QED BY <1>1, <1>2

\* What FlattenSeq gives is a sequence of the elements, one element longer
\* for each sequence that is added.
LEMMA FlattenType ==
    ASSUME NEW S, NEW ss \in Seq(Seq(S))
    PROVE  FlattenSeq(ss) \in Seq(S)
<1>1. PICK g : Joining(g, ss, S)
  BY JoiningExists
<1>2. Len(ss) \in 0 .. Len(ss)
  OBVIOUS
<1>3. g \in [0 .. Len(ss) -> Seq(S)]
  BY <1>1 DEF Joining, Steps
<1>4. g[Len(ss)] \in Seq(S)
  BY <1>2, <1>3
<1> QED BY <1>1, <1>4, JoiningFlattens

LEMMA FlattenEmpty == FlattenSeq(<< >>) = << >>
BY DEF FlattenSeq

LEMMA FlattenAppend ==
    ASSUME NEW S, NEW ss \in Seq(Seq(S)), NEW s \in Seq(S)
    PROVE  FlattenSeq(Append(ss, s)) = FlattenSeq(ss) \o s
<1> DEFINE N == Len(ss)
<1> DEFINE tt == Append(ss, s)
<1>1. /\ tt \in Seq(Seq(S)) /\ Len(tt) = N + 1 /\ N \in Nat /\ tt[N + 1] = s
      /\ \A i \in 1 .. N : tt[i] = ss[i]
  OBVIOUS
<1> HIDE DEF tt
<1>2. PICK g : Joining(g, tt, S)
  BY <1>1, JoiningExists
<1>3. /\ g \in [0 .. N + 1 -> Seq(S)] /\ g[0] = << >>
      /\ \A n \in 1 .. N + 1 : g[n] = g[n - 1] \o tt[n]
  <2>1. /\ g \in [0 .. Len(tt) -> Seq(S)] /\ g[0] = << >>
        /\ \A n \in 1 .. Len(tt) : g[n] = g[n - 1] \o tt[n]
    BY <1>1, <1>2, JoiningStep
  <2> QED BY <1>1, <2>1
<1> DEFINE h == [i \in 0 .. N |-> g[i]]
<1>4. Joining(h, ss, S)
  <2>1. h \in [0 .. N -> Seq(S)] /\ h[0] = << >> BY <1>1, <1>3
  <2>2. ASSUME NEW n \in 1 .. N PROVE h[n] = Joins(ss, S)[n][h[n - 1]]
    <3>0. n \in 1 .. N + 1 BY <1>1
    <3>1. g[n] = g[n - 1] \o ss[n]
      <4>1. tt[n] = ss[n] BY <1>1
      <4>2. g[n] = g[n - 1] \o tt[n] BY <1>3, <3>0
      <4> QED BY <4>1, <4>2
    <3>2. n - 1 \in 0 .. N BY <1>1
    <3>3. Joins(ss, S)[n][h[n - 1]] = h[n - 1] \o ss[n] BY <2>1, <3>2 DEF Joins
    <3>4. h[n] = g[n] /\ h[n - 1] = g[n - 1] BY <3>2
    <3> HIDE DEF h
    <3> QED BY <3>1, <3>3, <3>4
  <2> HIDE DEF h
  <2> QED BY <2>1, <2>2 DEF Joining, Steps
<1>5. FlattenSeq(ss) = g[N]
  <2>1. h[N] = g[N] BY <1>1
  <2> HIDE DEF h
  <2> QED BY <1>4, <2>1, JoiningFlattens
<1>6. FlattenSeq(tt) = g[N + 1]
  BY <1>1, <1>2, JoiningFlattens
<1>7. g[N + 1] = g[N] \o s
  <2>1. N + 1 \in 1 .. N + 1 /\ (N + 1) - 1 = N BY <1>1
  <2> QED BY <1>1, <1>3, <2>1
<1> QED BY <1>5, <1>6, <1>7 DEF tt

\* The joined prefix grows by the sequence that follows.
LEMMA FlattenPrefix ==
    ASSUME NEW S, NEW ss \in Seq(Seq(S)), NEW k \in 1 .. Len(ss)
    PROVE  FlattenSeq(SubSeq(ss, 1, k)) = FlattenSeq(SubSeq(ss, 1, k - 1)) \o ss[k]
<1>1. SubSeq(ss, 1, k) = Append(SubSeq(ss, 1, k - 1), ss[k])
  OBVIOUS
<1>2. PICK p \in Seq(Seq(S)) : p = SubSeq(ss, 1, k - 1)
  <2>1. SubSeq(ss, 1, k - 1) \in Seq(Seq(S)) OBVIOUS
  <2> QED BY <2>1
<1>3. PICK s \in Seq(S) : s = ss[k]
  OBVIOUS
<1>4. FlattenSeq(Append(p, s)) = FlattenSeq(p) \o s
  BY FlattenAppend
<1> QED BY <1>1, <1>2, <1>3, <1>4

\* Each member of a joined sequence stands, in its order, after the prefix that
\* comes before it.
LaidOut(g, ss) ==
    /\ \A n \in 1 .. Len(ss) : Len(g[n]) = Len(g[n - 1]) + Len(ss[n])
    /\ \A n \in 1 .. Len(ss) : \A d \in 1 .. Len(ss[n]) :
           /\ Len(g[n - 1]) + d \in 1 .. Len(g[Len(ss)])
           /\ g[Len(ss)][Len(g[n - 1]) + d] = ss[n][d]

LEMMA JoiningLaid ==
    ASSUME NEW S, NEW ss \in Seq(Seq(S)), NEW g, Joining(g, ss, S)
    PROVE  LaidOut(g, ss)
<1> DEFINE N == Len(ss)
<1>0. /\ g \in [0 .. N -> Seq(S)] /\ \A n \in 1 .. N : g[n] = g[n - 1] \o ss[n]
  BY JoiningStep
<1>1. N \in Nat /\ \A n \in 1 .. N : ss[n] \in Seq(S)
  OBVIOUS
<1>2. \A n \in 0 .. N : g[n] \in Seq(S) /\ Len(g[n]) \in Nat
  BY <1>0
<1> DEFINE Laid(m, n) == \A d \in 1 .. Len(ss[n]) :
                            /\ Len(g[n - 1]) + d \in 1 .. Len(g[m])
                            /\ g[m][Len(g[n - 1]) + d] = ss[n][d]
           Good == {m \in 0 .. N : \A n \in 1 .. m : Laid(m, n)}
<1>3. \A n \in 1 .. N : n - 1 \in 0 .. N /\ n \in 0 .. N
  OBVIOUS
<1>4. ASSUME NEW n \in 1 .. N
      PROVE  /\ Len(g[n]) = Len(g[n - 1]) + Len(ss[n])
             /\ \A i \in 1 .. Len(g[n - 1]) : g[n][i] = g[n - 1][i]
             /\ \A d \in 1 .. Len(ss[n]) : g[n][Len(g[n - 1]) + d] = ss[n][d]
  <2>1. PICK a \in Seq(S), b \in Seq(S) : a = g[n - 1] /\ b = ss[n] /\ g[n] = a \o b
    BY <1>0, <1>1, <1>2, <1>3
  <2>2. /\ Len(a \o b) = Len(a) + Len(b)
        /\ \A i \in 1 .. Len(a) : (a \o b)[i] = a[i]
        /\ \A d \in 1 .. Len(b) : (a \o b)[Len(a) + d] = b[d]
    OBVIOUS
  <2> QED BY <2>1, <2>2
<1>5. 0 \in Good
  BY <1>1
<1>6. ASSUME NEW m \in 0 .. N - 1, m \in Good PROVE m + 1 \in Good
  <2>1. m + 1 \in 1 .. N /\ (m + 1) - 1 = m /\ m \in 0 .. N
    BY <1>1
  <2>2. /\ Len(g[m + 1]) = Len(g[m]) + Len(ss[m + 1])
        /\ \A i \in 1 .. Len(g[m]) : g[m + 1][i] = g[m][i]
        /\ \A d \in 1 .. Len(ss[m + 1]) : g[m + 1][Len(g[m]) + d] = ss[m + 1][d]
    <3>1. PICK k \in 1 .. N : k = m + 1 /\ k - 1 = m BY <2>1
    <3>2. /\ Len(g[k]) = Len(g[k - 1]) + Len(ss[k])
          /\ \A i \in 1 .. Len(g[k - 1]) : g[k][i] = g[k - 1][i]
          /\ \A d \in 1 .. Len(ss[k]) : g[k][Len(g[k - 1]) + d] = ss[k][d]
      BY <1>4
    <3> QED BY <3>1, <3>2, Zenon
  <2>3. Len(g[m]) \in Nat /\ Len(ss[m + 1]) \in Nat
    BY <1>1, <1>2, <2>1
  <2>4. ASSUME NEW n \in 1 .. m + 1 PROVE Laid(m + 1, n)
    <3>1. CASE n = m + 1
      <4>1. \A d \in 1 .. Len(ss[m + 1]) :
               Len(g[m]) + d \in 1 .. Len(g[m + 1]) /\ g[m + 1][Len(g[m]) + d] = ss[m + 1][d]
        <5> SUFFICES ASSUME NEW d \in 1 .. Len(ss[m + 1])
                     PROVE  /\ Len(g[m]) + d \in 1 .. Len(g[m + 1])
                            /\ g[m + 1][Len(g[m]) + d] = ss[m + 1][d]
          OBVIOUS
        <5>1. g[m + 1][Len(g[m]) + d] = ss[m + 1][d] BY <2>2
        <5>2. PICK a \in Nat, b \in Nat :
                  /\ a = Len(g[m]) /\ b = Len(ss[m + 1])
                  /\ Len(g[m + 1]) = a + b
          BY <2>2, <2>3, Zenon
        <5>3. a + d \in 1 .. a + b
          <6>1. d \in 1 .. b BY <5>2, Zenon
          <6> QED BY <6>1
        <5> QED BY <5>1, <5>2, <5>3, Zenon
      <4> QED BY <2>1, <3>1, <4>1
    <3>2. CASE n # m + 1
      <4>1. n \in 1 .. m BY <2>1, <3>2
      <4>2. Laid(m, n) BY <1>6, <4>1
      <4>3. PICK a \in Nat, b \in Nat :
                /\ a = Len(g[m]) /\ b = Len(ss[m + 1])
                /\ Len(g[m + 1]) = a + b
        BY <2>2, <2>3, Zenon
      <4>4. ASSUME NEW i \in 1 .. Len(g[m])
            PROVE  i \in 1 .. Len(g[m + 1]) /\ g[m + 1][i] = g[m][i]
        <5>1. i \in 1 .. a BY <4>3, Zenon
        <5>2. i \in 1 .. a + b BY <5>1
        <5> QED BY <2>2, <4>3, <5>2
      <4> QED BY <4>2, <4>4, Zenon
    <3> QED BY <3>1, <3>2
  <2> HIDE DEF Laid
  <2> QED BY <2>1, <2>4
<1>7. N \in Good
  <2> HIDE DEF Good
  <2>1. Good \in SUBSET (0 .. N) BY DEF Good
  <2>2. Good = 0 .. N BY <1>1, <1>5, <1>6, <2>1, UpToBound
  <2> QED BY <1>1, <2>2
<1> QED BY <1>4, <1>7 DEF LaidOut

\* Joining from the last to the first, in front of a tail, exists too,
Trailing(f, ss, tail) ==
    /\ f[Len(ss) + 1] = tail
    /\ \A n \in 1 .. Len(ss) : f[n] = ss[n] \o f[n + 1]

LEMMA TrailingExists ==
    ASSUME NEW S, NEW ss \in Seq(Seq(S)), NEW tail \in Seq(S)
    PROVE  \E f \in [1 .. Len(ss) + 1 -> Seq(S)] : Trailing(f, ss, tail)
<1> DEFINE N == Len(ss)
<1> DEFINE step == [m \in 1 .. N |-> [x \in Seq(S) |-> ss[N + 1 - m] \o x]]
<1>1. N \in Nat /\ \A n \in 1 .. N : ss[n] \in Seq(S)
  OBVIOUS
<1>2. step \in [1 .. N -> [Seq(S) -> Seq(S)]]
  <2>1. ASSUME NEW m \in 1 .. N, NEW x \in Seq(S) PROVE ss[N + 1 - m] \o x \in Seq(S)
    <3>1. N + 1 - m \in 1 .. N BY <1>1
    <3>2. ss[N + 1 - m] \in Seq(S) BY <1>1, <3>1
    <3> QED BY <3>2, ConcatProperties
  <2> QED BY <2>1
<1>3. PICK g : Steps(g, N, Seq(S), tail, step)
  <2> HIDE DEF step
  <2> QED BY <1>1, <1>2, RecursionExists
<1>4. g \in [0 .. N -> Seq(S)] /\ g[0] = tail
  <2> HIDE DEF step
  <2> QED BY <1>3 DEF Steps
<1>5. ASSUME NEW m \in 1 .. N PROVE g[m] = ss[N + 1 - m] \o g[m - 1]
  <2>1. m - 1 \in 0 .. N BY <1>1
  <2>2. g[m] = step[m][g[m - 1]] /\ g[m - 1] \in Seq(S)
    <3> HIDE DEF step
    <3> QED BY <1>3, <1>4, <2>1 DEF Steps
  <2> QED BY <2>2
<1> HIDE DEF step
<1> DEFINE f == [n \in 1 .. N + 1 |-> g[N + 1 - n]]
<1>6. f \in [1 .. N + 1 -> Seq(S)]
  <2>1. \A n \in 1 .. N + 1 : N + 1 - n \in 0 .. N BY <1>1
  <2> QED BY <1>4, <2>1
<1>7. f[N + 1] = tail
  <2>1. N + 1 \in 1 .. N + 1 /\ N + 1 - (N + 1) = 0 BY <1>1
  <2> QED BY <1>4, <2>1
<1>8. ASSUME NEW n \in 1 .. N PROVE f[n] = ss[n] \o f[n + 1]
  <2>0. N + 1 - n \in 1 .. N BY <1>1
  <2>1. PICK m \in 1 .. N : m = N + 1 - n BY <2>0
  <2>2. n \in 1 .. N + 1 /\ n + 1 \in 1 .. N + 1 /\ N + 1 - (n + 1) = m - 1
        /\ N + 1 - m = n
    BY <1>1, <2>1
  <2>3. f[n] = g[m] /\ f[n + 1] = g[m - 1] BY <2>1, <2>2
  <2> HIDE DEF f
  <2> QED BY <1>5, <2>2, <2>3
<1> HIDE DEF f
<1> QED BY <1>6, <1>7, <1>8 DEF Trailing

\* and gives the same sequence.
LEMMA TrailingFlattens ==
    ASSUME NEW S, NEW ss \in Seq(Seq(S)), NEW tail \in Seq(S), NEW f, Trailing(f, ss, tail)
    PROVE  f[1] = FlattenSeq(ss) \o tail
<1> DEFINE N == Len(ss)
<1>1. N \in Nat /\ \A n \in 1 .. N : ss[n] \in Seq(S)
  OBVIOUS
<1>2. PICK g : Joining(g, ss, S)
  BY JoiningExists
<1>3. /\ g \in [0 .. N -> Seq(S)] /\ g[0] = << >>
      /\ \A n \in 1 .. N : g[n] = g[n - 1] \o ss[n]
  BY <1>2, JoiningStep
<1>4. FlattenSeq(ss) = g[N]
  BY <1>2, JoiningFlattens
<1>5. f[N + 1] = tail /\ \A n \in 1 .. N : f[n] = ss[n] \o f[n + 1]
  BY DEF Trailing
<1> DEFINE Good == {m \in 0 .. N : /\ f[N + 1 - m] \in Seq(S)
                                   /\ g[N - m] \o f[N + 1 - m] = g[N] \o tail}
<1>6. 0 \in Good
  <2>1. N + 1 - 0 = N + 1 /\ N - 0 = N /\ 0 \in 0 .. N BY <1>1
  <2>2. f[N + 1] \in Seq(S) /\ g[N] \o f[N + 1] = g[N] \o tail BY <1>5
  <2> HIDE DEF N
  <2> QED BY <2>1, <2>2, Zenon
<1>7. ASSUME NEW m \in 0 .. N - 1, m \in Good PROVE m + 1 \in Good
  <2>0. N - m \in 1 .. N BY <1>1
  <2>1. PICK n \in 1 .. N : n = N - m BY <2>0
  <2>2. /\ N + 1 - m = n + 1 /\ N + 1 - (m + 1) = n /\ N - (m + 1) = n - 1
        /\ m + 1 \in 0 .. N /\ n - 1 \in 0 .. N /\ n \in 0 .. N
    BY <1>1, <2>1
  <2>3. f[n + 1] \in Seq(S) /\ g[n] \o f[n + 1] = g[N] \o tail
    BY <1>7, <2>1, <2>2
  <2>4. f[n] = ss[n] \o f[n + 1] /\ g[n] = g[n - 1] \o ss[n]
    BY <1>3, <1>5
  <2>5. PICK x \in Seq(S), y \in Seq(S), z \in Seq(S) :
           x = g[n - 1] /\ y = ss[n] /\ z = f[n + 1]
    BY <1>1, <1>3, <2>2, <2>3
  <2>6. (x \o y) \o z = x \o (y \o z)
    <3> HIDE DEF N, Good
    <3> QED BY ConcatAssociative, SMTT(30)
  <2>7. y \o z \in Seq(S)
    BY ConcatProperties
  <2>8. f[n] \in Seq(S) /\ g[n - 1] \o f[n] = g[N] \o tail
    BY <2>3, <2>4, <2>5, <2>6, <2>7, Zenon
  <2> QED BY <2>2, <2>8
<1>8. N \in Good
  <2> HIDE DEF Good
  <2>1. Good \in SUBSET (0 .. N) BY DEF Good
  <2>2. Good = 0 .. N BY <1>1, <1>6, <1>7, <2>1, UpToBound
  <2> QED BY <1>1, <2>2
<1>9. f[1] \in Seq(S) /\ << >> \o f[1] = g[N] \o tail
  <2>1. N + 1 - N = 1 /\ N - N = 0 BY <1>1
  <2> QED BY <1>3, <1>8, <2>1
<1>10. << >> \o f[1] = f[1]
  BY <1>9, ConcatEmptySeq
<1> QED BY <1>4, <1>9, <1>10

(***************************************************************************)
(* Recursion over the subsets of a finite set, which takes an element out  *)
(* of each                                                                 *)
(***************************************************************************)
Takes(pick, S) ==
    /\ pick \in [(SUBSET S) \ {{}} -> S]
    /\ \A T \in (SUBSET S) \ {{}} : pick[T] \in T

Shrinks(g, S, X, b, pick, step) ==
    /\ g \in [SUBSET S -> X]
    /\ g[{}] = b
    /\ \A T \in (SUBSET S) \ {{}} : g[T] = step[pick[T]][g[T \ {pick[T]}]]

\* The subsets of at most m elements.
UpToSize(S, m) == {T \in SUBSET S : Cardinality(T) <= m}

ShrinksUpTo(g, S, m, X, b, pick, step) ==
    /\ g \in [UpToSize(S, m) -> X]
    /\ g[{}] = b
    /\ \A T \in UpToSize(S, m) \ {{}} : g[T] = step[pick[T]][g[T \ {pick[T]}]]

LEMMA SetRecursionExists ==
    ASSUME NEW S, IsFiniteSet(S), NEW X, NEW b \in X, NEW step \in [S -> [X -> X]],
           NEW pick, Takes(pick, S)
    PROVE  \E g : Shrinks(g, S, X, b, pick, step)
<1> DEFINE N == Cardinality(S)
<1>1. N \in Nat /\ \A T \in SUBSET S : IsFiniteSet(T) /\ Cardinality(T) \in 0 .. N
  <2>1. N \in Nat BY FS_CardinalityType
  <2>2. ASSUME NEW T \in SUBSET S PROVE IsFiniteSet(T) /\ Cardinality(T) \in 0 .. N
    <3>1. IsFiniteSet(T) /\ Cardinality(T) <= N BY FS_Subset
    <3>2. Cardinality(T) \in Nat BY <3>1, FS_CardinalityType
    <3> QED BY <2>1, <3>1, <3>2
  <2> QED BY <2>1, <2>2
<1>2. /\ Cardinality({}) = 0
      /\ \A T \in SUBSET S : Cardinality(T) = 0 => T = {}
  <2>1. Cardinality({}) = 0 BY FS_EmptySet
  <2>2. ASSUME NEW T \in SUBSET S, Cardinality(T) = 0 PROVE T = {}
    BY <1>1, <2>2, FS_EmptySet
  <2> QED BY <2>1, <2>2
<1>3. ASSUME NEW T \in (SUBSET S) \ {{}}
      PROVE  /\ pick[T] \in S /\ T \ {pick[T]} \in SUBSET S
             /\ Cardinality(T \ {pick[T]}) = Cardinality(T) - 1
  <2>1. pick[T] \in T BY DEF Takes
  <2>2. Cardinality(T \ {pick[T]}) = Cardinality(T) - 1
    BY <1>1, <2>1, FS_RemoveElement
  <2> QED BY <2>1, <2>2
<1> DEFINE Good == {m \in 0 .. N : \E g : ShrinksUpTo(g, S, m, X, b, pick, step)}
<1>4. 0 \in Good
  <2> DEFINE g == [T \in UpToSize(S, 0) |-> b]
  <2>1. UpToSize(S, 0) = {{}}
    <3>1. ASSUME NEW T \in UpToSize(S, 0) PROVE T = {}
      BY <1>1, <1>2 DEF UpToSize
    <3>2. {} \in UpToSize(S, 0) BY <1>2 DEF UpToSize
    <3> QED BY <3>1, <3>2
  <2>2. ShrinksUpTo(g, S, 0, X, b, pick, step)
    BY <2>1 DEF ShrinksUpTo
  <2> HIDE DEF g
  <2> QED BY <1>1, <2>2
<1>5. ASSUME NEW m \in 0 .. N - 1, m \in Good PROVE m + 1 \in Good
  <2>1. PICK g : ShrinksUpTo(g, S, m, X, b, pick, step)
    BY <1>5
  <2> DEFINE h == [T \in UpToSize(S, m + 1) |->
                     IF T \in UpToSize(S, m) THEN g[T]
                     ELSE step[pick[T]][g[T \ {pick[T]}]]]
  <2>2. ASSUME NEW T \in UpToSize(S, m + 1) \ {{}}
        PROVE  /\ T \ {pick[T]} \in UpToSize(S, m)
               /\ T \ {pick[T]} \in UpToSize(S, m + 1)
               /\ pick[T] \in S
    <3>1. T \in (SUBSET S) \ {{}} /\ Cardinality(T) <= m + 1
      BY DEF UpToSize
    <3>2. Cardinality(T \ {pick[T]}) = Cardinality(T) - 1 /\ T \ {pick[T]} \in SUBSET S
          /\ pick[T] \in S
      BY <1>3, <3>1
    <3>3. Cardinality(T) \in Nat BY <1>1, <3>1
    <3> QED BY <3>1, <3>2, <3>3 DEF UpToSize
  <2>3. g \in [UpToSize(S, m) -> X] BY <2>1 DEF ShrinksUpTo
  <2>4. \A T \in UpToSize(S, m) : g[T] \in X BY <2>3
  <2>5. h \in [UpToSize(S, m + 1) -> X]
    <3>1. ASSUME NEW T \in UpToSize(S, m + 1) PROVE h[T] \in X
      <4>1. CASE T \in UpToSize(S, m) BY <2>4, <4>1
      <4>2. CASE T \notin UpToSize(S, m)
        <5>1. T # {} BY <1>2, <4>2 DEF UpToSize
        <5>2. g[T \ {pick[T]}] \in X /\ pick[T] \in S BY <2>2, <2>4, <5>1
        <5> QED BY <4>2, <5>2
      <4> QED BY <4>1, <4>2
    <3> QED BY <3>1
  <2>6. h[{}] = b
    <3>1. {} \in UpToSize(S, m) /\ {} \in UpToSize(S, m + 1) BY <1>2 DEF UpToSize
    <3> QED BY <2>1, <3>1 DEF ShrinksUpTo
  <2>7. ASSUME NEW T \in UpToSize(S, m + 1) \ {{}}
        PROVE  h[T] = step[pick[T]][h[T \ {pick[T]}]]
    <3>1. h[T \ {pick[T]}] = g[T \ {pick[T]}] BY <2>2
    <3>2. CASE T \in UpToSize(S, m)
      <4>1. g[T] = step[pick[T]][g[T \ {pick[T]}]] BY <2>1, <3>2 DEF ShrinksUpTo
      <4>2. h[T] = g[T] BY <3>2
      <4> QED BY <3>1, <4>1, <4>2
    <3>3. CASE T \notin UpToSize(S, m)
      <4>1. h[T] = step[pick[T]][g[T \ {pick[T]}]] BY <3>3
      <4> QED BY <3>1, <4>1
    <3> QED BY <3>2, <3>3
  <2>8. ShrinksUpTo(h, S, m + 1, X, b, pick, step)
    <3> HIDE DEF h
    <3> QED BY <2>5, <2>6, <2>7 DEF ShrinksUpTo
  <2> HIDE DEF h
  <2>9. m + 1 \in 0 .. N BY <1>1
  <2> QED BY <2>8, <2>9
<1>6. N \in Good
  <2> HIDE DEF Good
  <2>1. Good \in SUBSET (0 .. N) BY DEF Good
  <2>2. Good = 0 .. N BY <1>1, <1>4, <1>5, <2>1, UpToBound
  <2> QED BY <1>1, <2>2
<1>7. UpToSize(S, N) = SUBSET S
  BY <1>1 DEF UpToSize
<1>8. PICK g : ShrinksUpTo(g, S, N, X, b, pick, step)
  BY <1>6
<1>9. Shrinks(g, S, X, b, pick, step)
  BY <1>7, <1>8 DEF Shrinks, ShrinksUpTo
<1> QED BY <1>9

(***************************************************************************)
(* The greatest and the least element of a set, and sums over a sequence   *)
(***************************************************************************)
\* Max picks an element of every finite set of integers that has one.
LEMMA MaxProperty ==
    ASSUME NEW S \in SUBSET Int, IsFiniteSet(S), NEW T \in SUBSET S, T # {}
    PROVE  Max(T) \in T /\ \A y \in T : Max(T) >= y
<1> DEFINE Good == {U \in SUBSET S : U # {} => \E x \in U : \A y \in U : x >= y}
<1>1. {} \in Good
  OBVIOUS
<1>2. ASSUME NEW U \in Good, NEW x \in S PROVE U \cup {x} \in Good
  <2>1. U \cup {x} \in SUBSET S BY DEF Good
  <2>2. CASE U = {}
    <3>1. x >= x OBVIOUS
    <3> QED BY <2>1, <2>2, <3>1
  <2>3. CASE U # {}
    <3>1. PICK z \in U : \A y \in U : z >= y BY <2>3
    <3>2. z \in Int /\ x \in Int /\ \A y \in U : y \in Int OBVIOUS
    <3>3. CASE x >= z
      <4>1. \A y \in U \cup {x} : x >= y BY <3>1, <3>2, <3>3
      <4> QED BY <2>1, <4>1
    <3>4. CASE ~(x >= z)
      <4>1. \A y \in U \cup {x} : z >= y BY <3>1, <3>2, <3>4
      <4> QED BY <2>1, <3>1, <4>1
    <3> QED BY <3>3, <3>4
  <2> QED BY <2>2, <2>3
<1>3. Good = SUBSET S
  <2> HIDE DEF Good
  <2>1. Good \in SUBSET SUBSET S BY DEF Good
  <2> QED BY <1>1, <1>2, <2>1, SubsetInduction
<1>4. \E x \in T : \A y \in T : x >= y
  BY <1>3
<1> QED BY <1>4 DEF Max

\* and Min the least.
LEMMA MinProperty ==
    ASSUME NEW S \in SUBSET Int, IsFiniteSet(S), NEW T \in SUBSET S, T # {}
    PROVE  Min(T) \in T /\ \A y \in T : Min(T) <= y
<1> DEFINE Good == {U \in SUBSET S : U # {} => \E x \in U : \A y \in U : x <= y}
<1>1. {} \in Good
  OBVIOUS
<1>2. ASSUME NEW U \in Good, NEW x \in S PROVE U \cup {x} \in Good
  <2>1. U \cup {x} \in SUBSET S BY DEF Good
  <2>2. CASE U = {}
    <3>1. x <= x OBVIOUS
    <3> QED BY <2>1, <2>2, <3>1
  <2>3. CASE U # {}
    <3>1. PICK z \in U : \A y \in U : z <= y BY <2>3
    <3>2. z \in Int /\ x \in Int /\ \A y \in U : y \in Int OBVIOUS
    <3>3. CASE x <= z
      <4>1. \A y \in U \cup {x} : x <= y BY <3>1, <3>2, <3>3
      <4> QED BY <2>1, <4>1
    <3>4. CASE ~(x <= z)
      <4>1. \A y \in U \cup {x} : z <= y BY <3>1, <3>2, <3>4
      <4> QED BY <2>1, <3>1, <4>1
    <3> QED BY <3>3, <3>4
  <2> QED BY <2>2, <2>3
<1>3. Good = SUBSET S
  <2> HIDE DEF Good
  <2>1. Good \in SUBSET SUBSET S BY DEF Good
  <2> QED BY <1>1, <1>2, <2>1, SubsetInduction
<1>4. \E x \in T : \A y \in T : x <= y
  BY <1>3
<1> QED BY <1>4 DEF Min

Sum(s) == FoldLeft(+, 0, s)

Summing(g, s) ==
    /\ g \in [0 .. Len(s) -> Nat]
    /\ g[0] = 0
    /\ \A k \in 1 .. Len(s) : g[k] = g[k - 1] + s[k]

LEMMA SummingExists ==
    ASSUME NEW s \in Seq(Nat)
    PROVE  \E g : Summing(g, s)
<1> DEFINE N == Len(s)
<1> DEFINE step == [k \in 1 .. N |-> [x \in Nat |-> x + s[k]]]
<1>1. N \in Nat /\ 0 \in Nat /\ \A k \in 1 .. N : s[k] \in Nat
  OBVIOUS
<1>2. step \in [1 .. N -> [Nat -> Nat]]
  BY <1>1
<1>3. PICK g : Steps(g, N, Nat, 0, step)
  <2> HIDE DEF step, N
  <2> QED BY <1>1, <1>2, RecursionExists
<1>4. ASSUME NEW k \in 1 .. N PROVE g[k] = g[k - 1] + s[k]
  <2>1. k - 1 \in 0 .. N OBVIOUS
  <2>2. g[k] = step[k][g[k - 1]] /\ g[k - 1] \in Nat BY <1>3, <2>1 DEF Steps
  <2> QED BY <2>2
<1> QED BY <1>3, <1>4 DEF Steps, Summing

\* Sum adds the elements from the first to the last.
LEMMA SummingSums ==
    ASSUME NEW s \in Seq(Nat), NEW g, Summing(g, s)
    PROVE  Sum(s) = g[Len(s)]
<1> DEFINE N == Len(s)
<1> DEFINE D == 1 .. N
<1> DEFINE Eq(f) == f = [T \in SUBSET D |->
                           IF T = {} THEN 0 ELSE f[T \ {Max(T)}] + s[Max(T)]]
<1>1. N \in Nat /\ D = DOMAIN s /\ IsFiniteSet(D) /\ D \in SUBSET Int
      /\ \A k \in D : s[k] \in Nat
  <2>1. N \in Nat /\ D = DOMAIN s /\ \A k \in D : s[k] \in Nat OBVIOUS
  <2>2. D \in SUBSET Int
    <3>1. \A k \in D : k \in Int BY <2>1
    <3> QED BY <3>1
  <2>3. IsFiniteSet(D) BY <2>1, FS_Interval
  <2> QED BY <2>1, <2>2, <2>3
<1>2. Sum(s) = (CHOOSE f : Eq(f))[D]
  <2>1. Sum(s) = (CHOOSE f : f = [T \in SUBSET DOMAIN s |->
                     IF T = {} THEN 0 ELSE f[T \ {Max(T)}] + s[Max(T)]])[DOMAIN s]
    BY DEF Sum, FoldLeft, MapThenFoldSet
  <2> QED BY <1>1, <2>1
<1>3. \E f : Eq(f)
  <2> DEFINE pick == [T \in (SUBSET D) \ {{}} |-> Max(T)]
  <2> DEFINE step == [k \in D |-> [x \in Nat |-> x + s[k]]]
  <2>1. \A T \in (SUBSET D) \ {{}} : Max(T) \in T
    <3> HIDE DEF D
    <3> QED BY <1>1, MaxProperty
  <2>2. Takes(pick, D)
    <3> HIDE DEF D
    <3> QED BY <2>1 DEF Takes
  <2>3. step \in [D -> [Nat -> Nat]] /\ 0 \in Nat
    BY <1>1
  <2>4. PICK f : Shrinks(f, D, Nat, 0, pick, step)
    <3> HIDE DEF D, pick, step
    <3> QED BY <1>1, <2>2, <2>3, SetRecursionExists
  <2>5. f \in [SUBSET D -> Nat] /\ f[{}] = 0
    BY <2>4 DEF Shrinks
  <2>6. ASSUME NEW T \in (SUBSET D) \ {{}}
        PROVE  f[T] = f[T \ {Max(T)}] + s[Max(T)]
    <3>1. pick[T] = Max(T) /\ Max(T) \in D BY <2>1
    <3>2. f[T] = step[Max(T)][f[T \ {Max(T)}]]
      <4> HIDE DEF step, pick, D
      <4> QED BY <2>4, <3>1 DEF Shrinks
    <3>3. f[T \ {Max(T)}] \in Nat BY <2>5
    <3> HIDE DEF D
    <3> QED BY <3>1, <3>2, <3>3
  <2>7. Eq(f)
    <3> HIDE DEF D
    <3>1. f = [T \in SUBSET D |-> f[T]] BY <2>5
    <3> QED BY <2>5, <2>6, <3>1
  <2> HIDE DEF Eq
  <2> QED BY <2>7
<1> DEFINE f == CHOOSE f : Eq(f)
<1>4. Eq(f)
  <2> HIDE DEF Eq
  <2> QED BY <1>3
<1>5. ASSUME NEW T \in SUBSET D
      PROVE  f[T] = IF T = {} THEN 0 ELSE f[T \ {Max(T)}] + s[Max(T)]
  <2> HIDE DEF f, D
  <2> QED BY <1>4
<1> DEFINE Good == {k \in 0 .. N : f[1 .. k] = g[k]}
<1>6. 0 \in Good
  <2>1. 1 .. 0 = {} /\ {} \in SUBSET D OBVIOUS
  <2>2. f[{}] = 0
    <3> HIDE DEF f, D
    <3> QED BY <1>5, <2>1
  <2> HIDE DEF f
  <2> QED BY <1>1, <2>1, <2>2 DEF Summing
<1>7. ASSUME NEW k \in 0 .. N - 1, k \in Good PROVE k + 1 \in Good
  <2> HIDE DEF f
  <2>1. k + 1 \in 1 .. N /\ 1 .. k + 1 \in SUBSET D /\ 1 .. k + 1 # {}
        /\ k + 1 \in 1 .. k + 1
    <3>1. k + 1 \in 1 .. N /\ k + 1 \in 1 .. k + 1 BY <1>1
    <3>2. \A i \in 1 .. k + 1 : i \in 1 .. N BY <1>1
    <3> QED BY <3>1, <3>2
  <2>2. Max(1 .. k + 1) = k + 1
    <3>1. Max(1 .. k + 1) \in 1 .. k + 1 /\ \A y \in 1 .. k + 1 : Max(1 .. k + 1) >= y
      <4> HIDE DEF D
      <4> QED BY <1>1, <2>1, MaxProperty
    <3>2. Max(1 .. k + 1) >= k + 1 BY <2>1, <3>1
    <3>3. \A m \in 1 .. k + 1 : m >= k + 1 => m = k + 1 OBVIOUS
    <3> QED BY <3>1, <3>2, <3>3
  <2>3. (1 .. k + 1) \ {k + 1} = 1 .. k
    BY <1>1
  <2>4. f[1 .. k + 1] = f[1 .. k] + s[k + 1]
    <3> HIDE DEF D
    <3> QED BY <1>5, <2>1, <2>2, <2>3
  <2>5. g[k + 1] = g[k] + s[k + 1]
    <3>1. (k + 1) - 1 = k OBVIOUS
    <3> QED BY <2>1, <3>1 DEF Summing
  <2>6. f[1 .. k] = g[k] BY <1>7
  <2>7. k + 1 \in 0 .. N BY <2>1
  <2> QED BY <2>4, <2>5, <2>6, <2>7
<1>8. N \in Good
  <2> HIDE DEF Good
  <2>1. Good \in SUBSET (0 .. N) BY DEF Good
  <2>2. Good = 0 .. N BY <1>1, <1>6, <1>7, <2>1, UpToBound
  <2> QED BY <1>1, <2>2
<1>9. f[D] = g[N]
  <2> HIDE DEF f
  <2> QED BY <1>8
<1> QED BY <1>2, <1>9

LEMMA SumType ==
    ASSUME NEW s \in Seq(Nat)
    PROVE  Sum(s) \in Nat
<1>1. PICK g : Summing(g, s)
  BY SummingExists
<1>2. g[Len(s)] \in Nat
  <2>1. Len(s) \in 0 .. Len(s) OBVIOUS
  <2> QED BY <1>1, <2>1 DEF Summing
<1> QED BY <1>1, <1>2, SummingSums

LEMMA SumEmpty == Sum(<< >>) = 0
<1>1. << >> \in Seq(Nat) /\ Len(<< >>) = 0
  OBVIOUS
<1>2. PICK g : Summing(g, << >>)
  BY <1>1, SummingExists
<1>3. Sum(<< >>) = g[0]
  BY <1>1, <1>2, SummingSums
<1> QED BY <1>2, <1>3 DEF Summing

\* The sum of a prefix grows by the element that follows.
LEMMA SumPrefix ==
    ASSUME NEW s \in Seq(Nat), NEW k \in 1 .. Len(s)
    PROVE  Sum(SubSeq(s, 1, k)) = Sum(SubSeq(s, 1, k - 1)) + s[k]
<1>1. PICK g : Summing(g, s)
  BY SummingExists
<1>2. ASSUME NEW m \in 0 .. Len(s) PROVE Sum(SubSeq(s, 1, m)) = g[m]
  <2> DEFINE t == SubSeq(s, 1, m)
  <2> DEFINE h == [i \in 0 .. m |-> g[i]]
  <2>1. m \in Nat /\ t \in Seq(Nat) /\ Len(t) = m /\ \A i \in 1 .. m : t[i] = s[i]
    OBVIOUS
  <2>2. Summing(h, t)
    <3> HIDE DEF t
    <3>1. h \in [0 .. m -> Nat] /\ h[0] = 0
      <4>1. \A i \in 0 .. m : i \in 0 .. Len(s) BY <2>1
      <4>2. \A i \in 0 .. m : g[i] \in Nat BY <1>1, <4>1 DEF Summing
      <4>3. 0 \in 0 .. m /\ g[0] = 0 BY <1>1, <2>1 DEF Summing
      <4> QED BY <4>2, <4>3
    <3>2. ASSUME NEW i \in 1 .. m PROVE h[i] = h[i - 1] + t[i]
      <4>1. i \in 1 .. Len(s) /\ i \in 0 .. m /\ i - 1 \in 0 .. m BY <2>1
      <4>2. g[i] = g[i - 1] + s[i] BY <1>1, <4>1 DEF Summing
      <4> QED BY <2>1, <4>1, <4>2
    <3> HIDE DEF h
    <3> QED BY <2>1, <3>1, <3>2 DEF Summing
  <2>3. Sum(t) = h[m]
    <3> HIDE DEF h, t
    <3> QED BY <2>1, <2>2, SummingSums
  <2>4. h[m] = g[m] BY <2>1
  <2> HIDE DEF h
  <2> QED BY <2>3, <2>4
<1>3. k \in 0 .. Len(s) /\ k - 1 \in 0 .. Len(s)
  OBVIOUS
<1>4. g[k] = g[k - 1] + s[k]
  BY <1>1 DEF Summing
<1> QED BY <1>2, <1>3, <1>4

(***************************************************************************)
(* Pieces of a sequence                                                    *)
(***************************************************************************)
\* Pieces that follow each other are a piece.
LEMMA PiecesMeet ==
    ASSUME NEW U, NEW s \in Seq(U), NEW a \in Nat, NEW b \in Nat, NEW c \in Nat,
           a <= b, b <= c, c <= Len(s)
    PROVE  SubSeq(s, a + 1, b) \o SubSeq(s, b + 1, c) = SubSeq(s, a + 1, c)
<1>1. a + 1 \in 1 .. Len(s) + 1 /\ b \in (a + 1) - 1 .. Len(s) /\ c \in b .. Len(s)
  OBVIOUS
<1> QED BY <1>1, ConcatAdjacentSubSeq

\* A piece of s \o t that ends in s is one of s,
LEMMA PieceLeft ==
    ASSUME NEW U, NEW s \in Seq(U), NEW t \in Seq(U), NEW a \in Nat, NEW b \in Nat,
           b <= Len(s)
    PROVE  SubSeq(s \o t, a + 1, b) = SubSeq(s, a + 1, b)
<1>1. \A k \in 1 .. b : (s \o t)[k] = s[k]
  OBVIOUS
<1>2. ASSUME NEW k \in 1 .. b - a PROVE (s \o t)[k + a] = s[k + a]
  BY <1>1
<1> QED BY <1>2

\* one that begins behind s is one of t,
LEMMA PieceRight ==
    ASSUME NEW U, NEW s \in Seq(U), NEW t \in Seq(U), NEW a \in Nat, NEW b \in Nat,
           Len(s) <= a, b <= Len(s) + Len(t)
    PROVE  SubSeq(s \o t, a + 1, b) = SubSeq(t, (a - Len(s)) + 1, b - Len(s))
<1>1. CASE a + 1 <= b
  <2>1. /\ a + 1 \in Len(s) + 1 .. Len(s) + Len(t)
        /\ b \in Len(s) + 1 .. Len(s) + Len(t)
    BY <1>1
  <2>2. SubSeq(s \o t, a + 1, b) = SubSeq(t, a + 1 - Len(s), b - Len(s))
    BY <2>1, SubSeqOfConcat2
  <2>3. a + 1 - Len(s) = (a - Len(s)) + 1
    OBVIOUS
  <2> QED BY <2>2, <2>3
<1>2. CASE b < a + 1
  <2>1. SubSeq(s \o t, a + 1, b) = << >>
    BY <1>2, SubSeqEmpty
  <2>2. SubSeq(t, (a - Len(s)) + 1, b - Len(s)) = << >>
    <3>1. /\ (a - Len(s)) + 1 \in Int /\ b - Len(s) \in Int
          /\ b - Len(s) < (a - Len(s)) + 1
      BY <1>2
    <3> QED BY <3>1, SubSeqEmpty
  <2> QED BY <2>1, <2>2
<1> QED BY <1>1, <1>2

\* and one that meets both is made of one of each.
LEMMA PieceAcross ==
    ASSUME NEW U, NEW s \in Seq(U), NEW t \in Seq(U), NEW a \in Nat, NEW b \in Nat,
           a <= Len(s), Len(s) <= b, b <= Len(s) + Len(t)
    PROVE  SubSeq(s \o t, a + 1, b) = SubSeq(s, a + 1, Len(s)) \o SubSeq(t, 1, b - Len(s))
<1>1. s \o t \in Seq(U) /\ Len(s \o t) = Len(s) + Len(t) /\ Len(s) \in Nat
  OBVIOUS
<1>2. SubSeq(s \o t, a + 1, b) =
         SubSeq(s \o t, a + 1, Len(s)) \o SubSeq(s \o t, Len(s) + 1, b)
  BY <1>1, PiecesMeet, ZenonT(30)
<1>3. SubSeq(s \o t, a + 1, Len(s)) = SubSeq(s, a + 1, Len(s))
  BY <1>1, PieceLeft
<1>4. SubSeq(s \o t, Len(s) + 1, b) = SubSeq(t, (Len(s) - Len(s)) + 1, b - Len(s))
  BY <1>1, PieceRight
<1>5. (Len(s) - Len(s)) + 1 = 1
  OBVIOUS
<1> QED BY <1>2, <1>3, <1>4, <1>5
=============================================================================
