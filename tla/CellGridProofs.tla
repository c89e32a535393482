--------------------------- MODULE CellGridProofs ---------------------------
(***************************************************************************)
(* The stores of CellGrid keep their guardrails, whatever is loaded,       *)
(* written, shifted or moved, and a copy or a move is one simultaneous     *)
(* assignment: for every bound, sheet and argument.                        *)
(***************************************************************************)
EXTENDS CellGrid, DataInduction

(***************************************************************************)
(* Sequences, of which only the lengths count                              *)
(***************************************************************************)
LEMMA SequenceOf ==
    ASSUME NEW U, NEW s \in Seq(U)
    PROVE  IsSequence(s)
BY DEF IsSequence

LEMMA SequenceIn ==
    ASSUME NEW s, IsSequence(s), NEW U, \A i \in 1..Len(s) : s[i] \in U
    PROVE  s \in Seq(U)
<1>1. [i \in 1..Len(s) |-> s[i]] \in Seq(U)
  BY DEF IsSequence
<1> QED BY <1>1, Zenon DEF IsSequence

LEMMA SequenceDomain ==
    ASSUME NEW s, IsSequence(s)
    PROVE  Len(s) \in Nat /\ DOMAIN s = 1..Len(s)
<1>1. DOMAIN [i \in 1..Len(s) |-> s[i]] = 1..Len(s)
  OBVIOUS
<1> QED BY <1>1, Zenon DEF IsSequence

LEMMA SequenceTyped ==
    ASSUME NEW s, IsSequence(s)
    PROVE  s \in Seq({s[i] : i \in 1..Len(s)})
<1>1. \A i \in 1..Len(s) : s[i] \in {s[j] : j \in 1..Len(s)}
  OBVIOUS
<1> QED BY <1>1, SequenceIn

LEMMA SubSequence ==
    ASSUME NEW s, NEW m \in Int, NEW n \in Int, m <= n + 1
    PROVE  IsSequence(SubSeq(s, m, n)) /\ Len(SubSeq(s, m, n)) = n - m + 1
<1>1. SubSeq(s, m, n) = [i \in 1..(1 + n - m) |-> s[i + m - 1]]
  OBVIOUS
<1>2. [i \in 1..(1 + n - m) |-> s[i + m - 1]] \in Seq({s[i + m - 1] : i \in 1..(1 + n - m)})
  OBVIOUS
<1>3. Len([i \in 1..(1 + n - m) |-> s[i + m - 1]]) = n - m + 1
  OBVIOUS
<1> QED BY <1>1, <1>2, <1>3, SequenceOf

LEMMA JoinedSequence ==
    ASSUME NEW s, IsSequence(s), NEW t, IsSequence(t)
    PROVE  IsSequence(s \o t)
<1> DEFINE U == {s[i] : i \in 1..Len(s)} \cup {t[i] : i \in 1..Len(t)}
<1>1. s \in Seq(U) /\ t \in Seq(U)
  <2>1. \A i \in 1..Len(s) : s[i] \in U OBVIOUS
  <2>2. \A i \in 1..Len(t) : t[i] \in U OBVIOUS
  <2> QED BY <2>1, <2>2, SequenceIn
<1> HIDE DEF U
<1>2. s \o t \in Seq(U)
  BY <1>1
<1> QED BY <1>2, SequenceOf

LEMMA AppendedSequence ==
    ASSUME NEW s, IsSequence(s), NEW x
    PROVE  /\ IsSequence(Append(s, x)) /\ Len(Append(s, x)) = Len(s) + 1
           /\ \A i \in 1..Len(s) : Append(s, x)[i] = s[i]
           /\ Append(s, x)[Len(s) + 1] = x
<1> DEFINE U == {s[i] : i \in 1..Len(s)} \cup {x}
<1>1. s \in Seq(U) /\ x \in U
  <2>1. \A i \in 1..Len(s) : s[i] \in U OBVIOUS
  <2> QED BY <2>1, SequenceIn
<1> HIDE DEF U
<1>2. /\ Append(s, x) \in Seq(U) /\ Len(Append(s, x)) = Len(s) + 1
      /\ \A i \in 1..Len(s) : Append(s, x)[i] = s[i]
      /\ Append(s, x)[Len(s) + 1] = x
  BY <1>1
<1> QED BY <1>2, SequenceOf

LEMMA ShortSequences ==
    /\ IsSequence(<< >>)
    /\ \A x : IsSequence(<<x>>)
    /\ \A x, y, z : IsSequence(<<x, y, z>>)
<1>1. IsSequence(<< >>)
  <2>1. << >> \in Seq({}) OBVIOUS
  <2> QED BY <2>1, SequenceOf
<1>2. ASSUME NEW x PROVE IsSequence(<<x>>)
  <2>1. <<x>> \in Seq({x}) OBVIOUS
  <2> QED BY <2>1, SequenceOf
<1>3. ASSUME NEW x, NEW y, NEW z PROVE IsSequence(<<x, y, z>>)
  <2>1. <<x, y, z>> \in Seq({x, y, z}) OBVIOUS
  <2> QED BY <2>1, SequenceOf
<1> QED BY <1>1, <1>2, <1>3

\* Joining sequences, however many, gives a sequence.
LEMMA FlattenedSequence ==
    ASSUME NEW N \in Nat, NEW ss, ss = [i \in 1..N |-> ss[i]],
           \A i \in 1..N : IsSequence(ss[i])
    PROVE  IsSequence(FlattenSeq(ss))
<1> DEFINE U == UNION {{ss[i][j] : j \in 1..Len(ss[i])} : i \in 1..N}
<1>1. ASSUME NEW i \in 1..N PROVE ss[i] \in Seq(U)
  <2>1. \A j \in 1..Len(ss[i]) : ss[i][j] \in U OBVIOUS
  <2> QED BY <2>1, SequenceIn
<1> HIDE DEF U
<1>2. [i \in 1..N |-> ss[i]] \in Seq(Seq(U))
  BY <1>1
<1>3. ss \in Seq(Seq(U))
  BY <1>2, Zenon
<1> QED BY <1>3, FlattenType, SequenceOf

(***************************************************************************)
(* Formulas: what a rewriting gives is a sequence of lexemes               *)
(***************************************************************************)
TokensOf(formula) == {TokenAt(formula, i) : i \in 1..Len(formula)}

LEMMA TokenShape ==
    ASSUME NEW formula, NEW i \in Int
    PROVE  TokenAt(formula, i).at = i /\ TokenAt(formula, i).length \in {1, 3}
BY DEF TokenAt, Token

TokenStep(formula, f, i) ==
    IF i > Len(formula) THEN << >>
    ELSE <<TokenAt(formula, i)>> \o f[i + TokenAt(formula, i).length]

\* The tokens from position Len(formula) + 1 - m on.
TokensFrom(formula, f, m) ==
    /\ f \in [Len(formula) + 1 - m..Len(formula) + 3 -> Seq(TokensOf(formula))]
    /\ \A i \in Len(formula) + 1 - m..Len(formula) + 3 : f[i] = TokenStep(formula, f, i)

LEMMA TokensFromExist ==
    ASSUME NEW formula, IsSequence(formula)
    PROVE  \E f : TokensFrom(formula, f, Len(formula))
<1> DEFINE L == Len(formula)
           T == TokensOf(formula)
           Good == {m \in 0..L : \E f : TokensFrom(formula, f, m)}
<1>1. L \in Nat BY SequenceDomain
<1>2. 0 \in Good
  <2> DEFINE f == [i \in L + 1 - 0..L + 3 |-> << >>]
  <2>1. f \in [L + 1 - 0..L + 3 -> Seq(T)] OBVIOUS
  <2>2. ASSUME NEW i \in L + 1 - 0..L + 3 PROVE f[i] = TokenStep(formula, f, i)
    BY <1>1 DEF TokenStep
  <2>3. TokensFrom(formula, f, 0)
    <3> HIDE DEF f
    <3> QED BY <2>1, <2>2 DEF TokensFrom
  <2> HIDE DEF f
  <2> QED BY <1>1, <2>3
<1>3. ASSUME NEW m \in 0..L - 1, m \in Good PROVE m + 1 \in Good
  <2>1. PICK f : TokensFrom(formula, f, m) BY <1>3
  <2> DEFINE k == L - m
             token == TokenAt(formula, k)
             text == <<token>> \o f[k + token.length]
             g == [i \in L + 1 - (m + 1)..L + 3 |-> IF i = k THEN text ELSE f[i]]
  <2>2. k \in 1..L /\ k \in Int /\ L + 1 - (m + 1) = k /\ L + 1 - m = k + 1
    BY <1>1
  <2>3. token \in T /\ token.length \in {1, 3}
    BY <2>2, TokenShape DEF TokensOf
  <2> HIDE DEF token
  <2>4. k + token.length \in L + 1 - m..L + 3 BY <1>1, <2>2, <2>3
  <2>5. text \in Seq(T)
    <3>1. f[k + token.length] \in Seq(T) BY <2>1, <2>4 DEF TokensFrom
    <3>2. <<token>> \in Seq(T) BY <2>3
    <3> HIDE DEF T
    <3> QED BY <3>1, <3>2
  <2>6. g \in [L + 1 - (m + 1)..L + 3 -> Seq(T)]
    <3>1. ASSUME NEW i \in L + 1 - (m + 1)..L + 3 PROVE g[i] \in Seq(T)
      <4>1. CASE i = k BY <2>5, <4>1
      <4>2. CASE i # k
        <5>1. i \in L + 1 - m..L + 3 BY <1>1, <2>2, <4>2
        <5>2. f[i] \in Seq(T) BY <2>1, <5>1 DEF TokensFrom
        <5> QED BY <4>2, <5>2
      <4> QED BY <4>1, <4>2
    <3> HIDE DEF T
    <3> QED BY <3>1
  <2>7. ASSUME NEW i \in L + 1 - (m + 1)..L + 3 PROVE g[i] = TokenStep(formula, g, i)
    <3>1. CASE i = k
      <4>1. k + token.length # k /\ k + token.length \in L + 1 - (m + 1)..L + 3
        BY <1>1, <2>2, <2>3
      <4>2. g[k + token.length] = f[k + token.length] BY <4>1
      <4>3. ~(k > Len(formula)) BY <1>1, <2>2
      <4>4. g[k] = <<token>> \o g[k + token.length]
        <5>1. g[k] = text BY <3>1
        <5> QED BY <4>2, <5>1
      <4> HIDE DEF g
      <4> QED BY <3>1, <4>3, <4>4 DEF TokenStep, token
    <3>2. CASE i # k
      <4>1. i \in L + 1 - m..L + 3 /\ i \in Int BY <1>1, <2>2, <3>2
      <4>2. g[i] = f[i] /\ f[i] = TokenStep(formula, f, i) BY <2>1, <3>2, <4>1 DEF TokensFrom
      <4>3. CASE i > Len(formula) BY <4>2, <4>3 DEF TokenStep
      <4>4. CASE ~(i > Len(formula))
        <5>1. TokenAt(formula, i).length \in {1, 3} BY <4>1, TokenShape
        <5> DEFINE j == i + TokenAt(formula, i).length
        <5>2. j # k /\ j \in L + 1 - (m + 1)..L + 3 BY <1>1, <2>2, <4>1, <4>4, <5>1
        <5>3. g[j] = f[j] BY <5>2
        <5> HIDE DEF g
        <5> QED BY <4>2, <4>4, <5>3 DEF TokenStep
      <4> QED BY <4>3, <4>4
    <3> QED BY <3>1, <3>2
  <2>8. TokensFrom(formula, g, m + 1)
    <3> HIDE DEF g
    <3> QED BY <2>6, <2>7 DEF TokensFrom
  <2> HIDE DEF g
  <2>9. m + 1 \in 0..L BY <1>1
  <2> QED BY <2>8, <2>9
<1>4. L \in Good
  <2> HIDE DEF Good
  <2>1. Good \in SUBSET (0..L) BY DEF Good
  <2>2. Good = 0..L BY <1>1, <1>2, <1>3, <2>1, UpToBound
  <2> QED BY <1>1, <2>2
<1> QED BY <1>4

LEMMA TokensGiven ==
    ASSUME NEW formula, IsSequence(formula)
    PROVE  \E f : TokensFrom(formula, f, Len(formula)) /\ Tokens(formula) = f[1]
<1> DEFINE L == Len(formula)
           D == 1..(Len(formula) + 3)
           Eq(f) == f = [i \in 1..(Len(formula) + 3) |->
                            IF i > Len(formula) THEN << >>
                            ELSE LET token == TokenAt(formula, i)
                                 IN  <<token>> \o f[i + token.length]]
           from == CHOOSE f : Eq(f)
<1>1. L \in Nat BY SequenceDomain
<1>2. Tokens(formula) = from[1]
  BY DEF Tokens
<1>3. \E f : Eq(f)
  <2>1. PICK f : TokensFrom(formula, f, L) BY TokensFromExist
  <2>2. L + 1 - L..L + 3 = D BY <1>1
  <2>3. f \in [D -> Seq(TokensOf(formula))] /\ \A i \in D : f[i] = TokenStep(formula, f, i)
    BY <2>1, <2>2 DEF TokensFrom
  <2>4. Eq(f) BY <2>3 DEF TokenStep
  <2> QED BY <2>4
<1>4. Eq(from)
  <2> HIDE DEF Eq
  <2> QED BY <1>3
<1> HIDE DEF from
<1>5. \A i \in D : from[i] = TokenStep(formula, from, i)
  BY <1>4 DEF TokenStep
<1> DEFINE Good == {m \in 0..L : \A i \in L + 1 - m..L + 3 : from[i] \in Seq(TokensOf(formula))}
<1>6. 0 \in Good
  <2>1. ASSUME NEW i \in L + 1 - 0..L + 3 PROVE from[i] = << >>
    <3>1. i \in D /\ i > Len(formula) BY <1>1
    <3> QED BY <1>5, <3>1 DEF TokenStep
  <2>2. << >> \in Seq(TokensOf(formula)) OBVIOUS
  <2>3. ASSUME NEW i \in L + 1 - 0..L + 3 PROVE from[i] \in Seq(TokensOf(formula))
    BY <2>1, <2>2, Zenon
  <2>4. 0 \in 0..L BY <1>1
  <2> QED BY <2>3, <2>4
<1>7. ASSUME NEW m \in 0..L - 1, m \in Good PROVE m + 1 \in Good
  <2> DEFINE k == L - m
             token == TokenAt(formula, k)
  <2>1. k \in 1..L /\ k \in D /\ k \in Int /\ ~(k > Len(formula)) BY <1>1
  <2>2. token \in TokensOf(formula) /\ token.length \in {1, 3} BY <2>1, TokenShape DEF TokensOf
  <2>3. from[k] = <<token>> \o from[k + token.length] BY <1>5, <2>1 DEF TokenStep
  <2> HIDE DEF token
  <2>4. k + token.length \in L + 1 - m..L + 3 BY <1>1, <2>2
  <2>5. from[k + token.length] \in Seq(TokensOf(formula)) BY <1>7, <2>4
  <2>6. <<token>> \in Seq(TokensOf(formula)) BY <2>2
  <2>7. from[k] \in Seq(TokensOf(formula)) BY <2>3, <2>5, <2>6
  <2>8. ASSUME NEW i \in L + 1 - (m + 1)..L + 3 PROVE from[i] \in Seq(TokensOf(formula))
    <3>1. CASE i = k BY <2>7, <3>1
    <3>2. CASE i # k
      <4>1. i \in L + 1 - m..L + 3 BY <1>1, <3>2
      <4> QED BY <1>7, <4>1
    <3> QED BY <3>1, <3>2
  <2> QED BY <1>1, <2>8
<1>8. L \in Good
  <2> HIDE DEF Good
  <2>1. Good \in SUBSET (0..L) BY DEF Good
  <2>2. Good = 0..L BY <1>1, <1>6, <1>7, <2>1, UpToBound
  <2> QED BY <1>1, <2>2
<1>9. TokensFrom(formula, from, L)
  <2>1. L + 1 - L..L + 3 = D BY <1>1
  <2>2. from = [i \in D |-> from[i]] BY <1>4
  <2>3. \A i \in D : from[i] \in Seq(TokensOf(formula)) BY <1>8, <2>1
  <2>4. from \in [D -> Seq(TokensOf(formula))] BY <2>2, <2>3
  <2> QED BY <1>5, <2>1, <2>4 DEF TokensFrom
<1> QED BY <1>2, <1>9

LEMMA TokensType ==
    ASSUME NEW formula, IsSequence(formula)
    PROVE  Tokens(formula) \in Seq(TokensOf(formula))
<1> DEFINE L == Len(formula)
<1>1. PICK f : TokensFrom(formula, f, L) /\ Tokens(formula) = f[1]
  BY TokensGiven
<1>2. 1 \in L + 1 - L..L + 3
  BY SequenceDomain
<1> QED BY <1>1, <1>2 DEF TokensFrom

LEMMA TokenTextType ==
    ASSUME NEW formula, IsSequence(formula), NEW token \in TokensOf(formula)
    PROVE  IsSequence(TokenText(formula, token))
<1>1. PICK i \in 1..Len(formula) : token = TokenAt(formula, i)
  BY DEF TokensOf
<1>2. token.at = i /\ token.length \in {1, 3} /\ i \in Int
  BY <1>1, TokenShape, SequenceDomain
<1>3. i + token.length - 1 \in Int /\ i <= (i + token.length - 1) + 1
  BY <1>2
<1> QED BY <1>2, <1>3, SubSequence DEF TokenText

\* insert_shifted_record and the copies keep formulas formulas.
LEMMA TranslatedType ==
    ASSUME NEW formula, IsSequence(formula), NEW delta
    PROVE  IsSequence(TranslatedFormula(formula, delta))
<1> DEFINE tokens == Tokens(formula)
           rewritten(r) == CASE r.kind = "cell"  -> <<TranslatedEnd(r.first, delta)>>
                             [] r.kind = "range" -> TranslatedRange(r, delta)
                             [] OTHER            -> TranslatedAxisRange(r, delta)
           piece(i) == IF IsReference(tokens[i]) THEN rewritten(tokens[i])
                       ELSE TokenText(formula, tokens[i])
           ss == [i \in DOMAIN tokens |-> piece(i)]
<1>1. tokens \in Seq(TokensOf(formula)) BY TokensType
<1>2. Len(tokens) \in Nat /\ DOMAIN tokens = 1..Len(tokens)
      /\ \A i \in 1..Len(tokens) : tokens[i] \in TokensOf(formula)
  BY <1>1
<1>3. ASSUME NEW r PROVE IsSequence(rewritten(r))
  BY ShortSequences DEF TranslatedRange, TranslatedAxisRange, RangeText, AxisRangeText
<1>4. ASSUME NEW i \in 1..Len(tokens) PROVE IsSequence(piece(i))
  <2> HIDE DEF rewritten
  <2>1. IsSequence(TokenText(formula, tokens[i])) BY <1>2, TokenTextType
  <2> QED BY <1>3, <2>1
<1>5. IsSequence(FlattenSeq(ss))
  <2> HIDE DEF piece
  <2>1. ss = [i \in 1..Len(tokens) |-> ss[i]] BY <1>2
  <2>2. \A i \in 1..Len(tokens) : IsSequence(ss[i]) BY <1>2, <1>4
  <2> HIDE DEF ss
  <2> QED BY <1>2, <2>1, <2>2, FlattenedSequence
<1>6. TranslatedFormula(formula, delta)
        = IF delta.rows = 0 /\ delta.columns = 0 THEN formula ELSE FlattenSeq(ss)
  BY DEF TranslatedFormula, RewrittenTokens
<1> QED BY <1>5, <1>6

LEMMA RewrittenType ==
    ASSUME NEW formula, IsSequence(formula), NEW edit
    PROVE  IsSequence(RewrittenFormula(formula, edit))
<1> DEFINE tokens == Tokens(formula)
           rewritten(r) == IF ~Affected(r, edit) THEN TokenText(formula, r)
                           ELSE CASE r.kind = "cell"  -> <<StructuralEnd(r.first, edit)>>
                                  [] r.kind = "range" -> StructuralRange(r, edit)
                                  [] OTHER            -> StructuralAxisRange(r, edit)
           piece(i) == IF IsReference(tokens[i]) THEN rewritten(tokens[i])
                       ELSE TokenText(formula, tokens[i])
           ss == [i \in DOMAIN tokens |-> piece(i)]
<1>1. tokens \in Seq(TokensOf(formula)) BY TokensType
<1>2. Len(tokens) \in Nat /\ DOMAIN tokens = 1..Len(tokens)
      /\ \A i \in 1..Len(tokens) : tokens[i] \in TokensOf(formula)
  BY <1>1
<1>3. ASSUME NEW r, IsSequence(TokenText(formula, r)) PROVE IsSequence(rewritten(r))
  BY <1>3, ShortSequences DEF StructuralRange, StructuralAxisRange, RangeText, AxisRangeText
<1>4. ASSUME NEW i \in 1..Len(tokens) PROVE IsSequence(piece(i))
  <2> HIDE DEF rewritten
  <2>1. IsSequence(TokenText(formula, tokens[i])) BY <1>2, TokenTextType
  <2> QED BY <1>3, <2>1
<1>5. IsSequence(FlattenSeq(ss))
  <2> HIDE DEF piece
  <2>1. ss = [i \in 1..Len(tokens) |-> ss[i]] BY <1>2
  <2>2. \A i \in 1..Len(tokens) : IsSequence(ss[i]) BY <1>2, <1>4
  <2> HIDE DEF ss
  <2> QED BY <1>2, <2>1, <2>2, FlattenedSequence
<1>6. RewrittenFormula(formula, edit) = FlattenSeq(ss)
  BY DEF RewrittenFormula, RewrittenTokens
<1> QED BY <1>5, <1>6

(***************************************************************************)
(* Where the tokens of a formula stand: one after another, from its first  *)
(* lexeme to its last                                                      *)
(***************************************************************************)
\* Tokens that follow each other from a position of the formula to its end.
NextAt(tokens, start, k) ==
    IF k = 0 THEN start ELSE tokens[k].at + tokens[k].length

Tiles(formula, start, tokens) ==
    /\ tokens \in Seq(TokensOf(formula))
    /\ \A k \in 1..Len(tokens) : tokens[k].at = NextAt(tokens, start, k - 1)
    /\ NextAt(tokens, start, Len(tokens)) = Len(formula) + 1

LEMMA TokenFits ==
    ASSUME NEW formula, IsSequence(formula), NEW i \in 1..Len(formula)
    PROVE  /\ TokenAt(formula, i).at = i /\ TokenAt(formula, i).length \in {1, 3}
           /\ i + TokenAt(formula, i).length \in i + 1..Len(formula) + 1
<1>1. Len(formula) \in Nat /\ DOMAIN formula = 1..Len(formula) /\ i \in Int
  BY SequenceDomain
<1>2. \A j \in Int : KindAt(formula, j) \in {"row", "column", "address"} => j \in 1..Len(formula)
  BY <1>1 DEF KindAt
<1>3. TokenAt(formula, i).at = i /\ TokenAt(formula, i).length \in {1, 3}
  BY <1>1, TokenShape
<1>4. CASE IsAxisRange(formula, i) \/ IsCellRange(formula, i)
  <2>1. KindAt(formula, i + 2) \in {"row", "column", "address"}
    BY <1>4 DEF IsAxisRange, IsCellRange, IsCell
  <2>2. i + 2 \in 1..Len(formula) BY <1>1, <1>2, <2>1
  <2> QED BY <1>1, <1>3, <2>2
<1>5. CASE ~(IsAxisRange(formula, i) \/ IsCellRange(formula, i))
  <2>1. TokenAt(formula, i).length = 1 BY <1>5 DEF TokenAt, Token
  <2> QED BY <1>1, <1>3, <2>1
<1> QED BY <1>4, <1>5

LEMMA TileAt ==
    ASSUME NEW formula, IsSequence(formula), NEW start, NEW tokens, Tiles(formula, start, tokens),
           NEW k \in 1..Len(tokens)
    PROVE  /\ tokens[k].at \in 1..Len(formula)
           /\ tokens[k] = TokenAt(formula, tokens[k].at)
           /\ tokens[k].length \in {1, 3}
           /\ tokens[k].at + tokens[k].length \in tokens[k].at + 1..Len(formula) + 1
<1>1. tokens[k] \in TokensOf(formula)
  BY DEF Tiles
<1>2. PICK i \in 1..Len(formula) : tokens[k] = TokenAt(formula, i)
  BY <1>1 DEF TokensOf
<1> QED BY <1>2, TokenFits, Zenon

LEMMA TilesMore ==
    ASSUME NEW formula, IsSequence(formula), NEW i \in 1..Len(formula), NEW rest,
           Tiles(formula, i + TokenAt(formula, i).length, rest)
    PROVE  Tiles(formula, i, <<TokenAt(formula, i)>> \o rest)
<1> DEFINE t == TokenAt(formula, i)
           all == <<t>> \o rest
           n == Len(rest)
<1>1. t \in TokensOf(formula) /\ t.at = i
  BY TokenFits DEF TokensOf
<1>2. rest \in Seq(TokensOf(formula)) /\ n \in Nat
  BY DEF Tiles
<1>3. /\ all \in Seq(TokensOf(formula)) /\ Len(all) = n + 1 /\ all[1] = t
      /\ \A k \in 1..n : all[k + 1] = rest[k]
  <2> HIDE DEF t
  <2> QED BY <1>1, <1>2
<1> HIDE DEF t, all, n
<1>4. \A k \in 0..n : NextAt(all, i, k + 1) = NextAt(rest, i + t.length, k)
  BY <1>1, <1>2, <1>3 DEF NextAt
<1>5. ASSUME NEW k \in 1..Len(all) PROVE all[k].at = NextAt(all, i, k - 1)
  <2>1. CASE k = 1 BY <1>1, <1>3, <2>1 DEF NextAt
  <2>2. CASE k # 1
    <3>1. PICK j \in 1..n : k = j + 1
      <4>1. k - 1 \in 1..n /\ k = (k - 1) + 1 BY <1>2, <1>3, <2>2
      <4> QED BY <4>1
    <3>2. j - 1 \in 0..n /\ (j - 1) + 1 = k - 1 BY <1>2, <3>1
    <3>3. NextAt(all, i, k - 1) = NextAt(rest, i + t.length, j - 1) BY <1>4, <3>2
    <3>4. rest[j].at = NextAt(rest, i + t.length, j - 1) BY DEF Tiles, t, n
    <3> QED BY <1>3, <3>1, <3>3, <3>4
  <2> QED BY <2>1, <2>2
<1>6. NextAt(all, i, Len(all)) = Len(formula) + 1
  <2>1. NextAt(rest, i + t.length, n) = Len(formula) + 1 BY DEF Tiles, t, n
  <2>2. n \in 0..n BY <1>2
  <2> QED BY <1>3, <1>4, <2>1, <2>2
<1> QED BY <1>3, <1>5, <1>6 DEF Tiles, all, t

LEMMA TokensTile ==
    ASSUME NEW formula, IsSequence(formula)
    PROVE  Tiles(formula, 1, Tokens(formula))
<1> DEFINE L == Len(formula)
<1>1. L \in Nat
  BY SequenceDomain
<1>2. PICK f : TokensFrom(formula, f, L) /\ Tokens(formula) = f[1]
  BY TokensGiven
<1>3. \A i \in 1..L + 3 : f[i] \in Seq(TokensOf(formula)) /\ f[i] = TokenStep(formula, f, i)
  <2>1. L + 1 - L = 1 BY <1>1
  <2> QED BY <1>2, <2>1 DEF TokensFrom
<1> DEFINE Good == {m \in 0..L : \A i \in L + 1 - m..L + 1 : Tiles(formula, i, f[i])}
<1>4. 0 \in Good
  <2>1. f[L + 1] = << >>
    <3>1. L + 1 \in 1..L + 3 /\ L + 1 > Len(formula) BY <1>1
    <3> QED BY <1>3, <3>1 DEF TokenStep
  <2>2. Tiles(formula, L + 1, << >>)
    <3>1. << >> \in Seq(TokensOf(formula)) /\ Len(<< >>) = 0 OBVIOUS
    <3> QED BY <3>1 DEF Tiles, NextAt
  <2>3. ASSUME NEW i \in L + 1 - 0..L + 1 PROVE i = L + 1 BY <1>1
  <2> QED BY <1>1, <2>1, <2>2, <2>3
<1>5. ASSUME NEW m \in 0..L - 1, m \in Good PROVE m + 1 \in Good
  <2> DEFINE k == L - m
             next == k + TokenAt(formula, k).length
  <2>1. k \in 1..L /\ k \in 1..L + 3 /\ ~(k > Len(formula)) BY <1>1
  <2>2. next \in k + 1..L + 1 BY <2>1, TokenFits
  <2>3. next \in L + 1 - m..L + 1 BY <1>1, <2>2
  <2>4. Tiles(formula, next, f[next]) BY <1>5, <2>3
  <2>5. f[k] = <<TokenAt(formula, k)>> \o f[next] BY <1>3, <2>1 DEF TokenStep
  <2>6. Tiles(formula, k, f[k]) BY <2>1, <2>4, <2>5, TilesMore
  <2> HIDE DEF next
  <2>7. ASSUME NEW i \in L + 1 - (m + 1)..L + 1 PROVE Tiles(formula, i, f[i])
    <3>1. CASE i = k BY <2>6, <3>1
    <3>2. CASE i # k
      <4>1. i \in L + 1 - m..L + 1 BY <1>1, <3>2
      <4> QED BY <1>5, <4>1
    <3> QED BY <3>1, <3>2
  <2> QED BY <1>1, <2>7
<1>6. L \in Good
  <2> HIDE DEF Good
  <2>1. Good \in SUBSET (0..L) BY DEF Good
  <2>2. Good = 0..L BY <1>1, <1>4, <1>5, <2>1, UpToBound
  <2> QED BY <1>1, <2>2
<1>7. 1 \in L + 1 - L..L + 1
  BY <1>1
<1> QED BY <1>2, <1>6, <1>7

\* A formula has only one sequence of tokens,
LEMMA TilesUnique ==
    ASSUME NEW formula, IsSequence(formula),
           NEW s, Tiles(formula, 1, s), NEW t, Tiles(formula, 1, t)
    PROVE  s = t
<1>1. Len(formula) \in Nat
  BY SequenceDomain
<1>2. ASSUME NEW a, Tiles(formula, 1, a), NEW b, Tiles(formula, 1, b), Len(a) <= Len(b)
      PROVE  a = b
  <2>1. /\ a \in Seq(TokensOf(formula)) /\ b \in Seq(TokensOf(formula))
        /\ Len(a) \in Nat /\ Len(b) \in Nat
    BY <1>2 DEF Tiles
  <2> DEFINE N == Len(a)
             Good == {m \in 0..N : \A k \in 1..m : a[k] = b[k]}
  <2>2. 0 \in Good BY <2>1
  <2>3. ASSUME NEW m \in 0..N - 1, m \in Good PROVE m + 1 \in Good
    <3>1. m + 1 \in 1..Len(a) /\ m + 1 \in 1..Len(b) /\ (m + 1) - 1 = m BY <1>2, <2>1
    <3>2. NextAt(a, 1, m) = NextAt(b, 1, m)
      <4>1. CASE m = 0 BY <4>1 DEF NextAt
      <4>2. CASE m # 0
        <5>1. m \in 1..m BY <4>2
        <5> QED BY <2>3, <5>1 DEF NextAt
      <4> QED BY <4>1, <4>2
    <3>3. PICK i \in 1..Len(a) : i \in 1..Len(b) /\ i = m + 1 /\ i - 1 = m BY <3>1
    <3>4. a[i].at = NextAt(a, 1, i - 1) /\ b[i].at = NextAt(b, 1, i - 1)
      BY <1>2, <3>3 DEF Tiles
    <3>5. a[i].at = b[i].at BY <3>2, <3>3, <3>4
    <3>6. a[i] = TokenAt(formula, a[i].at) /\ b[i] = TokenAt(formula, b[i].at)
      BY <1>2, <3>3, TileAt
    <3>7. a[i] = b[i] BY <3>5, <3>6, Zenon
    <3>8. \A k \in 1..m + 1 : a[k] = b[k]
      <4>1. \A k \in 1..m + 1 : k \in 1..m \/ k = i BY <3>3
      <4> QED BY <2>3, <3>7, <4>1
    <3> QED BY <3>1, <3>8
  <2>4. N \in Good
    <3> HIDE DEF Good
    <3>1. Good \in SUBSET (0..N) BY DEF Good
    <3>2. Good = 0..N BY <2>1, <2>2, <2>3, <3>1, UpToBound
    <3> QED BY <2>1, <3>2
  <2>5. Len(b) = Len(a)
    <3> SUFFICES ASSUME N < Len(b) PROVE FALSE BY <1>2, <2>1
    <3>1. NextAt(a, 1, N) = NextAt(b, 1, N)
      <4>1. CASE N = 0 BY <4>1 DEF NextAt
      <4>2. CASE N # 0
        <5>1. N \in 1..N BY <2>1, <4>2
        <5>2. a[N] = b[N] BY <2>4, <5>1
        <5> QED BY <5>2 DEF NextAt
      <4> QED BY <4>1, <4>2
    <3>2. NextAt(a, 1, N) = Len(formula) + 1 BY <1>2 DEF Tiles
    <3>3. PICK i \in 1..Len(b) : i = N + 1 /\ i - 1 = N
      <4>1. N + 1 \in 1..Len(b) /\ (N + 1) - 1 = N BY <2>1
      <4> QED BY <4>1
    <3>4. b[i].at = NextAt(b, 1, i - 1) BY <1>2, <3>3 DEF Tiles
    <3>5. b[i].at \in 1..Len(formula) BY <1>2, TileAt
    <3>6. b[i].at = Len(formula) + 1 BY <3>1, <3>2, <3>3, <3>4
    <3> QED BY <1>1, <3>5, <3>6
  <2> QED BY <2>1, <2>4, <2>5
<1>3. Len(s) \in Nat /\ Len(t) \in Nat
  BY DEF Tiles
<1>4. CASE Len(s) <= Len(t) BY <1>2, <1>4
<1>5. CASE Len(t) <= Len(s) BY <1>2, <1>5
<1> QED BY <1>3, <1>4, <1>5

\* and it leaves no position out.
LEMMA TilesCover ==
    ASSUME NEW formula, IsSequence(formula), NEW tokens, Tiles(formula, 1, tokens),
           NEW j \in 1..Len(formula)
    PROVE  \E k \in 1..Len(tokens) : j \in tokens[k].at..tokens[k].at + tokens[k].length - 1
<1> DEFINE N == Len(tokens)
           Reached(k) == \E i \in 1..k : j \in tokens[i].at..tokens[i].at + tokens[i].length - 1
           Good == {k \in 0..N : j < NextAt(tokens, 1, k) => Reached(k)}
<1>1. N \in Nat
  BY DEF Tiles
<1>2. 0 \in Good
  BY <1>1 DEF NextAt
<1>3. ASSUME NEW m \in 0..N - 1, m \in Good PROVE m + 1 \in Good
  <2>1. PICK i \in 1..N : i = m + 1 /\ i - 1 = m
    <3>1. m + 1 \in 1..N /\ (m + 1) - 1 = m BY <1>1
    <3> QED BY <3>1
  <2>2. tokens[i].at = NextAt(tokens, 1, m) BY <2>1 DEF Tiles
  <2>3. tokens[i].at \in Int /\ tokens[i].length \in Int
    BY <1>1, <2>1, TileAt, SequenceDomain
  <2>4. NextAt(tokens, 1, m + 1) = tokens[i].at + tokens[i].length BY <2>1 DEF NextAt
  <2>5. CASE j < NextAt(tokens, 1, m)
    <3>1. Reached(m) BY <1>3, <2>5
    <3>2. Reached(m + 1) BY <3>1
    <3> HIDE DEF Reached
    <3> QED BY <1>1, <3>2
  <2>6. CASE ~(j < NextAt(tokens, 1, m)) /\ j < NextAt(tokens, 1, m + 1)
    <3>1. j \in tokens[i].at..tokens[i].at + tokens[i].length - 1
      BY <2>2, <2>3, <2>4, <2>6
    <3>2. i \in 1..m + 1 BY <2>1
    <3>3. Reached(m + 1) BY <3>1, <3>2
    <3> HIDE DEF Reached
    <3> QED BY <1>1, <3>3
  <2>7. CASE ~(j < NextAt(tokens, 1, m + 1))
    <3> HIDE DEF Reached
    <3> QED BY <1>1, <2>7
  <2> HIDE DEF Good
  <2> QED BY <2>5, <2>6, <2>7
<1>4. N \in Good
  <2> HIDE DEF Good
  <2>1. Good \in SUBSET (0..N) BY DEF Good
  <2>2. Good = 0..N BY <1>1, <1>2, <1>3, <2>1, UpToBound
  <2> QED BY <1>1, <2>2
<1>5. j < NextAt(tokens, 1, N)
  <2>1. NextAt(tokens, 1, N) = Len(formula) + 1 /\ Len(formula) \in Nat
    BY SequenceDomain DEF Tiles
  <2> QED BY <2>1
<1> QED BY <1>4, <1>5

\* Pieces stand where the tokens stood.
StandFor(tokens, ss, flat) ==
    \A k \in 1..Len(tokens) : \A d \in 1..tokens[k].length :
        flat[tokens[k].at + d - 1] = ss[k][d]

\* So they do when pieces of the lengths of the tokens are joined.
LEMMA PiecesLaid ==
    ASSUME NEW formula, IsSequence(formula), NEW tokens, Tiles(formula, 1, tokens),
           NEW S, NEW ss \in Seq(Seq(S)), Len(ss) = Len(tokens),
           \A k \in 1..Len(ss) : Len(ss[k]) = tokens[k].length
    PROVE  /\ FlattenSeq(ss) \in Seq(S) /\ Len(FlattenSeq(ss)) = Len(formula)
           /\ StandFor(tokens, ss, FlattenSeq(ss))
<1> DEFINE N == Len(tokens)
<1>1. N \in Nat /\ Len(formula) \in Nat
  BY SequenceDomain DEF Tiles
<1>2. PICK g : Joining(g, ss, S)
  BY JoiningExists
<1>3. /\ g \in [0..N -> Seq(S)] /\ g[0] = << >> /\ FlattenSeq(ss) = g[N]
      /\ \A n \in 1..N : Len(g[n]) = Len(g[n - 1]) + Len(ss[n])
      /\ \A n \in 1..N : \A d \in 1..Len(ss[n]) : g[N][Len(g[n - 1]) + d] = ss[n][d]
  <2>1. /\ g \in [0..N -> Seq(S)] /\ g[0] = << >>
    BY <1>2, JoiningStep
  <2>2. FlattenSeq(ss) = g[N]
    BY <1>2, JoiningFlattens
  <2>3. LaidOut(g, ss)
    BY <1>2, JoiningLaid
  <2> QED BY <2>1, <2>2, <2>3 DEF LaidOut
<1> DEFINE Good == {m \in 0..N : Len(g[m]) = NextAt(tokens, 1, m) - 1}
<1>4. 0 \in Good
  BY <1>1, <1>3 DEF NextAt
<1>5. ASSUME NEW m \in 0..N - 1, m \in Good PROVE m + 1 \in Good
  <2>1. PICK i \in 1..N : i = m + 1 /\ i - 1 = m
    <3>1. m + 1 \in 1..N /\ (m + 1) - 1 = m BY <1>1
    <3> QED BY <3>1
  <2>2. tokens[i].at = NextAt(tokens, 1, m) BY <2>1 DEF Tiles
  <2>3. tokens[i].at \in Int /\ tokens[i].length \in Int
    BY <1>1, <2>1, TileAt, SequenceDomain
  <2>4. NextAt(tokens, 1, i) = tokens[i].at + tokens[i].length BY <2>1 DEF NextAt
  <2>5. Len(g[m]) = tokens[i].at - 1 BY <1>5, <2>2
  <2>6. Len(g[i]) = Len(g[m]) + tokens[i].length BY <1>3, <2>1
  <2>7. Len(g[i]) = NextAt(tokens, 1, i) - 1 BY <2>3, <2>4, <2>5, <2>6
  <2> QED BY <1>1, <2>1, <2>7
<1>6. Good = 0..N
  <2> HIDE DEF Good
  <2>1. Good \in SUBSET (0..N) BY DEF Good
  <2> QED BY <1>1, <1>4, <1>5, <2>1, UpToBound
<1>7. FlattenSeq(ss) \in Seq(S) /\ Len(FlattenSeq(ss)) = Len(formula)
  <2>1. N \in 0..N BY <1>1
  <2>2. Len(g[N]) = NextAt(tokens, 1, N) - 1 BY <1>6, <2>1
  <2>3. NextAt(tokens, 1, N) = Len(formula) + 1 BY DEF Tiles
  <2> QED BY <1>1, <1>3, <2>1, <2>2, <2>3
<1>8. ASSUME NEW k \in 1..N, NEW d \in 1..tokens[k].length
      PROVE  FlattenSeq(ss)[tokens[k].at + d - 1] = ss[k][d]
  <2>1. k - 1 \in 0..N BY <1>1
  <2>2. Len(g[k - 1]) = NextAt(tokens, 1, k - 1) - 1 BY <1>6, <2>1
  <2>3. tokens[k].at = NextAt(tokens, 1, k - 1) BY DEF Tiles
  <2>4. tokens[k].at \in Int BY TileAt, SequenceDomain
  <2>5. Len(g[k - 1]) + d = tokens[k].at + d - 1 BY <2>2, <2>3, <2>4
  <2>6. d \in 1..Len(ss[k]) OBVIOUS
  <2>7. g[N][Len(g[k - 1]) + d] = ss[k][d] BY <1>3, <2>6
  <2> QED BY <1>3, <2>5, <2>7
<1> QED BY <1>7, <1>8 DEF StandFor

(***************************************************************************)
(* A translation that takes no reference off the sheet keeps the kinds of  *)
(* all lexemes, and with them what is a reference.                         *)
(***************************************************************************)
LEMMA LexemeMoved ==
    ASSUME NEW l, IsLexeme(l), NEW row, NEW column
    PROVE  /\ [l EXCEPT !.row = row, !.column = column]
                = Lexeme(l.kind, l.name, row, column, l.rowFixed, l.columnFixed)
           /\ [l EXCEPT !.row = row]
                = Lexeme(l.kind, l.name, row, l.column, l.rowFixed, l.columnFixed)
           /\ [l EXCEPT !.column = column]
                = Lexeme(l.kind, l.name, l.row, column, l.rowFixed, l.columnFixed)
<1>1. \A k, n, a, b, c, d :
         [Lexeme(k, n, a, b, c, d) EXCEPT !.row = row] = Lexeme(k, n, row, b, c, d)
  BY DEF Lexeme
<1>2. \A k, n, a, b, c, d :
         [Lexeme(k, n, a, b, c, d) EXCEPT !.column = column] = Lexeme(k, n, a, column, c, d)
  BY DEF Lexeme
<1>3. PICK k, n, a, b, c, d :
          /\ l = Lexeme(k, n, a, b, c, d)
          /\ k = l.kind /\ n = l.name /\ a = l.row /\ b = l.column
          /\ c = l.rowFixed /\ d = l.columnFixed
  BY DEF IsLexeme
<1>4. [l EXCEPT !.row = row] = Lexeme(k, n, row, b, c, d)
  BY <1>3 DEF Lexeme
<1>5. [l EXCEPT !.column = column] = Lexeme(k, n, a, column, c, d)
  BY <1>3 DEF Lexeme
<1>6. [l EXCEPT !.row = row, !.column = column] = Lexeme(k, n, row, column, c, d)
  <2>1. [l EXCEPT !.row = row, !.column = column]
           = [[l EXCEPT !.row = row] EXCEPT !.column = column]
    OBVIOUS
  <2> DEFINE r == [l EXCEPT !.row = row]
  <2>2. r = Lexeme(k, n, row, b, c, d) BY <1>4
  <2> HIDE DEF r
  <2>3. [r EXCEPT !.column = column] = Lexeme(k, n, row, column, c, d)
    BY <2>2 DEF Lexeme
  <2> QED BY <2>1, <2>3 DEF r
<1> QED BY <1>3, <1>4, <1>5, <1>6

\* Where the end of a reference is after a translation: as far away, or where it was.
Stood(kind, end, new, delta) ==
    /\ new.kind = end.kind /\ new.name = end.name
    /\ kind # "column" =>
           new.row = IF end.rowFixed THEN end.row ELSE end.row + delta.rows
    /\ kind # "row" =>
           new.column = IF end.columnFixed THEN end.column ELSE end.column + delta.columns

\* An end that stays on the sheet.
EndStays(kind, end, delta) ==
    /\ kind # "column" /\ ~end.rowFixed => end.row + delta.rows \in 1..MaxRow
    /\ kind # "row" /\ ~end.columnFixed => end.column + delta.columns \in 1..MaxColumn

LEMMA EndTranslated ==
    ASSUME NEW l, IsLexeme(l), NEW delta, NEW kind, EndStays(kind, l, delta)
    PROVE  /\ l.kind = "address" /\ kind \in {"cell", "range"} =>
                  Stood(kind, l, TranslatedEnd(l, delta), delta)
           /\ l.kind = "row" /\ kind = "row" =>
                  /\ Stood(kind, l, WithRow(l, TranslatedRow(l, delta)), delta)
                  /\ WithRow(l, TranslatedRow(l, delta)) # Lost
           /\ l.kind = "column" /\ kind = "column" =>
                  /\ Stood(kind, l, WithColumn(l, TranslatedColumn(l, delta)), delta)
                  /\ WithColumn(l, TranslatedColumn(l, delta)) # Lost
<1> DEFINE row == TranslatedRow(l, delta)
           column == TranslatedColumn(l, delta)
<1>1. Lost.kind = "lost"
  BY DEF Lost, Symbol, Lexeme
<1>2. l.kind \in {"address", "row"} /\ kind # "column" =>
         row # 0 /\ row = IF l.rowFixed THEN l.row ELSE l.row + delta.rows
  BY GridAssumption DEF TranslatedRow, TranslatedAxis, EndStays, IsLexeme
<1>3. l.kind \in {"address", "column"} /\ kind # "row" =>
         column # 0 /\ column = IF l.columnFixed THEN l.column ELSE l.column + delta.columns
  BY GridAssumption DEF TranslatedColumn, TranslatedAxis, EndStays, IsLexeme
<1> HIDE DEF row, column
<1>4. CASE l.kind = "address" /\ kind \in {"cell", "range"}
  <2> DEFINE new == [l EXCEPT !.row = row, !.column = column]
  <2>1. TranslatedEnd(l, delta) = new BY <1>2, <1>3, <1>4 DEF TranslatedEnd, row, column
  <2>2. new.kind = l.kind /\ new.name = l.name /\ new.row = row /\ new.column = column
    BY LexemeMoved DEF Lexeme
  <2> HIDE DEF new
  <2> QED BY <1>2, <1>3, <1>4, <2>1, <2>2 DEF Stood
<1>5. CASE l.kind = "row" /\ kind = "row"
  <2> DEFINE new == [l EXCEPT !.row = row]
  <2>1. WithRow(l, row) = new BY <1>2, <1>5 DEF WithRow
  <2>2. new.kind = l.kind /\ new.name = l.name /\ new.row = row
    BY LexemeMoved DEF Lexeme
  <2> HIDE DEF new
  <2> QED BY <1>1, <1>2, <1>5, <2>1, <2>2 DEF Stood, row
<1>6. CASE l.kind = "column" /\ kind = "column"
  <2> DEFINE new == [l EXCEPT !.column = column]
  <2>1. WithColumn(l, column) = new BY <1>3, <1>6 DEF WithColumn
  <2>2. new.kind = l.kind /\ new.name = l.name /\ new.column = column
    BY LexemeMoved DEF Lexeme
  <2> HIDE DEF new
  <2> QED BY <1>1, <1>3, <1>6, <2>1, <2>2 DEF Stood, column
<1> QED BY <1>4, <1>5, <1>6

\* The lexemes a reference is made of.
EndsAt(formula, i, t) ==
    /\ t.first = formula[i] /\ t.last = formula[i + t.length - 1]
    /\ t.sheet = SheetQualifier(formula, i)
    /\ i + t.length - 1 \in 1..Len(formula)
    /\ t.length = 3 => KindAt(formula, i + 1) = "colon"
    /\ \/ t.kind = "cell" /\ t.length = 1 /\ t.first.kind = "address"
       \/ /\ t.kind = "range" /\ t.length = 3
          /\ t.first.kind = "address" /\ t.last.kind = "address"
       \/ /\ t.kind \in {"row", "column"} /\ t.length = 3
          /\ t.first.kind = t.kind /\ t.last.kind = t.kind

LEMMA TokenEnds ==
    ASSUME NEW formula, IsSequence(formula), NEW i \in 1..Len(formula),
           IsReference(TokenAt(formula, i))
    PROVE  EndsAt(formula, i, TokenAt(formula, i))
<1> DEFINE t == TokenAt(formula, i)
<1> SUFFICES EndsAt(formula, i, t)
  OBVIOUS
<1>1. t.length \in {1, 3} /\ i + t.length \in i + 1..Len(formula) + 1
  BY TokenFits
<1>2. Len(formula) \in Nat /\ DOMAIN formula = 1..Len(formula) /\ i \in Int
  BY SequenceDomain
<1>3. i + t.length - 1 \in 1..Len(formula)
  <2> HIDE DEF t
  <2> QED BY <1>1, <1>2
<1>4. \A j \in 1..Len(formula) : KindAt(formula, j) = formula[j].kind
  BY <1>2 DEF KindAt
<1>5. t.first = formula[i] /\ t.last = formula[i + t.length - 1]
      /\ t.sheet = SheetQualifier(formula, i)
  BY <1>2 DEF TokenAt, Token
<1>6. CASE IsAxisRange(formula, i)
  <2>1. t.kind = formula[i].kind /\ t.length = 3 BY <1>6 DEF TokenAt, Token
  <2>2. /\ KindAt(formula, i) \in {"row", "column"} /\ KindAt(formula, i + 1) = "colon"
        /\ KindAt(formula, i + 2) = KindAt(formula, i)
    BY <1>6 DEF IsAxisRange
  <2>3. i + 2 \in 1..Len(formula) /\ i + t.length - 1 = i + 2 BY <1>2, <1>3, <2>1
  <2> HIDE DEF t
  <2> QED BY <1>3, <1>4, <1>5, <2>1, <2>2, <2>3 DEF EndsAt
<1>7. CASE ~IsAxisRange(formula, i) /\ IsCellRange(formula, i)
  <2>1. t.kind = "range" /\ t.length = 3 BY <1>7 DEF TokenAt, Token
  <2>2. /\ KindAt(formula, i) = "address" /\ KindAt(formula, i + 1) = "colon"
        /\ KindAt(formula, i + 2) = "address"
    BY <1>7 DEF IsCellRange, IsCell
  <2>3. i + 2 \in 1..Len(formula) /\ i + t.length - 1 = i + 2 BY <1>2, <1>3, <2>1
  <2> HIDE DEF t
  <2> QED BY <1>3, <1>4, <1>5, <2>1, <2>2, <2>3 DEF EndsAt
<1>8. CASE ~IsAxisRange(formula, i) /\ ~IsCellRange(formula, i) /\ IsCell(formula, i)
  <2>1. t.kind = "cell" /\ t.length = 1 BY <1>8 DEF TokenAt, Token
  <2>2. KindAt(formula, i) = "address" BY <1>8 DEF IsCell
  <2> HIDE DEF t
  <2> QED BY <1>3, <1>4, <1>5, <2>1, <2>2 DEF EndsAt
<1>9. CASE ~IsAxisRange(formula, i) /\ ~IsCellRange(formula, i) /\ ~IsCell(formula, i)
  <2>1. t.kind = "text" BY <1>9 DEF TokenAt, Token
  <2> QED BY <2>1 DEF IsReference
<1> QED BY <1>6, <1>7, <1>8, <1>9

\* What a translation writes for a reference, and that it stands where it should.
TranslatedText(r, delta) ==
    CASE r.kind = "cell"  -> <<TranslatedEnd(r.first, delta)>>
      [] r.kind = "range" -> TranslatedRange(r, delta)
      [] OTHER            -> TranslatedAxisRange(r, delta)

TextStood(t, text, delta) ==
    /\ IsSequence(text) /\ Len(text) = t.length
    /\ Stood(t.kind, t.first, text[1], delta)
    /\ Stood(t.kind, t.last, text[t.length], delta)
    /\ t.length = 3 => text[2].kind = "colon"

LEMMA TextTranslated ==
    ASSUME NEW formula, IsSequence(formula), IsFormula(formula), NEW i \in 1..Len(formula),
           IsReference(TokenAt(formula, i)), NEW delta, ~LedOff(TokenAt(formula, i), delta)
    PROVE  TextStood(TokenAt(formula, i), TranslatedText(TokenAt(formula, i), delta), delta)
<1> DEFINE t == TokenAt(formula, i)
           text == TranslatedText(t, delta)
<1> SUFFICES TextStood(t, text, delta)
  OBVIOUS
<1>1. /\ t.first = formula[i] /\ t.last = formula[i + t.length - 1]
      /\ i + t.length - 1 \in 1..Len(formula)
      /\ \/ t.kind = "cell" /\ t.length = 1 /\ t.first.kind = "address"
         \/ /\ t.kind = "range" /\ t.length = 3
            /\ t.first.kind = "address" /\ t.last.kind = "address"
         \/ /\ t.kind \in {"row", "column"} /\ t.length = 3
            /\ t.first.kind = t.kind /\ t.last.kind = t.kind
  BY TokenEnds DEF EndsAt
<1>2. IsLexeme(t.first) /\ IsLexeme(t.last)
  BY <1>1, SequenceDomain DEF IsFormula
<1>3. EndStays(t.kind, t.first, delta) /\ EndStays(t.kind, t.last, delta)
  BY DEF LedOff, EndStays
<1>4. \A x, y, z : /\ IsSequence(<<x>>) /\ Len(<<x>>) = 1 /\ <<x>>[1] = x
                    /\ IsSequence(<<x, y, z>>) /\ Len(<<x, y, z>>) = 3
                    /\ <<x, y, z>>[1] = x /\ <<x, y, z>>[2] = y /\ <<x, y, z>>[3] = z
  BY ShortSequences
<1>5. Symbol("colon").kind = "colon"
  BY DEF Symbol, Lexeme
<1> DEFINE first == t.first
           last == t.last
           kind == t.kind
<1>6. CASE kind = "cell"
  <2>1. text = <<TranslatedEnd(first, delta)>> BY <1>6 DEF TranslatedText
  <2>2. Stood(kind, first, TranslatedEnd(first, delta), delta)
    <3> HIDE DEF t
    <3> QED BY <1>1, <1>2, <1>3, <1>6, EndTranslated
  <2>3. first = last /\ t.length = 1
    <3> HIDE DEF t
    <3>1. t.length = 1 BY <1>1, <1>6
    <3>2. i + t.length - 1 = i BY <3>1, SequenceDomain
    <3> QED BY <1>1, <3>1, <3>2
  <2> HIDE DEF t, text
  <2> QED BY <1>4, <2>1, <2>2, <2>3 DEF TextStood
<1>7. CASE kind = "range"
  <2>1. text = <<TranslatedEnd(first, delta), Symbol("colon"), TranslatedEnd(last, delta)>>
    BY <1>7 DEF TranslatedText, TranslatedRange, RangeText
  <2>2. /\ Stood(kind, first, TranslatedEnd(first, delta), delta)
        /\ Stood(kind, last, TranslatedEnd(last, delta), delta)
        /\ t.length = 3
    <3> HIDE DEF t
    <3> QED BY <1>1, <1>2, <1>3, <1>7, EndTranslated
  <2> HIDE DEF t, text
  <2> HIDE DEF first, last, kind
  <2>3. /\ IsSequence(text) /\ Len(text) = 3
        /\ text[1] = TranslatedEnd(first, delta) /\ text[2].kind = "colon"
        /\ text[3] = TranslatedEnd(last, delta)
    BY <1>4, <1>5, <2>1
  <2> QED BY <2>2, <2>3 DEF TextStood, first, last, kind
<1>8. CASE kind = "row"
  <2> DEFINE a == WithRow(first, TranslatedRow(first, delta))
             b == WithRow(last, TranslatedRow(last, delta))
  <2>1. /\ Stood(kind, first, a, delta) /\ a # Lost
        /\ Stood(kind, last, b, delta) /\ b # Lost
        /\ t.length = 3
    <3> HIDE DEF t
    <3> QED BY <1>1, <1>2, <1>3, <1>8, EndTranslated
  <2>2. text = AxisRangeText(a, b)
    BY <1>8 DEF TranslatedText, TranslatedAxisRange
  <2> HIDE DEF a, b
  <2>3. text = <<a, Symbol("colon"), b>> BY <2>1, <2>2 DEF AxisRangeText, RangeText
  <2> HIDE DEF t, text
  <2> HIDE DEF first, last, kind
  <2>4. /\ IsSequence(text) /\ Len(text) = 3
        /\ text[1] = a /\ text[2].kind = "colon" /\ text[3] = b
    BY <1>4, <1>5, <2>3
  <2> QED BY <2>1, <2>4 DEF TextStood, first, last, kind
<1>9. CASE kind = "column"
  <2> DEFINE a == WithColumn(first, TranslatedColumn(first, delta))
             b == WithColumn(last, TranslatedColumn(last, delta))
  <2>1. /\ Stood(kind, first, a, delta) /\ a # Lost
        /\ Stood(kind, last, b, delta) /\ b # Lost
        /\ t.length = 3
    <3> HIDE DEF t
    <3> QED BY <1>1, <1>2, <1>3, <1>9, EndTranslated
  <2>2. text = AxisRangeText(a, b)
    BY <1>9 DEF TranslatedText, TranslatedAxisRange
  <2> HIDE DEF a, b
  <2>3. text = <<a, Symbol("colon"), b>> BY <2>1, <2>2 DEF AxisRangeText, RangeText
  <2> HIDE DEF t, text
  <2> HIDE DEF first, last, kind
  <2>4. /\ IsSequence(text) /\ Len(text) = 3
        /\ text[1] = a /\ text[2].kind = "colon" /\ text[3] = b
    BY <1>4, <1>5, <2>3
  <2> QED BY <2>1, <2>4 DEF TextStood, first, last, kind
<1> HIDE DEF t, text
<1> QED BY <1>1, <1>6, <1>7, <1>8, <1>9 DEF t, text

\* The text of a token that is no reference.
LEMMA PlainText ==
    ASSUME NEW formula, IsSequence(formula), NEW i \in 1..Len(formula),
           ~IsReference(TokenAt(formula, i))
    PROVE  /\ TokenAt(formula, i).length = 1 /\ TokenAt(formula, i).kind = "text"
           /\ TokenAt(formula, i).first = formula[i]
           /\ TokenAt(formula, i).sheet = SheetQualifier(formula, i)
           /\ IsSequence(TokenText(formula, TokenAt(formula, i)))
           /\ Len(TokenText(formula, TokenAt(formula, i))) = 1
           /\ TokenText(formula, TokenAt(formula, i))[1] = formula[i]
<1> DEFINE t == TokenAt(formula, i)
<1>1. Len(formula) \in Nat /\ DOMAIN formula = 1..Len(formula) /\ i \in Int
  BY SequenceDomain
<1>2. t.kind = "text" /\ t.length = 1
  <2>1. KindAt(formula, i) = formula[i].kind BY <1>1 DEF KindAt
  <2> QED BY <2>1 DEF TokenAt, Token, IsReference, IsAxisRange
<1>3. t.first = formula[i] /\ t.sheet = SheetQualifier(formula, i) /\ t.at = i
  BY DEF TokenAt, Token
<1>4. TokenText(formula, t) = SubSeq(formula, i, i)
  <2> HIDE DEF t
  <2>1. i + 1 - 1 = i BY <1>1
  <2> QED BY <1>2, <1>3, <2>1 DEF TokenText
<1>5. /\ IsSequence(SubSeq(formula, i, i)) /\ Len(SubSeq(formula, i, i)) = 1
      /\ SubSeq(formula, i, i)[1] = formula[i]
  <2>1. formula \in Seq({formula[k] : k \in 1..Len(formula)}) BY SequenceTyped
  <2>2. /\ Len(SubSeq(formula, i, i)) = 1 /\ SubSeq(formula, i, i)[1] = formula[i]
    BY <1>1, <2>1
  <2>3. IsSequence(SubSeq(formula, i, i)) BY <1>1, SubSequence
  <2> QED BY <2>2, <2>3
<1> HIDE DEF t
<1> QED BY <1>2, <1>3, <1>4, <1>5 DEF t

\* Formulas of the same length with the same kinds, and the same names before a
\* bang, have the same references.
Alike(old, new) ==
    /\ IsSequence(new) /\ Len(new) = Len(old)
    /\ \A j \in 1..Len(old) :
           /\ new[j].kind = old[j].kind
           /\ KindAt(old, j + 1) = "bang" => new[j].name = old[j].name

LEMMA AlikeTokens ==
    ASSUME NEW old, IsSequence(old), NEW new, Alike(old, new), NEW i \in 1..Len(old)
    PROVE  LET was == TokenAt(old, i)
               now == TokenAt(new, i)
           IN  /\ now.at = i /\ now.kind = was.kind /\ now.length = was.length
               /\ now.sheet = was.sheet
               /\ now.first = new[i] /\ now.last = new[i + was.length - 1]
<1>1. /\ Len(old) \in Nat /\ DOMAIN old = 1..Len(old) /\ DOMAIN new = 1..Len(old)
      /\ i \in Int
  BY SequenceDomain DEF Alike
<1>2. \A j \in Int : KindAt(new, j) = KindAt(old, j)
  BY <1>1 DEF KindAt, Alike
<1>3. \A j \in Int : /\ IsCell(new, j) = IsCell(old, j)
                      /\ IsAxisRange(new, j) = IsAxisRange(old, j)
  BY <1>2 DEF IsCell, IsAxisRange, RightBoundary
<1>4. \A j \in Int : IsCellRange(new, j) = IsCellRange(old, j)
  BY <1>2, <1>3 DEF IsCellRange
<1>5. SheetQualifier(new, i) = SheetQualifier(old, i)
  <2>1. CASE i > 2 /\ KindAt(old, i - 1) = "bang"
    <3>1. i - 2 \in 1..Len(old) /\ (i - 2) + 1 = i - 1 BY <1>1, <2>1
    <3>2. new[i - 2].name = old[i - 2].name BY <2>1, <3>1 DEF Alike
    <3>3. KindAt(new, i - 1) = KindAt(old, i - 1) BY <1>1, <1>2
    <3> QED BY <2>1, <3>2, <3>3 DEF SheetQualifier
  <2>2. CASE ~(i > 2 /\ KindAt(old, i - 1) = "bang")
    <3>1. KindAt(new, i - 1) = KindAt(old, i - 1) BY <1>1, <1>2
    <3> QED BY <2>2, <3>1 DEF SheetQualifier
  <2> QED BY <2>1, <2>2
<1>6. new[i].kind = old[i].kind
  BY DEF Alike
<1> QED BY <1>1, <1>3, <1>4, <1>5, <1>6 DEF TokenAt, Token

\* The tokens of such a formula stand where the others stand.
LEMMA AlikeTile ==
    ASSUME NEW old, IsSequence(old), NEW new, Alike(old, new)
    PROVE  Tokens(new) = [k \in 1..Len(Tokens(old)) |-> TokenAt(new, Tokens(old)[k].at)]
<1> DEFINE was == Tokens(old)
           N == Len(was)
           now == [k \in 1..N |-> TokenAt(new, was[k].at)]
<1>1. Tiles(old, 1, was)
  BY TokensTile
<1>2. N \in Nat /\ Len(new) = Len(old) /\ IsSequence(new)
  BY <1>1 DEF Tiles, Alike
<1> HIDE DEF was
<1>3. ASSUME NEW k \in 1..N
      PROVE  /\ now[k] \in TokensOf(new)
             /\ now[k].at = was[k].at /\ now[k].length = was[k].length
  <2>1. was[k].at \in 1..Len(old) /\ was[k] = TokenAt(old, was[k].at)
    BY <1>1, TileAt
  <2>2. TokenAt(new, was[k].at).at = was[k].at
        /\ TokenAt(new, was[k].at).length = TokenAt(old, was[k].at).length
    BY <2>1, AlikeTokens
  <2>3. now[k] = TokenAt(new, was[k].at) OBVIOUS
  <2>4. now[k] \in TokensOf(new) BY <1>2, <2>1, <2>3 DEF TokensOf
  <2> HIDE DEF now
  <2>5. now[k].at = was[k].at BY <2>2, <2>3
  <2>6. now[k].length = was[k].length BY <2>1, <2>2, <2>3, Zenon
  <2> QED BY <2>4, <2>5, <2>6
<1>4. now \in Seq(TokensOf(new)) /\ Len(now) = N
  <2>1. \A k \in 1..N : now[k] \in TokensOf(new) BY <1>3
  <2>2. \A k \in 1..N : TokenAt(new, was[k].at) \in TokensOf(new) BY <2>1
  <2> QED BY <1>2, <2>2
<1> HIDE DEF now
<1>5. \A k \in 0..N : NextAt(now, 1, k) = NextAt(was, 1, k)
  BY <1>2, <1>3 DEF NextAt
<1>6. ASSUME NEW k \in 1..Len(now) PROVE now[k].at = NextAt(now, 1, k - 1)
  <2>1. k - 1 \in 0..N /\ k \in 1..N BY <1>2, <1>4
  <2>2. was[k].at = NextAt(was, 1, k - 1) BY <1>1, <2>1 DEF Tiles
  <2> QED BY <1>3, <1>5, <2>1, <2>2
<1>7. NextAt(now, 1, Len(now)) = Len(new) + 1
  <2>1. N \in 0..N BY <1>2
  <2>2. NextAt(was, 1, N) = Len(old) + 1 BY <1>1 DEF Tiles
  <2> QED BY <1>2, <1>4, <1>5, <2>1, <2>2
<1>8. Tiles(new, 1, now)
  BY <1>4, <1>6, <1>7 DEF Tiles
<1>9. Tiles(new, 1, Tokens(new))
  BY <1>2, TokensTile
<1>10. Tokens(new) = now
  BY <1>2, <1>8, <1>9, TilesUnique
<1> QED BY <1>10 DEF now, was

\* A reference that is led off the sheet leaves #REF! behind.
LEMMA TextLost ==
    ASSUME NEW formula, IsSequence(formula), NEW i \in 1..Len(formula),
           IsReference(TokenAt(formula, i)), NEW delta, LedOff(TokenAt(formula, i), delta)
    PROVE  \E d \in 1..Len(TranslatedText(TokenAt(formula, i), delta)) :
               TranslatedText(TokenAt(formula, i), delta)[d] = Lost
<1> DEFINE t == TokenAt(formula, i)
           text == TranslatedText(t, delta)
<1>1. t.kind \in {"cell", "range", "row", "column"} /\ (t.kind = "cell" => t.last = t.first)
  <2>1. EndsAt(formula, i, t) BY TokenEnds
  <2> HIDE DEF t
  <2>2. t.length = 1 => i + t.length - 1 = i BY SequenceDomain
  <2> QED BY <2>1, <2>2 DEF EndsAt
<1>2. PICK end \in {t.first, t.last} :
          \/ /\ t.kind # "column" /\ ~end.rowFixed
             /\ end.row + delta.rows \notin 1..MaxRow
          \/ /\ t.kind # "row" /\ ~end.columnFixed
             /\ end.column + delta.columns \notin 1..MaxColumn
  BY DEF LedOff
<1>3. \/ t.kind # "column" /\ TranslatedRow(end, delta) = 0
      \/ t.kind # "row" /\ TranslatedColumn(end, delta) = 0
  BY <1>2 DEF TranslatedRow, TranslatedColumn, TranslatedAxis
<1>4. \A x, y, z : /\ Len(<<x>>) = 1 /\ <<x>>[1] = x
                    /\ Len(<<x, y, z>>) = 3 /\ <<x, y, z>>[1] = x /\ <<x, y, z>>[3] = z
  OBVIOUS
<1> HIDE DEF t
<1>5. CASE t.kind \in {"cell", "range"}
  <2>1. TranslatedEnd(end, delta) = Lost BY <1>3, <1>5 DEF TranslatedEnd
  <2>2. CASE t.kind = "cell"
    <3>1. text = <<Lost>>
      <4>1. end = t.first BY <1>1, <1>2, <2>2
      <4> QED BY <2>1, <2>2, <4>1 DEF TranslatedText
    <3> HIDE DEF text
    <3>2. \E d \in 1..Len(text) : text[d] = Lost BY <1>4, <3>1
    <3> QED BY <3>2 DEF text, t
  <2>3. CASE t.kind = "range"
    <3>1. text = <<TranslatedEnd(t.first, delta), Symbol("colon"), TranslatedEnd(t.last, delta)>>
      BY <2>3 DEF TranslatedText, TranslatedRange, RangeText
    <3> HIDE DEF text
    <3>2. /\ Len(text) = 3 /\ text[1] = TranslatedEnd(t.first, delta)
          /\ text[3] = TranslatedEnd(t.last, delta)
      BY <1>4, <3>1
    <3>3. \E d \in 1..Len(text) : text[d] = Lost
      <4>1. CASE end = t.first BY <2>1, <3>2, <4>1
      <4>2. CASE end = t.last BY <2>1, <3>2, <4>2
      <4> QED BY <1>2, <4>1, <4>2
    <3> QED BY <3>3 DEF text, t
  <2> QED BY <1>5, <2>2, <2>3
<1>6. CASE t.kind \in {"row", "column"}
  <2>1. text = <<Lost>>
    <3>1. CASE t.kind = "row"
      <4>1. WithRow(end, TranslatedRow(end, delta)) = Lost BY <1>3, <3>1 DEF WithRow
      <4>2. text = AxisRangeText(WithRow(t.first, TranslatedRow(t.first, delta)),
                                 WithRow(t.last, TranslatedRow(t.last, delta)))
        BY <3>1 DEF TranslatedText, TranslatedAxisRange
      <4>3. Lost \in {WithRow(t.first, TranslatedRow(t.first, delta)),
                      WithRow(t.last, TranslatedRow(t.last, delta))}
        BY <1>2, <4>1
      <4> HIDE DEF text
      <4> QED BY <4>2, <4>3 DEF AxisRangeText
    <3>2. CASE t.kind = "column"
      <4>1. WithColumn(end, TranslatedColumn(end, delta)) = Lost BY <1>3, <3>2 DEF WithColumn
      <4>2. text = AxisRangeText(WithColumn(t.first, TranslatedColumn(t.first, delta)),
                                 WithColumn(t.last, TranslatedColumn(t.last, delta)))
        BY <3>2 DEF TranslatedText, TranslatedAxisRange
      <4>3. Lost \in {WithColumn(t.first, TranslatedColumn(t.first, delta)),
                      WithColumn(t.last, TranslatedColumn(t.last, delta))}
        BY <1>2, <4>1
      <4> HIDE DEF text
      <4> QED BY <4>2, <4>3 DEF AxisRangeText
    <3> QED BY <1>6, <3>1, <3>2
  <2> HIDE DEF text
  <2>2. \E d \in 1..Len(text) : text[d] = Lost BY <1>4, <2>1
  <2> QED BY <2>2 DEF text, t
<1> QED BY <1>1, <1>5, <1>6

LEMMA PiecesTyped ==
    ASSUME NEW N \in Nat, NEW ss, ss = [i \in 1..N |-> ss[i]],
           \A i \in 1..N : IsSequence(ss[i])
    PROVE  \E U : ss \in Seq(Seq(U)) /\ Len(ss) = N
<1> DEFINE U == UNION {{ss[i][j] : j \in 1..Len(ss[i])} : i \in 1..N}
<1>1. ASSUME NEW i \in 1..N PROVE ss[i] \in Seq(U)
  <2>1. \A j \in 1..Len(ss[i]) : ss[i][j] \in U OBVIOUS
  <2> QED BY <2>1, SequenceIn
<1> HIDE DEF U
<1>2. [i \in 1..N |-> ss[i]] \in Seq(Seq(U)) /\ Len([i \in 1..N |-> ss[i]]) = N
  BY <1>1
<1>3. ss \in Seq(Seq(U)) /\ Len(ss) = N
  BY <1>2, Zenon
<1> QED BY <1>3

\* What a translation makes of the k-th token.
TranslatedPiece(formula, delta, t) ==
    IF IsReference(t) THEN TranslatedText(t, delta) ELSE TokenText(formula, t)

TranslatedPieces(formula, delta) ==
    [k \in 1..Len(Tokens(formula)) |-> TranslatedPiece(formula, delta, Tokens(formula)[k])]

LEMMA PiecesAre ==
    ASSUME NEW formula, IsSequence(formula), NEW delta
    PROVE  /\ \E U : TranslatedPieces(formula, delta) \in Seq(Seq(U))
           /\ Len(TranslatedPieces(formula, delta)) = Len(Tokens(formula))
           /\ ~(delta.rows = 0 /\ delta.columns = 0) =>
                  TranslatedFormula(formula, delta) = FlattenSeq(TranslatedPieces(formula, delta))
<1> DEFINE tokens == Tokens(formula)
           N == Len(tokens)
           ss == TranslatedPieces(formula, delta)
<1>1. tokens \in Seq(TokensOf(formula))
  BY TokensType
<1>2. N \in Nat /\ DOMAIN tokens = 1..N /\ \A k \in 1..N : tokens[k] \in TokensOf(formula)
  BY <1>1
<1>3. ss = [k \in 1..N |-> TranslatedPiece(formula, delta, tokens[k])]
  BY DEF TranslatedPieces
<1>4. ASSUME NEW k \in 1..N PROVE IsSequence(ss[k])
  <2>1. ss[k] = TranslatedPiece(formula, delta, tokens[k]) BY <1>3
  <2>2. IsSequence(TokenText(formula, tokens[k])) BY <1>2, TokenTextType
  <2>3. IsSequence(TranslatedText(tokens[k], delta))
    <3> HIDE DEF tokens
    <3> QED BY ShortSequences
            DEF TranslatedText, TranslatedRange, TranslatedAxisRange, RangeText, AxisRangeText
  <2> HIDE DEF ss, tokens
  <2> QED BY <2>1, <2>2, <2>3 DEF TranslatedPiece
<1>5. \E U : ss \in Seq(Seq(U)) /\ Len(ss) = N
  <2>1. ss = [k \in 1..N |-> ss[k]] BY <1>3
  <2> HIDE DEF ss, tokens
  <2> QED BY <1>2, <1>4, <2>1, PiecesTyped
<1>6. ~(delta.rows = 0 /\ delta.columns = 0) => TranslatedFormula(formula, delta) = FlattenSeq(ss)
  BY <1>2 DEF TranslatedFormula, RewrittenTokens, TranslatedText, TranslatedPiece, TranslatedPieces
<1> QED BY <1>5, <1>6

LEMMA LostIsKept ==
    ASSUME NEW formula, IsSequence(formula), NEW delta, ~(delta.rows = 0 /\ delta.columns = 0),
           NEW k \in 1..Len(Tokens(formula)), IsReference(Tokens(formula)[k]),
           LedOff(Tokens(formula)[k], delta)
    PROVE  Lost \in ToSet(TranslatedFormula(formula, delta))
<1> DEFINE tokens == Tokens(formula)
           N == Len(tokens)
           ss == TranslatedPieces(formula, delta)
           new == TranslatedFormula(formula, delta)
<1>1. new = FlattenSeq(ss) /\ Len(ss) = N
  BY PiecesAre
<1>2. PICK U : ss \in Seq(Seq(U))
  BY PiecesAre
<1>3. Tiles(formula, 1, tokens)
  BY TokensTile
<1>4. PICK d \in 1..Len(ss[k]) : ss[k][d] = Lost
  <2>1. tokens[k].at \in 1..Len(formula) /\ tokens[k] = TokenAt(formula, tokens[k].at)
    BY <1>3, TileAt
  <2>2. PICK i \in 1..Len(formula) : tokens[k] = TokenAt(formula, i)
    BY <2>1
  <2>3. \E d \in 1..Len(TranslatedText(tokens[k], delta)) :
           TranslatedText(tokens[k], delta)[d] = Lost
    BY <2>2, TextLost
  <2>4. ss[k] = TranslatedText(tokens[k], delta)
    BY DEF TranslatedPieces, TranslatedPiece
  <2> HIDE DEF ss, tokens
  <2> QED BY <2>3, <2>4
<1> HIDE DEF ss, tokens, new
<1>5. PICK g : Joining(g, ss, U)
  BY <1>2, JoiningExists
<1>6. LaidOut(g, ss) /\ FlattenSeq(ss) = g[Len(ss)]
  BY <1>2, <1>5, JoiningLaid, JoiningFlattens
<1>7. k \in 1..Len(ss)
  BY <1>1 DEF tokens
<1>8. Len(g[k - 1]) + d \in 1..Len(new) /\ new[Len(g[k - 1]) + d] = Lost
  BY <1>1, <1>4, <1>6, <1>7 DEF LaidOut
<1>9. DOMAIN new = 1..Len(new)
  <2>1. new \in Seq(U) BY <1>1, <1>2, FlattenType
  <2> QED BY <2>1
<1> QED BY <1>8, <1>9 DEF ToSet, new

\* No reference of the formula is led off the sheet.
OnSheet(formula, delta) ==
    \A k \in 1..Len(Tokens(formula)) :
        IsReference(Tokens(formula)[k]) => ~LedOff(Tokens(formula)[k], delta)

LEMMA TranslatedAlike ==
    ASSUME NEW formula, IsSequence(formula), IsFormula(formula), NEW delta,
           ~(delta.rows = 0 /\ delta.columns = 0), OnSheet(formula, delta)
    PROVE  LET new == TranslatedFormula(formula, delta)
           IN  /\ Alike(formula, new)
               /\ \A k \in 1..Len(Tokens(formula)) :
                      LET t == Tokens(formula)[k]
                      IN  IF IsReference(t)
                          THEN /\ Stood(t.kind, t.first, new[t.at], delta)
                               /\ Stood(t.kind, t.last, new[t.at + t.length - 1], delta)
                          ELSE new[t.at] = formula[t.at]
<1> DEFINE tokens == Tokens(formula)
           N == Len(tokens)
           ss == TranslatedPieces(formula, delta)
           new == TranslatedFormula(formula, delta)
           Fits(k) == LET t == tokens[k]
                      IN  IF IsReference(t)
                          THEN /\ Stood(t.kind, t.first, new[t.at], delta)
                               /\ Stood(t.kind, t.last, new[t.at + t.length - 1], delta)
                               /\ t.length = 3 => new[t.at + 1].kind = "colon"
                          ELSE new[t.at] = formula[t.at]
<1>1. new = FlattenSeq(ss) /\ Len(ss) = N
  BY PiecesAre
<1>2. PICK U : ss \in Seq(Seq(U))
  BY PiecesAre
<1>3. Tiles(formula, 1, tokens)
  BY TokensTile
<1>4. Len(formula) \in Nat /\ DOMAIN formula = 1..Len(formula)
  BY SequenceDomain
<1>5. ASSUME NEW k \in 1..N
      PROVE  /\ Len(ss[k]) = tokens[k].length
             /\ IF IsReference(tokens[k]) THEN TextStood(tokens[k], ss[k], delta)
                ELSE tokens[k].length = 1 /\ ss[k][1] = formula[tokens[k].at]
  <2>1. PICK i \in 1..Len(formula) : tokens[k] = TokenAt(formula, i) /\ i = tokens[k].at
    BY <1>3, TileAt
  <2>2. ss[k] = TranslatedPiece(formula, delta, tokens[k])
    BY DEF TranslatedPieces
  <2> HIDE DEF ss
  <2>3. CASE IsReference(tokens[k])
    <3>1. ~LedOff(tokens[k], delta) BY <2>3 DEF OnSheet
    <3> HIDE DEF tokens
    <3>2. TextStood(TokenAt(formula, i), TranslatedText(TokenAt(formula, i), delta), delta)
      BY <2>1, <2>3, <3>1, TextTranslated
    <3>3. ss[k] = TranslatedText(tokens[k], delta) BY <2>2, <2>3 DEF TranslatedPiece
    <3>4. TextStood(tokens[k], ss[k], delta) BY <2>1, <3>2, <3>3, Zenon
    <3> QED BY <2>3, <3>4 DEF TextStood
  <2>4. CASE ~IsReference(tokens[k])
    <3> HIDE DEF tokens
    <3>1. ss[k] = TokenText(formula, tokens[k]) BY <2>2, <2>4 DEF TranslatedPiece
    <3>2. /\ TokenAt(formula, i).length = 1
          /\ Len(TokenText(formula, TokenAt(formula, i))) = 1
          /\ TokenText(formula, TokenAt(formula, i))[1] = formula[i]
      BY <2>1, <2>4, PlainText
    <3> QED BY <2>1, <2>4, <3>1, <3>2, Zenon
  <2> QED BY <2>3, <2>4
<1>6. \A k \in 1..N : tokens[k].at \in 1..Len(formula) /\ tokens[k].length \in {1, 3}
  BY <1>3, TileAt
<1> HIDE DEF ss, tokens, new
<1>7. /\ new \in Seq(U) /\ Len(new) = Len(formula)
      /\ \A k \in 1..N : \A d \in 1..tokens[k].length : new[tokens[k].at + d - 1] = ss[k][d]
  <2>1. \A k \in 1..Len(ss) : Len(ss[k]) = tokens[k].length BY <1>1, <1>5
  <2>2. /\ FlattenSeq(ss) \in Seq(U) /\ Len(FlattenSeq(ss)) = Len(formula)
        /\ StandFor(tokens, ss, FlattenSeq(ss))
    BY <1>1, <1>2, <1>3, <2>1, PiecesLaid
  <2> QED BY <1>1, <2>2 DEF StandFor
<1>8. ASSUME NEW k \in 1..N PROVE Fits(k)
  <2> DEFINE a == tokens[k].at
             n == tokens[k].length
  <2>1. a \in Int /\ n \in {1, 3} BY <1>4, <1>6
  <2>2. 1 \in 1..n /\ n \in 1..n /\ a + 1 - 1 = a /\ a + 2 - 1 = a + 1 /\ (n = 3 => 2 \in 1..n)
    <3> HIDE DEF a, n
    <3> QED BY <2>1
  <2>3. new[a] = ss[k][1] /\ new[a + n - 1] = ss[k][n] /\ (n = 3 => new[a + 1] = ss[k][2])
    <3>1. \A d \in 1..n : new[a + d - 1] = ss[k][d] BY <1>7
    <3> HIDE DEF a, n
    <3> QED BY <2>2, <3>1
  <2> QED BY <1>5, <2>3 DEF TextStood
<1>9. ASSUME NEW j \in 1..Len(formula)
      PROVE  /\ new[j].kind = formula[j].kind
             /\ KindAt(formula, j + 1) = "bang" => new[j].name = formula[j].name
  <2>1. PICK k \in 1..N : j \in tokens[k].at..tokens[k].at + tokens[k].length - 1
    BY <1>3, TilesCover
  <2> DEFINE t == tokens[k]
  <2>2. t.at \in 1..Len(formula) /\ t.at \in Int /\ t.length \in {1, 3} BY <1>4, <1>6
  <2>3. Fits(k) BY <1>8
  <2>4. CASE ~IsReference(t)
    <3>1. t.length = 1 BY <1>5, <2>4
    <3>2. j = t.at BY <2>1, <2>2, <3>1
    <3> QED BY <2>3, <2>4, <3>2
  <2>5. CASE IsReference(t)
    <3>1. t = TokenAt(formula, t.at) BY <1>3, TileAt
    <3>2. EndsAt(formula, t.at, t)
      <4> DEFINE i == t.at
      <4>1. i \in 1..Len(formula) /\ t = TokenAt(formula, i) BY <2>2, <3>1
      <4> HIDE DEF i, t
      <4>2. IsReference(TokenAt(formula, i)) BY <2>5, <4>1
      <4>3. EndsAt(formula, i, TokenAt(formula, i)) BY <4>1, <4>2, TokenEnds
      <4>4. EndsAt(formula, i, t) BY <4>1, <4>3, Zenon
      <4> QED BY <4>4 DEF i
    <3>3. /\ Stood(t.kind, t.first, new[t.at], delta)
          /\ Stood(t.kind, t.last, new[t.at + t.length - 1], delta)
          /\ t.length = 3 => new[t.at + 1].kind = "colon"
      BY <2>3, <2>5
    <3> HIDE DEF t, Fits
    <3>4. CASE j = t.at
      BY <3>2, <3>3, <3>4 DEF EndsAt, Stood
    <3>5. CASE j = t.at + t.length - 1
      BY <3>2, <3>3, <3>5 DEF EndsAt, Stood
    <3>6. CASE j # t.at /\ j # t.at + t.length - 1
      <4>1. t.length = 3 /\ j = t.at + 1
        <5>1. j \in t.at..t.at + t.length - 1 BY <2>1 DEF t
        <5> QED BY <2>2, <3>6, <5>1
      <4>2. KindAt(formula, j) = "colon" BY <3>2, <4>1 DEF EndsAt
      <4>3. formula[j].kind = "colon" BY <1>4, <4>2 DEF KindAt
      <4>4. new[j].kind = "colon" BY <3>3, <4>1
      <4>5. KindAt(formula, j + 1) # "bang"
        <5>1. t.last.kind \in {"address", "row", "column"} BY <3>2, <4>1 DEF EndsAt
        <5>2. t.last = formula[j + 1] /\ j + 1 \in 1..Len(formula)
          <6>1. t.at + t.length - 1 = j + 1 BY <2>2, <4>1
          <6> QED BY <3>2, <6>1 DEF EndsAt
        <5>3. KindAt(formula, j + 1) = t.last.kind BY <1>4, <5>2 DEF KindAt
        <5> QED BY <5>1, <5>3
      <4> QED BY <4>3, <4>4, <4>5
    <3> QED BY <3>4, <3>5, <3>6
  <2> QED BY <2>4, <2>5
<1>10. Alike(formula, new)
  <2>1. IsSequence(new) BY <1>7, SequenceOf
  <2> QED BY <1>7, <1>9, <2>1 DEF Alike
<1>11. \A k \in 1..N : Fits(k)
  BY <1>8
<1> QED BY <1>10, <1>11 DEF new, tokens

LEMMA ZeroDistance ==
    ASSUME NEW formula, IsSequence(formula), IsFormula(formula), NEW delta,
           delta.rows = 0, delta.columns = 0, NEW k \in 1..Len(Tokens(formula)),
           IsReference(Tokens(formula)[k])
    PROVE  LET t == Tokens(formula)[k] IN ~LedOff(t, delta) /\ AtDistance(t, t, delta)
<1> DEFINE t == Tokens(formula)[k]
<1>1. t.at \in 1..Len(formula) /\ t = TokenAt(formula, t.at)
  BY TokensTile, TileAt
<1>2. PICK i \in 1..Len(formula) : t = TokenAt(formula, i)
  BY <1>1
<1> HIDE DEF t
<1>3. EndsAt(formula, i, t)
  <2>1. IsReference(TokenAt(formula, i)) BY <1>2 DEF t
  <2>2. EndsAt(formula, i, TokenAt(formula, i)) BY <2>1, TokenEnds
  <2> QED BY <1>2, <2>2, Zenon
<1>4. DOMAIN formula = 1..Len(formula)
  BY SequenceDomain
<1>5. ASSUME NEW end \in {t.first, t.last}
      PROVE  /\ t.kind # "column" => end.row \in 1..MaxRow
             /\ t.kind # "row" => end.column \in 1..MaxColumn
  <2>1. PICK j \in 1..Len(formula) : end = formula[j] BY <1>3 DEF EndsAt
  <2>2. IsLexeme(end) BY <1>4, <2>1 DEF IsFormula
  <2>3. /\ end.kind \in {"address", "row"} => end.row \in 1..MaxRow
        /\ end.kind \in {"address", "column"} => end.column \in 1..MaxColumn
    BY <2>2 DEF IsLexeme
  <2> QED BY <1>3, <2>3 DEF EndsAt
<1>6. /\ \A x \in 1..MaxRow : x + delta.rows = x
      /\ \A x \in 1..MaxColumn : x + delta.columns = x
  OBVIOUS
<1>7. ~LedOff(t, delta)
  BY <1>5, <1>6 DEF LedOff
<1>8. AtDistance(t, t, delta)
  BY <1>5, <1>6 DEF AtDistance
<1> QED BY <1>7, <1>8 DEF t

\* A translated formula has lost a reference, or the scan finds in it what it
\* found before, each reference at its distance.
LEMMA TranslatedKeepsDistance ==
    ASSUME NEW formula, IsSequence(formula), IsFormula(formula), NEW delta
    PROVE  KeepsDistance(formula, TranslatedFormula(formula, delta), delta)
<1> DEFINE new == TranslatedFormula(formula, delta)
           was == Tokens(formula)
           now == Tokens(new)
           N == Len(was)
<1>1. N \in Nat /\ DOMAIN was = 1..N
  <2>1. was \in Seq(TokensOf(formula)) BY TokensType
  <2> QED BY <2>1
<1>2. CASE delta.rows = 0 /\ delta.columns = 0
  <2>1. new = formula BY <1>2 DEF TranslatedFormula
  <2>2. \A k \in 1..N : IsReference(was[k]) =>
            ~LedOff(was[k], delta) /\ AtDistance(was[k], was[k], delta)
    BY <1>2, ZeroDistance
  <2>3. now = was BY <2>1
  <2> HIDE DEF new, was, now
  <2>4. KeepsDistance(formula, new, delta)
    BY <1>1, <2>2, <2>3 DEF KeepsDistance, was, now
  <2> QED BY <2>4 DEF new
<1>3. CASE ~(delta.rows = 0 /\ delta.columns = 0) /\ ~OnSheet(formula, delta)
  <2>1. PICK k \in 1..N : IsReference(was[k]) /\ LedOff(was[k], delta)
    BY <1>3 DEF OnSheet
  <2>2. Lost \in ToSet(new) BY <1>3, <2>1, LostIsKept
  <2> HIDE DEF new
  <2>3. KeepsDistance(formula, new, delta)
    BY <1>1, <2>1, <2>2 DEF KeepsDistance
  <2> QED BY <2>3 DEF new
<1>4. CASE ~(delta.rows = 0 /\ delta.columns = 0) /\ OnSheet(formula, delta)
  <2>1. Alike(formula, new)
    BY <1>4, TranslatedAlike
  <2>2. ASSUME NEW k \in 1..N
        PROVE  LET t == was[k]
               IN  IF IsReference(t)
                   THEN /\ Stood(t.kind, t.first, new[t.at], delta)
                        /\ Stood(t.kind, t.last, new[t.at + t.length - 1], delta)
                   ELSE new[t.at] = formula[t.at]
    BY <1>4, TranslatedAlike
  <2>3. now = [k \in 1..N |-> TokenAt(new, was[k].at)]
    BY <2>1, AlikeTile
  <2>4. Tiles(formula, 1, was)
    BY TokensTile
  <2> HIDE DEF new, was, now
  <2>5. Len(now) = N
    BY <1>1, <2>3
  <2>6. ASSUME NEW k \in 1..N
        PROVE  /\ now[k].kind = was[k].kind /\ now[k].sheet = was[k].sheet
               /\ IF IsReference(was[k]) THEN AtDistance(was[k], now[k], delta)
                  ELSE now[k].first = was[k].first
    <3> DEFINE t == was[k]
    <3>1. t.at \in 1..Len(formula) /\ t = TokenAt(formula, t.at)
      BY <2>4, TileAt
    <3>2. PICK i \in 1..Len(formula) : i = t.at /\ t = TokenAt(formula, i)
      BY <3>1
    <3>3. now[k] = TokenAt(new, i) BY <2>3, <3>2
    <3>4. /\ TokenAt(new, i).kind = TokenAt(formula, i).kind
          /\ TokenAt(new, i).sheet = TokenAt(formula, i).sheet
          /\ TokenAt(new, i).first = new[i]
          /\ TokenAt(new, i).last = new[i + TokenAt(formula, i).length - 1]
      BY <2>1, AlikeTokens
    <3>5. t.first = formula[i]
      BY <3>2 DEF TokenAt, Token
    <3> DEFINE u == now[k]
    <3>6. u.kind = t.kind /\ u.sheet = t.sheet /\ u.first = new[t.at]
          /\ u.last = new[t.at + t.length - 1]
      BY <3>2, <3>3, <3>4
    <3>7. t.first = formula[t.at] BY <3>2, <3>5
    <3> HIDE DEF t, u
    <3>8. CASE IsReference(t)
      <4>1. Stood(t.kind, t.first, u.first, delta) /\ Stood(t.kind, t.last, u.last, delta)
        BY <2>2, <3>6, <3>8 DEF t
      <4>2. AtDistance(t, u, delta) BY <4>1 DEF Stood, AtDistance
      <4> QED BY <3>6, <3>8, <4>2 DEF t, u
    <3>9. CASE ~IsReference(t)
      <4>1. u.first = t.first
        <5>1. new[t.at] = formula[t.at] BY <2>2, <3>9 DEF t
        <5> QED BY <3>6, <3>7, <5>1
      <4> QED BY <3>6, <3>9, <4>1 DEF t, u
    <3> QED BY <3>8, <3>9
  <2>7. \A k \in 1..N : IsReference(was[k]) => ~LedOff(was[k], delta)
    BY <1>4 DEF OnSheet, was
  <2>8. KeepsDistance(formula, new, delta)
    <3>1. now = Tokens(new) /\ was = Tokens(formula) BY DEF now, was
    <3> QED BY <1>1, <2>5, <2>6, <2>7, <3>1 DEF KeepsDistance
  <2> QED BY <2>8 DEF new
<1> QED BY <1>2, <1>3, <1>4

(***************************************************************************)
(* Sums of weights over a set of positions                                 *)
(***************************************************************************)
Weighed(cells, S) == \A p \in S : Weight(cells[p]) \in Nat

Chosen(T) == CHOOSE x \in T : TRUE

Adds(g, cells, S) ==
    /\ g \in [SUBSET S -> Nat]
    /\ g[{}] = 0
    /\ \A T \in (SUBSET S) \ {{}} : g[T] = Weight(cells[Chosen(T)]) + g[T \ {Chosen(T)}]

\* f is such a sum on the subsets of T, whatever it is elsewhere.
SumsUp(f, cells, T) ==
    /\ f[{}] = 0
    /\ \A U \in (SUBSET T) \ {{}} : f[U] = Weight(cells[Chosen(U)]) + f[U \ {Chosen(U)}]

LEMMA AddsExist ==
    ASSUME NEW S, IsFiniteSet(S), NEW cells, Weighed(cells, S)
    PROVE  \E g : Adds(g, cells, S)
<1> DEFINE pick == [T \in (SUBSET S) \ {{}} |-> Chosen(T)]
           step == [p \in S |-> [n \in Nat |-> Weight(cells[p]) + n]]
<1>1. \A T \in (SUBSET S) \ {{}} : Chosen(T) \in T
  BY DEF Chosen
<1>2. Takes(pick, S)
  BY <1>1 DEF Takes
<1>3. step \in [S -> [Nat -> Nat]]
  BY DEF Weighed
<1>4. \E g : Shrinks(g, S, Nat, 0, pick, step)
  <2> HIDE DEF pick, step
  <2>1. 0 \in Nat OBVIOUS
  <2> QED BY <1>2, <1>3, <2>1, SetRecursionExists
<1>5. PICK g : Shrinks(g, S, Nat, 0, pick, step)
  BY <1>4
<1>6. ASSUME NEW T \in (SUBSET S) \ {{}}
      PROVE  g[T] = Weight(cells[Chosen(T)]) + g[T \ {Chosen(T)}]
  <2>1. g[T] = step[pick[T]][g[T \ {pick[T]}]] /\ g \in [SUBSET S -> Nat]
    <3> HIDE DEF pick, step
    <3> QED BY <1>5 DEF Shrinks
  <2>2. pick[T] = Chosen(T) /\ Chosen(T) \in S
    BY <1>1
  <2>3. g[T \ {Chosen(T)}] \in Nat
    BY <2>1
  <2> HIDE DEF pick
  <2> QED BY <2>1, <2>2, <2>3
<1>7. Adds(g, cells, S)
  <2> HIDE DEF pick, step
  <2> QED BY <1>5, <1>6 DEF Adds, Shrinks
<1> QED BY <1>7

\* Whatever satisfies the equations of a sum over T is the sum.
LEMMA AddsUnique ==
    ASSUME NEW S, IsFiniteSet(S), NEW cells, NEW g, Adds(g, cells, S),
           NEW T \in SUBSET S, NEW f, SumsUp(f, cells, T)
    PROVE  \A U \in SUBSET T : f[U] = g[U]
<1> DEFINE N == Cardinality(S)
           Good == {m \in 0..N : \A U \in SUBSET T : Cardinality(U) <= m => f[U] = g[U]}
<1>1. N \in Nat /\ \A U \in SUBSET T : IsFiniteSet(U) /\ Cardinality(U) \in 0..N
  <2>1. N \in Nat BY FS_CardinalityType
  <2>2. ASSUME NEW U \in SUBSET T PROVE IsFiniteSet(U) /\ Cardinality(U) \in 0..N
    <3>1. U \in SUBSET S OBVIOUS
    <3>2. IsFiniteSet(U) /\ Cardinality(U) <= N BY <3>1, FS_Subset
    <3>3. Cardinality(U) \in Nat BY <3>2, FS_CardinalityType
    <3> QED BY <2>1, <3>2, <3>3
  <2> QED BY <2>1, <2>2
<1>2. 0 \in Good
  <2>1. ASSUME NEW U \in SUBSET T, Cardinality(U) <= 0 PROVE f[U] = g[U]
    <3>1. Cardinality(U) = 0 BY <1>1, <2>1
    <3>2. U = {} BY <1>1, <3>1, FS_EmptySet
    <3> QED BY <3>2 DEF Adds, SumsUp
  <2> QED BY <1>1, <2>1
<1>3. ASSUME NEW m \in 0..N - 1, m \in Good PROVE m + 1 \in Good
  <2>1. ASSUME NEW U \in SUBSET T, Cardinality(U) <= m + 1 PROVE f[U] = g[U]
    <3>1. CASE U = {} BY <3>1 DEF Adds, SumsUp
    <3>2. CASE U # {}
      <4> DEFINE V == U \ {Chosen(U)}
      <4>1. Chosen(U) \in U BY <3>2 DEF Chosen
      <4>2. V \in SUBSET T /\ Cardinality(V) = Cardinality(U) - 1
        BY <1>1, <4>1, FS_RemoveElement
      <4>3. Cardinality(U) \in Nat BY <1>1
      <4>4. f[V] = g[V] BY <1>1, <1>3, <2>1, <4>2, <4>3
      <4>5. U \in (SUBSET S) \ {{}} /\ U \in (SUBSET T) \ {{}} BY <3>2
      <4>6. g[U] = Weight(cells[Chosen(U)]) + g[V] BY <4>5 DEF Adds
      <4>7. f[U] = Weight(cells[Chosen(U)]) + f[V] BY <4>5 DEF SumsUp
      <4> QED BY <4>4, <4>6, <4>7
    <3> QED BY <3>1, <3>2
  <2>2. m + 1 \in 0..N BY <1>1
  <2> QED BY <2>1, <2>2
<1>4. N \in Good
  <2> HIDE DEF Good
  <2>1. Good \in SUBSET (0..N) BY DEF Good
  <2>2. Good = 0..N BY <1>1, <1>2, <1>3, <2>1, UpToBound
  <2> QED BY <1>1, <2>2
<1> QED BY <1>1, <1>4

\* WeightOf computes it.
LEMMA WeightAdds ==
    ASSUME NEW S, IsFiniteSet(S), NEW cells, NEW g, Adds(g, cells, S), NEW T \in SUBSET S
    PROVE  WeightOf(cells, T) = g[T]
<1> DEFINE Eq(f) == f = [s \in SUBSET T |->
                            IF s = {} THEN 0
                            ELSE LET x == CHOOSE x \in s : TRUE
                                 IN  Weight(cells[x]) + f[s \ {x}]]
           f == CHOOSE h : Eq(h)
<1>1. WeightOf(cells, T) = f[T]
  BY DEF WeightOf, MapThenSumSet, MapThenFoldSet
<1>2. \E h : Eq(h)
  <2> DEFINE h == [s \in SUBSET T |-> g[s]]
  <2>1. ASSUME NEW s \in SUBSET T
        PROVE  h[s] = IF s = {} THEN 0 ELSE Weight(cells[Chosen(s)]) + h[s \ {Chosen(s)}]
    <3>1. CASE s = {} BY <3>1 DEF Adds
    <3>2. CASE s # {}
      <4>1. s \in (SUBSET S) \ {{}} /\ s \ {Chosen(s)} \in SUBSET T BY <3>2
      <4>2. g[s] = Weight(cells[Chosen(s)]) + g[s \ {Chosen(s)}]
        BY <3>2, <4>1 DEF Adds
      <4> QED BY <3>2, <4>1, <4>2
    <3> QED BY <3>1, <3>2
  <2>2. h = [s \in SUBSET T |->
                IF s = {} THEN 0 ELSE Weight(cells[Chosen(s)]) + h[s \ {Chosen(s)}]]
    <3>1. h = [s \in SUBSET T |-> h[s]] OBVIOUS
    <3> HIDE DEF h
    <3> QED BY <2>1, <3>1
  <2>3. Eq(h)
    <3> HIDE DEF h
    <3> QED BY <2>2 DEF Chosen
  <2> QED BY <2>3
<1>3. Eq(f)
  <2> HIDE DEF Eq
  <2> QED BY <1>2
<1> HIDE DEF f
<1>4. SumsUp(f, cells, T)
  BY <1>3 DEF Chosen, SumsUp
<1>5. f[T] = g[T]
  <2> HIDE DEF Eq
  <2>1. \A U \in SUBSET T : f[U] = g[U] BY <1>4, AddsUnique
  <2> QED BY <2>1
<1> QED BY <1>1, <1>5

LEMMA WeightEmpty ==
    ASSUME NEW cells
    PROVE  WeightOf(cells, {}) = 0
<1>1. IsFiniteSet({}) /\ Weighed(cells, {})
  BY FS_EmptySet DEF Weighed
<1>2. PICK g : Adds(g, cells, {})
  BY <1>1, AddsExist
<1>3. WeightOf(cells, {}) = g[{}]
  BY <1>1, <1>2, WeightAdds
<1> QED BY <1>2, <1>3 DEF Adds

LEMMA WeightType ==
    ASSUME NEW S, IsFiniteSet(S), NEW cells, Weighed(cells, S), NEW T \in SUBSET S
    PROVE  WeightOf(cells, T) \in Nat
<1>1. PICK g : Adds(g, cells, S)
  BY AddsExist
<1>2. WeightOf(cells, T) = g[T]
  BY <1>1, WeightAdds
<1> QED BY <1>1, <1>2 DEF Adds

\* Any of the positions may be taken off first.
LEMMA AddsAnyOrder ==
    ASSUME NEW S, IsFiniteSet(S), NEW cells, Weighed(cells, S), NEW g, Adds(g, cells, S)
    PROVE  \A T \in SUBSET S : \A x \in T : g[T] = Weight(cells[x]) + g[T \ {x}]
<1> DEFINE N == Cardinality(S)
           Good == {m \in 0..N : \A T \in SUBSET S : Cardinality(T) <= m =>
                                    \A x \in T : g[T] = Weight(cells[x]) + g[T \ {x}]}
<1>1. N \in Nat /\ \A T \in SUBSET S : IsFiniteSet(T) /\ Cardinality(T) \in 0..N
  <2>1. N \in Nat BY FS_CardinalityType
  <2>2. ASSUME NEW T \in SUBSET S PROVE IsFiniteSet(T) /\ Cardinality(T) \in 0..N
    <3>1. IsFiniteSet(T) /\ Cardinality(T) <= N BY FS_Subset
    <3>2. Cardinality(T) \in Nat BY <3>1, FS_CardinalityType
    <3> QED BY <2>1, <3>1, <3>2
  <2> QED BY <2>1, <2>2
<1>2. 0 \in Good
  <2>1. ASSUME NEW T \in SUBSET S, Cardinality(T) <= 0 PROVE T = {}
    <3>1. Cardinality(T) = 0 BY <1>1, <2>1
    <3> QED BY <1>1, <3>1, FS_EmptySet
  <2> QED BY <1>1, <2>1
<1>3. ASSUME NEW m \in 0..N - 1, m \in Good PROVE m + 1 \in Good
  <2>1. ASSUME NEW T \in SUBSET S, Cardinality(T) <= m + 1, NEW x \in T
        PROVE  g[T] = Weight(cells[x]) + g[T \ {x}]
    <3> DEFINE c == Chosen(T)
               A == T \ {c}
               B == T \ {x}
    <3>1. c \in T BY DEF Chosen
    <3>2. g[T] = Weight(cells[c]) + g[A]
      <4>1. T \in (SUBSET S) \ {{}} BY <2>1
      <4> QED BY <4>1 DEF Adds
    <3>3. CASE x = c BY <3>2, <3>3
    <3>4. CASE x # c
      <4> HIDE DEF c
      <4>1. A \in SUBSET S /\ B \in SUBSET S /\ x \in A /\ c \in B /\ A \ {x} = B \ {c}
            /\ A \ {x} \in SUBSET S
        BY <3>1, <3>4
      <4>2. Cardinality(A) <= m /\ Cardinality(B) <= m
        <5>1. Cardinality(A) = Cardinality(T) - 1 BY <1>1, <3>1, FS_RemoveElement
        <5>2. Cardinality(B) = Cardinality(T) - 1 BY <1>1, FS_RemoveElement
        <5>3. Cardinality(T) \in Nat BY <1>1
        <5> QED BY <2>1, <5>1, <5>2, <5>3
      <4> HIDE DEF A, B
      <4>3. g[A] = Weight(cells[x]) + g[A \ {x}] BY <1>3, <4>1, <4>2
      <4>4. g[B] = Weight(cells[c]) + g[A \ {x}] BY <1>3, <4>1, <4>2
      <4>5. Weight(cells[x]) \in Nat /\ Weight(cells[c]) \in Nat BY <3>1 DEF Weighed
      <4>6. g[A \ {x}] \in Nat BY <4>1 DEF Adds
      <4>7. g[T] = Weight(cells[x]) + g[B] BY <3>2, <4>3, <4>4, <4>5, <4>6
      <4> QED BY <4>7 DEF B
    <3> QED BY <3>3, <3>4
  <2>2. m + 1 \in 0..N BY <1>1
  <2> QED BY <2>1, <2>2
<1>4. N \in Good
  <2> HIDE DEF Good
  <2>1. Good \in SUBSET (0..N) BY DEF Good
  <2>2. Good = 0..N BY <1>1, <1>2, <1>3, <2>1, UpToBound
  <2> QED BY <1>1, <2>2
<1>5. ASSUME NEW T \in SUBSET S, NEW x \in T
      PROVE  g[T] = Weight(cells[x]) + g[T \ {x}]
  <2>1. Cardinality(T) <= N BY <1>1
  <2> QED BY <1>4, <2>1
<1> QED BY <1>5

LEMMA WeightRemove ==
    ASSUME NEW S, IsFiniteSet(S), NEW cells, Weighed(cells, S), NEW x \in S
    PROVE  WeightOf(cells, S) = Weight(cells[x]) + WeightOf(cells, S \ {x})
<1>1. PICK g : Adds(g, cells, S)
  BY AddsExist
<1>2. g[S] = Weight(cells[x]) + g[S \ {x}]
  BY <1>1, AddsAnyOrder
<1>3. S \in SUBSET S /\ S \ {x} \in SUBSET S
  OBVIOUS
<1>4. WeightOf(cells, S) = g[S] /\ WeightOf(cells, S \ {x}) = g[S \ {x}]
  BY <1>1, <1>3, WeightAdds
<1> QED BY <1>2, <1>4

LEMMA WeightUnion ==
    ASSUME NEW S, IsFiniteSet(S), NEW T, IsFiniteSet(T), S \cap T = {},
           NEW cells, Weighed(cells, S \cup T)
    PROVE  WeightOf(cells, S \cup T) = WeightOf(cells, S) + WeightOf(cells, T)
<1> DEFINE Good == {U \in SUBSET T :
                       WeightOf(cells, S \cup U) = WeightOf(cells, S) + WeightOf(cells, U)}
<1>1. ASSUME NEW U \in SUBSET (S \cup T)
      PROVE  IsFiniteSet(U) /\ Weighed(cells, U) /\ WeightOf(cells, U) \in Nat
  <2>1. IsFiniteSet(S \cup T) BY FS_Union
  <2>2. IsFiniteSet(U) BY <2>1, FS_Subset
  <2>3. Weighed(cells, U) BY DEF Weighed
  <2> QED BY <2>1, <2>2, <2>3, WeightType
<1>2. {} \in Good
  <2>1. WeightOf(cells, {}) = 0 BY WeightEmpty
  <2>2. WeightOf(cells, S) \in Nat BY <1>1
  <2> QED BY <2>1, <2>2
<1>3. ASSUME NEW U \in Good, NEW x \in T PROVE U \cup {x} \in Good
  <2>1. CASE x \in U
    <3>1. U \cup {x} = U BY <2>1
    <3> QED BY <3>1
  <2>2. CASE x \notin U
    <3> DEFINE V == U \cup {x}
               W == S \cup V
    <3>1. V \in SUBSET (S \cup T) /\ W \in SUBSET (S \cup T) /\ x \in V /\ x \in W
          /\ V \ {x} = U /\ W \ {x} = S \cup U /\ U \in SUBSET (S \cup T)
      BY <2>2
    <3>2. WeightOf(cells, V) = Weight(cells[x]) + WeightOf(cells, U)
      <4> HIDE DEF V
      <4>1. WeightOf(cells, V) = Weight(cells[x]) + WeightOf(cells, V \ {x})
        BY <1>1, <3>1, WeightRemove
      <4> QED BY <3>1, <4>1
    <3>3. WeightOf(cells, W) = Weight(cells[x]) + WeightOf(cells, S \cup U)
      <4> HIDE DEF W
      <4>1. WeightOf(cells, W) = Weight(cells[x]) + WeightOf(cells, W \ {x})
        BY <1>1, <3>1, WeightRemove
      <4> QED BY <3>1, <4>1
    <3>4. WeightOf(cells, S \cup U) = WeightOf(cells, S) + WeightOf(cells, U)
      OBVIOUS
    <3>5. WeightOf(cells, S) \in Nat /\ WeightOf(cells, U) \in Nat BY <1>1, <3>1
    <3>6. Weight(cells[x]) \in Nat BY DEF Weighed
    <3>7. WeightOf(cells, W) = WeightOf(cells, S) + WeightOf(cells, V)
      <4> HIDE DEF V, W
      <4> QED BY <3>2, <3>3, <3>4, <3>5, <3>6
    <3> QED BY <3>7
  <2> QED BY <2>1, <2>2
<1>4. Good = SUBSET T
  <2> HIDE DEF Good
  <2>1. Good \in SUBSET SUBSET T BY DEF Good
  <2>2. \A U \in Good, x \in T : U \cup {x} \in Good BY <1>3
  <2> QED BY <1>2, <2>1, <2>2, SubsetInduction
<1> QED BY <1>4

LEMMA WeightAgrees ==
    ASSUME NEW S, IsFiniteSet(S), NEW a, NEW b, Weighed(a, S), \A p \in S : a[p] = b[p]
    PROVE  WeightOf(a, S) = WeightOf(b, S)
<1>1. Weighed(b, S)
  BY DEF Weighed
<1>2. PICK g : Adds(g, a, S)
  BY AddsExist
<1>3. PICK h : Adds(h, b, S)
  BY <1>1, AddsExist
<1>4. \A U \in (SUBSET S) \ {{}} : Weight(b[Chosen(U)]) = Weight(a[Chosen(U)])
  BY DEF Chosen
<1>5. SumsUp(h, a, S)
  BY <1>3, <1>4 DEF Adds, SumsUp
<1>6. S \in SUBSET S
  OBVIOUS
<1>7. \A U \in SUBSET S : h[U] = g[U]
  BY <1>2, <1>5, <1>6, AddsUnique
<1>8. WeightOf(a, S) = g[S] /\ WeightOf(b, S) = h[S]
  BY <1>2, <1>3, <1>6, WeightAdds
<1> QED BY <1>6, <1>7, <1>8

(***************************************************************************)
(* Sound stores: cells on the sheet, each with a record, within both       *)
(* guardrails                                                              *)
(***************************************************************************)
IsStore(cells) ==
    /\ cells = [p \in DOMAIN cells |-> cells[p]]
    /\ DOMAIN cells \subseteq Positions
    /\ \A p \in DOMAIN cells : IsRecord(cells[p])

Guarded(cells) ==
    /\ IsStore(cells)
    /\ Cardinality(DOMAIN cells) <= MaxCells /\ Usage(cells) <= Budget

\* An operation is refused or leaves a guarded store.
Holds(session) == session # Refused => Guarded(session.cells)

LEMMA PositionsFinite ==
    ASSUME NEW S \in SUBSET Positions
    PROVE  IsFiniteSet(S) /\ Cardinality(S) \in Nat
<1>1. IsFiniteSet(1..MaxRow) /\ IsFiniteSet(1..MaxColumn)
  BY GridAssumption, FS_Interval
<1>2. IsFiniteSet(Positions)
  BY <1>1, FS_Product DEF Positions
<1>3. IsFiniteSet(S)
  BY <1>2, FS_Subset
<1> QED BY <1>3, FS_CardinalityType

LEMMA RecordFields ==
    ASSUME NEW kind, NEW text, NEW formula, NEW style
    PROVE  LET r == Record(kind, text, formula, style)
           IN  /\ r.kind = kind /\ r.text = text /\ r.formula = formula /\ r.style = style
               /\ IsSequence(text) /\ IsSequence(formula) => IsRecord(r)
BY DEF Record, IsRecord

LEMMA RecordWeight ==
    ASSUME NEW r, IsRecord(r)
    PROVE  Weight(r) \in Nat
<1> DEFINE m == Len(r.formula)
           n == IF r.kind \in {"text", "error"} THEN Len(r.text) ELSE 0
<1>1. m \in Nat /\ n \in Nat
  BY DEF IsRecord, IsSequence
<1>2. Weight(r) = 1 + m + n
  BY DEF Weight
<1> HIDE DEF m, n
<1> QED BY <1>1, <1>2

LEMMA StyledIs ==
    ASSUME NEW r, IsRecord(r), NEW style
    PROVE  Styled(r, style) = Record(r.kind, r.text, r.formula, style)
<1>1. \A a, b, c, d : [Record(a, b, c, d) EXCEPT !.style = style] = Record(a, b, c, style)
  BY DEF Record
<1>2. r = Record(r.kind, r.text, r.formula, r.style)
  BY DEF IsRecord
<1>3. [r EXCEPT !.style = style]
        = [Record(r.kind, r.text, r.formula, r.style) EXCEPT !.style = style]
  BY <1>2, Zenon
<1> QED BY <1>1, <1>3, Zenon DEF Styled

LEMMA StyledRecord ==
    ASSUME NEW r, IsRecord(r), NEW style
    PROVE  IsRecord(Styled(r, style))
<1>1. IsSequence(r.text) /\ IsSequence(r.formula)
  BY DEF IsRecord
<1> QED BY <1>1, StyledIs, RecordFields

\* What the loader and the clearing of values write.
LEMMA WrittenRecords ==
    /\ IsRecord(Blank)
    /\ \A x : IsRecord(Number(x)) /\ IsRecord(Boolean(x))
    /\ \A s : IsSequence(s) => IsRecord(Text(s)) /\ IsRecord(Error(s)) /\ IsRecord(Formula(s))
BY ShortSequences, RecordFields DEF Blank, Number, Boolean, Text, Error, Formula

LEMMA FormulaReplaced ==
    ASSUME NEW r, IsRecord(r), NEW formula, IsSequence(formula)
    PROVE  /\ [r EXCEPT !.formula = formula] = Record(r.kind, r.text, formula, r.style)
           /\ IsRecord([r EXCEPT !.formula = formula])
<1>1. [r EXCEPT !.formula = formula] = Record(r.kind, r.text, formula, r.style)
  <2>1. \A a, b, c, d : [Record(a, b, c, d) EXCEPT !.formula = formula] = Record(a, b, formula, d)
    BY DEF Record
  <2>2. r = Record(r.kind, r.text, r.formula, r.style) BY DEF IsRecord
  <2>3. [r EXCEPT !.formula = formula]
          = [Record(r.kind, r.text, r.formula, r.style) EXCEPT !.formula = formula]
    BY <2>2, Zenon
  <2> QED BY <2>1, <2>3, Zenon
<1>2. IsSequence(r.text)
  BY DEF IsRecord
<1> QED BY <1>1, <1>2, RecordFields

LEMMA StoreWeighs ==
    ASSUME NEW cells, IsStore(cells)
    PROVE  /\ IsFiniteSet(DOMAIN cells) /\ Cardinality(DOMAIN cells) \in Nat
           /\ Weighed(cells, DOMAIN cells) /\ Usage(cells) \in Nat
<1>1. IsFiniteSet(DOMAIN cells) /\ Cardinality(DOMAIN cells) \in Nat
  BY PositionsFinite DEF IsStore
<1>2. Weighed(cells, DOMAIN cells)
  BY RecordWeight DEF IsStore, Weighed
<1>3. DOMAIN cells \in SUBSET DOMAIN cells
  OBVIOUS
<1>4. Usage(cells) \in Nat
  BY <1>1, <1>2, <1>3, WeightType DEF Usage
<1> QED BY <1>1, <1>2, <1>4

\* A store given cell by cell.
LEMMA StoreGiven ==
    ASSUME NEW S \in SUBSET Positions, NEW cells, cells = [p \in S |-> cells[p]],
           \A p \in S : IsRecord(cells[p])
    PROVE  IsStore(cells) /\ DOMAIN cells = S
<1>1. DOMAIN cells = S
  <2>1. DOMAIN [p \in S |-> cells[p]] = S OBVIOUS
  <2> QED BY <2>1, Zenon
<1> QED BY <1>1 DEF IsStore

LEMMA StoreOverlaid ==
    ASSUME NEW a, IsStore(a), NEW b, IsStore(b)
    PROVE  /\ IsStore(a ++ b) /\ DOMAIN (a ++ b) = DOMAIN a \cup DOMAIN b
           /\ \A p \in DOMAIN a : (a ++ b)[p] = a[p]
           /\ \A p \in DOMAIN b \ DOMAIN a : (a ++ b)[p] = b[p]
<1> DEFINE S == DOMAIN a \cup DOMAIN b
           c == a ++ b
<1>1. c = [p \in S |-> IF p \in DOMAIN a THEN a[p] ELSE b[p]]
  BY DEF ++
<1>2. /\ \A p \in DOMAIN a : c[p] = a[p]
      /\ \A p \in DOMAIN b \ DOMAIN a : c[p] = b[p]
  BY <1>1
<1>3. S \in SUBSET Positions /\ c = [p \in S |-> c[p]] /\ \A p \in S : IsRecord(c[p])
  BY <1>1, <1>2 DEF IsStore
<1> HIDE DEF S, c
<1>4. IsStore(c) /\ DOMAIN c = S
  BY <1>3, StoreGiven
<1> QED BY <1>2, <1>4 DEF S, c

LEMMA StoreRestricted ==
    ASSUME NEW cells, IsStore(cells), NEW S \in SUBSET DOMAIN cells
    PROVE  /\ IsStore(Restrict(cells, S)) /\ DOMAIN Restrict(cells, S) = S
           /\ \A p \in S : Restrict(cells, S)[p] = cells[p]
<1> DEFINE c == Restrict(cells, S)
<1>1. c = [p \in S |-> cells[p]]
  BY DEF Restrict
<1>2. S \in SUBSET Positions /\ c = [p \in S |-> c[p]] /\ \A p \in S : c[p] = cells[p]
  BY <1>1 DEF IsStore
<1>3. \A p \in S : IsRecord(c[p])
  <2> HIDE DEF c
  <2> QED BY <1>2 DEF IsStore
<1> HIDE DEF c
<1>4. IsStore(c) /\ DOMAIN c = S
  BY <1>2, <1>3, StoreGiven
<1> QED BY <1>2, <1>4 DEF c

LEMMA StoreOfOne ==
    ASSUME NEW p \in Positions, NEW record, IsRecord(record)
    PROVE  IsStore(Only(p, record)) /\ DOMAIN Only(p, record) = {p} /\ Only(p, record)[p] = record
<1> DEFINE c == Only(p, record)
<1>1. c = [q \in {p} |-> record]
  BY DEF Only
<1>2. c = [q \in {p} |-> c[q]] /\ c[p] = record
  BY <1>1
<1>3. {p} \in SUBSET Positions /\ \A q \in {p} : IsRecord(c[q])
  <2> HIDE DEF c
  <2> QED BY <1>2
<1> HIDE DEF c
<1>4. IsStore(c) /\ DOMAIN c = {p}
  BY <1>2, <1>3, StoreGiven
<1> QED BY <1>2, <1>4 DEF c

LEMMA EmptyStore == IsStore(<< >>) /\ DOMAIN << >> = {}
<1>1. DOMAIN << >> = {} /\ << >> = [p \in {} |-> << >>[p]]
  OBVIOUS
<1>2. {} \in SUBSET Positions /\ \A p \in {} : IsRecord(<< >>[p])
  OBVIOUS
<1> QED BY <1>1, <1>2, StoreGiven

\* The guardrails checked on the store itself.
LEMMA ReplacedHolds ==
    ASSUME NEW cells, IsStore(cells)
    PROVE  Holds(RecordsReplaced(cells))
BY DEF RecordsReplaced, Allowed, Holds, Guarded, Session

\* Of a store, the weight of some cells and that of the others make the usage.
LEMMA UsageSplit ==
    ASSUME NEW cells, IsStore(cells), NEW S \in SUBSET DOMAIN cells
    PROVE  /\ WeightOf(cells, S) \in Nat /\ WeightOf(cells, DOMAIN cells \ S) \in Nat
           /\ Usage(cells) = WeightOf(cells, S) + WeightOf(cells, DOMAIN cells \ S)
<1> DEFINE T == DOMAIN cells \ S
<1>1. IsFiniteSet(DOMAIN cells) /\ Weighed(cells, DOMAIN cells)
  BY StoreWeighs
<1>2. S \in SUBSET DOMAIN cells /\ T \in SUBSET DOMAIN cells /\ S \cap T = {} /\ S \cup T = DOMAIN cells
  OBVIOUS
<1> HIDE DEF T
<1>3. IsFiniteSet(S) /\ IsFiniteSet(T)
  BY <1>1, <1>2, FS_Subset
<1>4. WeightOf(cells, S) \in Nat /\ WeightOf(cells, T) \in Nat
  BY <1>1, <1>2, WeightType
<1>5. Weighed(cells, S \cup T)
  BY <1>1, <1>2
<1>6. WeightOf(cells, S \cup T) = WeightOf(cells, S) + WeightOf(cells, T)
  BY <1>2, <1>3, <1>5, WeightUnion
<1>7. Usage(cells) = WeightOf(cells, S) + WeightOf(cells, T)
  BY <1>2, <1>6 DEF Usage
<1> QED BY <1>4, <1>7 DEF T

LEMMA StoresAgree ==
    ASSUME NEW a, IsStore(a), NEW b, NEW S \in SUBSET DOMAIN a, \A p \in S : a[p] = b[p]
    PROVE  WeightOf(a, S) = WeightOf(b, S)
<1>1. IsFiniteSet(S) /\ Weighed(a, S)
  <2>1. IsFiniteSet(DOMAIN a) /\ Weighed(a, DOMAIN a) BY StoreWeighs
  <2> QED BY <2>1, FS_Subset DEF Weighed
<1> QED BY <1>1, WeightAgrees

(***************************************************************************)
(* One cell written: what CellSet counts is what the store then holds      *)
(***************************************************************************)
LEMMA CellSetHolds ==
    ASSUME NEW session, IsStore(session.cells), NEW p \in Positions,
           NEW record, IsRecord(record)
    PROVE  Holds(CellSet(session, p, record))
<1> DEFINE cells == session.cells
           next == Only(p, record) ++ cells
           old == {p} \cap DOMAIN cells
           others == DOMAIN cells \ old
<1>1. /\ IsStore(next) /\ DOMAIN next = {p} \cup DOMAIN cells /\ next[p] = record
      /\ \A q \in DOMAIN cells \ {p} : next[q] = cells[q]
  <2> DEFINE one == Only(p, record)
  <2>1. IsStore(one) /\ DOMAIN one = {p} /\ one[p] = record BY StoreOfOne
  <2> HIDE DEF one, cells
  <2>2. /\ IsStore(one ++ cells) /\ DOMAIN (one ++ cells) = DOMAIN one \cup DOMAIN cells
        /\ \A q \in DOMAIN one : (one ++ cells)[q] = one[q]
        /\ \A q \in DOMAIN cells \ DOMAIN one : (one ++ cells)[q] = cells[q]
    BY <2>1, StoreOverlaid DEF cells
  <2> QED BY <2>1, <2>2 DEF one
<1> HIDE DEF next
<1>2. DOMAIN next \ {p} = others /\ p \in DOMAIN next /\ old \in SUBSET DOMAIN cells
      /\ others \in SUBSET DOMAIN next
  BY <1>1
<1>3. Usage(next) = Weight(record) + WeightOf(cells, others)
  <2>1. IsFiniteSet(DOMAIN next) /\ Weighed(next, DOMAIN next) BY <1>1, StoreWeighs
  <2>2. WeightOf(next, DOMAIN next) = Weight(next[p]) + WeightOf(next, DOMAIN next \ {p})
    BY <1>2, <2>1, WeightRemove
  <2>3. WeightOf(next, others) = WeightOf(cells, others)
    <3>1. \A q \in others : next[q] = cells[q] BY <1>1
    <3> QED BY <1>1, <1>2, <3>1, StoresAgree
  <2> QED BY <1>1, <1>2, <2>2, <2>3 DEF Usage
<1>4. /\ WeightOf(cells, old) \in Nat /\ WeightOf(cells, others) \in Nat
      /\ Usage(cells) = WeightOf(cells, old) + WeightOf(cells, others)
  BY <1>2, UsageSplit
<1>5. Weight(record) \in Nat
  BY RecordWeight
<1>6. Usage(cells) - WeightOf(cells, old) + Weight(record) = Usage(next)
  <2> HIDE DEF cells, old, others
  <2> QED BY <1>3, <1>4, <1>5
<1>7. DOMAIN cells \cup {p} = DOMAIN next
  BY <1>1
<1>8. CellSet(session, p, record)
        = IF Allowed(Cardinality(DOMAIN next), Usage(next)) THEN Session(next, TRUE) ELSE Refused
  BY <1>6, <1>7 DEF CellSet, next
<1> QED BY <1>1, <1>8 DEF Holds, Guarded, Allowed, Session

(***************************************************************************)
(* A batch of updates, and what is erased with it                          *)
(***************************************************************************)
IsBatch(updates) ==
    /\ IsSequence(updates)
    /\ \A i \in 1..Len(updates) : updates[i].at \in Positions /\ IsRecord(updates[i].value)

\* The update of a cell on top of those staged before it.
FinalRecord(cells, erasures, u, keepStyles, staged) ==
    IF keepStyles
    THEN Styled(u.value, IF u.at \in DOMAIN staged THEN staged[u.at].style
                         ELSE IF u.at \in erasures THEN NoStyle
                         ELSE StyleAt(cells, u.at))
    ELSE u.value

FinalStep(cells, erasures, updates, keepStyles, f, i) ==
    IF i = 0 THEN << >>
    ELSE Only(updates[i].at, FinalRecord(cells, erasures, updates[i], keepStyles, f[i - 1]))
             ++ f[i - 1]

Finals(cells, erasures, updates, keepStyles, f, m) ==
    /\ f = [i \in 0..m |-> f[i]]
    /\ \A i \in 0..m : f[i] = FinalStep(cells, erasures, updates, keepStyles, f, i)

LEMMA FinalsExist ==
    ASSUME NEW cells, NEW erasures, NEW updates, NEW keepStyles, NEW N \in Nat
    PROVE  \E f : Finals(cells, erasures, updates, keepStyles, f, N)
<1> DEFINE Fits(f, m) == Finals(cells, erasures, updates, keepStyles, f, m)
           Good == {m \in 0..N : \E f : Fits(f, m)}
<1>1. 0 \in Good
  <2> DEFINE f == [i \in 0..0 |-> << >>]
  <2>1. f = [i \in 0..0 |-> f[i]] /\ f[0] = << >> OBVIOUS
  <2>2. Fits(f, 0)
    <3> HIDE DEF f
    <3> QED BY <2>1 DEF Finals, FinalStep
  <2> HIDE DEF f, Fits
  <2> QED BY <2>2
<1>2. ASSUME NEW m \in 0..N - 1, m \in Good PROVE m + 1 \in Good
  <2>1. PICK f : Fits(f, m) BY <1>2
  <2> DEFINE k == m + 1
             last == FinalStep(cells, erasures, updates, keepStyles, f, k)
             g == [i \in 0..k |-> IF i = k THEN last ELSE f[i]]
  <2>2. k \in Int /\ k # 0 /\ k - 1 \in 0..m /\ k - 1 # k /\ k \in 0..N OBVIOUS
  <2>3. g = [i \in 0..k |-> g[i]] OBVIOUS
  <2>4. ASSUME NEW i \in 0..k PROVE g[i] = FinalStep(cells, erasures, updates, keepStyles, g, i)
    <3> HIDE DEF last
    <3>1. CASE i = k
      <4>1. g[k] = last /\ g[k - 1] = f[k - 1] OBVIOUS
      <4> HIDE DEF g, k
      <4> QED BY <3>1, <4>1, <2>2 DEF FinalStep, last
    <3>2. CASE i # k /\ i # 0
      <4>1. g[i] = f[i] /\ g[i - 1] = f[i - 1] /\ i \in 0..m BY <3>2
      <4>2. f[i] = FinalStep(cells, erasures, updates, keepStyles, f, i) BY <2>1, <4>1 DEF Finals
      <4> HIDE DEF g, k
      <4> QED BY <3>2, <4>1, <4>2 DEF FinalStep
    <3>3. CASE i = 0
      <4>1. g[0] = f[0] /\ 0 \in 0..m OBVIOUS
      <4>2. f[0] = FinalStep(cells, erasures, updates, keepStyles, f, 0) BY <2>1, <4>1 DEF Finals
      <4> HIDE DEF g, k
      <4> QED BY <3>3, <4>1, <4>2 DEF FinalStep
    <3> QED BY <3>1, <3>2, <3>3
  <2>5. Fits(g, k)
    <3> HIDE DEF g, k
    <3> QED BY <2>3, <2>4 DEF Finals
  <2> HIDE DEF g, Fits
  <2> QED BY <2>2, <2>5
<1> HIDE DEF Fits
<1>3. N \in Good
  <2> HIDE DEF Good
  <2>1. Good \in SUBSET (0..N) BY DEF Good
  <2>2. Good = 0..N BY <1>1, <1>2, <2>1, UpToBound
  <2> QED BY <2>2
<1> QED BY <1>3 DEF Fits

LEMMA FinalUpdatesType ==
    ASSUME NEW cells, NEW erasures, NEW updates, IsBatch(updates), NEW keepStyles
    PROVE  IsStore(FinalUpdates(cells, erasures, updates, keepStyles))
<1> DEFINE N == Len(updates)
           Eq(f) == f = [i \in 0..Len(updates) |->
                            IF i = 0 THEN << >>
                            ELSE LET staged == f[i - 1]
                                     u == updates[i]
                                     style == IF u.at \in DOMAIN staged THEN staged[u.at].style
                                              ELSE IF u.at \in erasures THEN NoStyle
                                              ELSE StyleAt(cells, u.at)
                                 IN  Only(u.at, IF keepStyles THEN Styled(u.value, style)
                                                ELSE u.value)
                                         ++ staged]
           final == CHOOSE f : Eq(f)
<1>1. N \in Nat
  BY DEF IsBatch, IsSequence
<1>2. FinalUpdates(cells, erasures, updates, keepStyles) = final[N]
  BY DEF FinalUpdates
<1>3. \E f : Eq(f)
  <2>1. PICK f : Finals(cells, erasures, updates, keepStyles, f, N) BY <1>1, FinalsExist
  <2>2. Eq(f) BY <2>1 DEF Finals, FinalStep, FinalRecord
  <2> QED BY <2>2
<1>4. Eq(final)
  <2> HIDE DEF Eq
  <2> QED BY <1>3
<1> HIDE DEF final
<1>5. \A i \in 0..N : final[i] = FinalStep(cells, erasures, updates, keepStyles, final, i)
  BY <1>4 DEF FinalStep, FinalRecord
<1> HIDE DEF Eq
<1> DEFINE Good == {m \in 0..N : IsStore(final[m])}
<1>6. 0 \in Good
  <2>1. 0 \in 0..N BY <1>1
  <2>2. final[0] = << >> BY <1>5, <2>1 DEF FinalStep
  <2> QED BY <2>1, <2>2, EmptyStore
<1>7. ASSUME NEW m \in 0..N - 1, m \in Good PROVE m + 1 \in Good
  <2> DEFINE k == m + 1
             staged == final[m]
             u == updates[k]
             record == FinalRecord(cells, erasures, u, keepStyles, staged)
  <2>1. k \in 1..N /\ k \in 0..N /\ k # 0 /\ k - 1 = m BY <1>1
  <2>2. IsStore(staged) BY <1>7
  <2>3. u.at \in Positions /\ IsRecord(u.value) BY <2>1 DEF IsBatch
  <2>4. IsRecord(record)
    <3> HIDE DEF u, staged
    <3> QED BY <2>3, StyledRecord DEF FinalRecord
  <2>5. final[k] = Only(u.at, record) ++ staged
    <3>1. final[k] = FinalStep(cells, erasures, updates, keepStyles, final, k) BY <1>5, <2>1
    <3> HIDE DEF k
    <3> QED BY <2>1, <3>1 DEF FinalStep
  <2> HIDE DEF record, staged, u
  <2>6. IsStore(Only(u.at, record)) BY <2>3, <2>4, StoreOfOne
  <2>7. IsStore(final[k])
    <3> DEFINE one == Only(u.at, record)
    <3>1. IsStore(one) BY <2>6
    <3> HIDE DEF one
    <3>2. IsStore(one ++ staged) BY <2>2, <3>1, StoreOverlaid
    <3> QED BY <2>5, <3>2 DEF one
  <2> QED BY <2>1, <2>7
<1>8. N \in Good
  <2> HIDE DEF Good
  <2>1. Good \in SUBSET (0..N) BY DEF Good
  <2>2. Good = 0..N BY <1>1, <1>6, <1>7, <2>1, UpToBound
  <2> QED BY <1>1, <2>2
<1> QED BY <1>2, <1>8

\* The counts worked out beforehand are those of the store the batch leaves.
LEMMA EditedCounts ==
    ASSUME NEW cells, IsStore(cells), NEW erasures, NEW final, IsStore(final)
    PROVE  LET next == final ++ Restrict(cells, DOMAIN cells \ erasures)
           IN  /\ IsStore(next)
               /\ NextCount(cells, erasures, final) = Cardinality(DOMAIN next)
               /\ NextUsage(cells, erasures, final) = Usage(next)
<1> DEFINE D == DOMAIN cells
           F == DOMAIN final
           kept == D \ erasures
           rest == Restrict(cells, kept)
           next == final ++ rest
           gone == (erasures \ F) \cap D
           replaced == (erasures \cup F) \cap D
           others == D \ replaced
<1>1. IsStore(rest) /\ DOMAIN rest = kept /\ \A p \in kept : rest[p] = cells[p]
  BY StoreRestricted
<1> HIDE DEF rest
<1>2. /\ IsStore(next) /\ DOMAIN next = F \cup kept
      /\ \A p \in F : next[p] = final[p]
      /\ \A p \in kept \ F : next[p] = rest[p]
  <2>1. /\ IsStore(final ++ rest) /\ DOMAIN (final ++ rest) = DOMAIN final \cup DOMAIN rest
        /\ \A p \in DOMAIN final : (final ++ rest)[p] = final[p]
        /\ \A p \in DOMAIN rest \ DOMAIN final : (final ++ rest)[p] = rest[p]
    BY <1>1, StoreOverlaid
  <2> QED BY <1>1, <2>1
<1> HIDE DEF next
<1>3. NextCount(cells, erasures, final) = Cardinality(DOMAIN next)
  <2>1. IsFiniteSet(D) /\ IsFiniteSet(F) BY StoreWeighs
  <2>2. gone \in SUBSET D /\ D \ gone = kept \cup (D \cap F) /\ gone = D \cap gone OBVIOUS
  <2>3. IsFiniteSet(D \ gone) /\ Cardinality(D \ gone) = Cardinality(D) - Cardinality(gone)
    <3>1. Cardinality(D \ gone) = Cardinality(D) - Cardinality(D \cap gone)
      BY <2>1, FS_Difference
    <3>2. IsFiniteSet(D \ gone) BY <2>1, FS_Difference
    <3> HIDE DEF gone
    <3> QED BY <2>2, <3>1, <3>2
  <2>4. IsFiniteSet(F \ D) BY <2>1, FS_Difference
  <2>5. DOMAIN next = (D \ gone) \cup (F \ D) /\ (D \ gone) \cap (F \ D) = {} BY <1>2
  <2>6. Cardinality(DOMAIN next)
          = Cardinality(D \ gone) + Cardinality(F \ D) - Cardinality((D \ gone) \cap (F \ D))
    <3> DEFINE A == D \ gone
               B == F \ D
    <3>1. DOMAIN next = A \cup B /\ IsFiniteSet(A) /\ IsFiniteSet(B) BY <2>3, <2>4, <2>5
    <3> HIDE DEF A, B
    <3>2. Cardinality(A \cup B) = Cardinality(A) + Cardinality(B) - Cardinality(A \cap B)
      BY <3>1, FS_Union
    <3> QED BY <3>1, <3>2 DEF A, B
  <2>7. Cardinality((D \ gone) \cap (F \ D)) = 0 BY <2>5, FS_EmptySet
  <2>8. Cardinality(D) \in Nat /\ Cardinality(gone) \in Nat /\ Cardinality(F \ D) \in Nat
    <3>1. IsFiniteSet(gone) BY <2>1, <2>2, FS_Subset
    <3> QED BY <2>1, <2>4, <3>1, FS_CardinalityType
  <2> QED BY <2>3, <2>6, <2>7, <2>8 DEF NextCount
<1>4. NextUsage(cells, erasures, final) = Usage(next)
  <2>1. F \in SUBSET DOMAIN next /\ others = DOMAIN next \ F /\ others \in SUBSET DOMAIN next
        /\ replaced \in SUBSET D /\ F \in SUBSET F
    BY <1>2
  <2>2. Usage(next) = WeightOf(next, F) + WeightOf(next, others)
        /\ WeightOf(next, F) \in Nat /\ WeightOf(next, others) \in Nat
    <3> HIDE DEF others
    <3> QED BY <1>2, <2>1, UsageSplit
  <2>3. WeightOf(next, F) = Usage(final)
    <3>1. \A p \in F : final[p] = next[p] BY <1>2
    <3>2. WeightOf(final, F) = WeightOf(next, F) BY <2>1, <3>1, StoresAgree
    <3> QED BY <3>2 DEF Usage
  <2>4. WeightOf(next, others) = WeightOf(cells, others)
    <3>1. \A p \in others : next[p] = cells[p] BY <1>1, <1>2
    <3> HIDE DEF others
    <3> QED BY <1>2, <2>1, <3>1, StoresAgree
  <2>5. Usage(cells) = WeightOf(cells, replaced) + WeightOf(cells, others)
        /\ WeightOf(cells, replaced) \in Nat /\ WeightOf(cells, others) \in Nat
    <3> HIDE DEF replaced
    <3> QED BY <2>1, UsageSplit
  <2>6. NextUsage(cells, erasures, final)
          = Usage(cells) - WeightOf(cells, replaced) + Usage(final)
    BY DEF NextUsage
  <2> HIDE DEF replaced, others
  <2> QED BY <2>2, <2>3, <2>4, <2>5, <2>6
<1> QED BY <1>2, <1>3, <1>4 DEF next, rest

LEMMA CellsEditedHolds ==
    ASSUME NEW session, IsStore(session.cells), NEW erasures, NEW updates, IsBatch(updates),
           NEW keepStyles
    PROVE  Holds(CellsEdited(session, erasures, updates, keepStyles))
<1> DEFINE cells == session.cells
           final == FinalUpdates(cells, erasures, updates, keepStyles)
           next == final ++ Restrict(cells, DOMAIN cells \ erasures)
           count == NextCount(cells, erasures, final)
           usage == NextUsage(cells, erasures, final)
           dirty == session.dirty \/ (erasures \cap DOMAIN cells # {} \/ updates # << >>)
<1>1. IsStore(final)
  BY FinalUpdatesType
<1>2. CellsEdited(session, erasures, updates, keepStyles)
        = IF Allowed(count, usage) THEN Session(next, dirty) ELSE Refused
  BY DEF CellsEdited
<1> HIDE DEF final
<1>3. IsStore(next) /\ count = Cardinality(DOMAIN next) /\ usage = Usage(next)
  BY <1>1, EditedCounts
<1> HIDE DEF next, count, usage, dirty
<1> QED BY <1>2, <1>3 DEF Holds, Guarded, Allowed, Session

(***************************************************************************)
(* Single cells, ranges, and rows and columns inserted and deleted         *)
(***************************************************************************)
\* A store written on top of another, checked against the guardrails.
LEMMA OverlaidHolds ==
    ASSUME NEW a, IsStore(a), NEW b, IsStore(b)
    PROVE  Holds(RecordsReplaced(a ++ b))
<1> DEFINE c == a ++ b
<1>1. IsStore(c)
  BY StoreOverlaid
<1> HIDE DEF c
<1>2. Holds(RecordsReplaced(c))
  BY <1>1, ReplacedHolds
<1> QED BY <1>2 DEF c

LEMMA CellErasedHolds ==
    ASSUME NEW session, Guarded(session.cells), NEW p
    PROVE  Holds(CellErased(session, p))
<1> DEFINE cells == session.cells
           S == DOMAIN cells \ {p}
           rest == Restrict(cells, S)
           dirty == session.dirty \/ p \in DOMAIN cells
<1>1. IsStore(cells) /\ S \in SUBSET DOMAIN cells
  BY DEF Guarded
<1> HIDE DEF S
<1>2. IsStore(rest) /\ DOMAIN rest = S /\ \A q \in S : rest[q] = cells[q]
  BY <1>1, StoreRestricted
<1> HIDE DEF rest
<1>3. Cardinality(S) <= Cardinality(DOMAIN cells)
  <2>1. IsFiniteSet(DOMAIN cells) BY <1>1, StoreWeighs
  <2> QED BY <1>1, <2>1, FS_Subset
<1>4. WeightOf(rest, S) = WeightOf(cells, S)
  <2>1. S \in SUBSET DOMAIN rest BY <1>2
  <2> QED BY <1>2, <2>1, StoresAgree
<1>5. Usage(rest) <= Usage(cells)
  <2>1. /\ WeightOf(cells, S) \in Nat /\ WeightOf(cells, DOMAIN cells \ S) \in Nat
        /\ Usage(cells) = WeightOf(cells, S) + WeightOf(cells, DOMAIN cells \ S)
    BY <1>1, UsageSplit
  <2>2. Usage(rest) = WeightOf(cells, S) BY <1>2, <1>4 DEF Usage
  <2> QED BY <2>1, <2>2
<1>6. Cardinality(S) \in Nat /\ Cardinality(DOMAIN cells) \in Nat /\ Usage(rest) \in Nat
      /\ Usage(cells) \in Nat
  BY <1>1, <1>2, StoreWeighs
<1>7. Guarded(rest)
  BY <1>2, <1>3, <1>5, <1>6, GridAssumption DEF Guarded
<1>8. CellErased(session, p) = Session(rest, dirty)
  BY DEF CellErased, rest, S
<1> HIDE DEF dirty
<1> QED BY <1>7, <1>8 DEF Holds, Session

LEMMA ValuesClearedHolds ==
    ASSUME NEW session, Guarded(session.cells), NEW positions
    PROVE  Holds(ValuesCleared(session, positions))
<1> DEFINE cells == session.cells
           cleared == positions \cap DOMAIN cells
           blanks == [p \in cleared |-> Styled(Blank, cells[p].style)]
<1>1. IsStore(cells) /\ cleared \in SUBSET Positions
  BY DEF Guarded, IsStore
<1>2. IsStore(blanks)
  <2>1. blanks = [p \in cleared |-> blanks[p]] OBVIOUS
  <2>2. \A p \in cleared : IsRecord(blanks[p]) BY WrittenRecords, StyledRecord
  <2> HIDE DEF blanks, cleared
  <2> QED BY <1>1, <2>1, <2>2, StoreGiven
<1>3. ValuesCleared(session, positions)
        = IF cleared = {} THEN session ELSE RecordsReplaced(blanks ++ cells)
  BY DEF ValuesCleared
<1> HIDE DEF blanks
<1>4. Holds(RecordsReplaced(blanks ++ cells))
  BY <1>1, <1>2, OverlaidHolds
<1>5. Holds(session)
  BY DEF Holds
<1> HIDE DEF cells, cleared
<1> QED BY <1>3, <1>4, <1>5

LEMMA CellsErasedHolds ==
    ASSUME NEW session, Guarded(session.cells), NEW positions
    PROVE  Holds(CellsErased(session, positions))
<1>1. IsBatch(<< >>)
  <2>1. Len(<< >>) = 0 OBVIOUS
  <2> QED BY <2>1, ShortSequences DEF IsBatch
<1>2. IsStore(session.cells) /\ Holds(session)
  BY DEF Guarded, Holds
<1>3. Holds(CellsEdited(session, positions, << >>, FALSE))
  BY <1>1, <1>2, CellsEditedHolds
<1> QED BY <1>2, <1>3, Zenon DEF CellsErased

IsEdit(edit) ==
    /\ edit.rows \in BOOLEAN /\ edit.insert \in BOOLEAN
    /\ edit.first \in Nat \ {0} /\ edit.count \in Nat

\* A cell that is neither deleted nor pushed off stays on the sheet.
LEMMA ShiftStays ==
    ASSUME NEW edit, IsEdit(edit), NEW cells, IsStore(cells), ~PushedOff(cells, edit),
           NEW p \in DOMAIN cells, ~Deleted(p, edit)
    PROVE  Shift(p, edit) \in Positions
<1>1. p \in Positions /\ p = <<p[1], p[2]>> /\ p[1] \in 1..MaxRow /\ p[2] \in 1..MaxColumn
  BY DEF IsStore, Positions
<1>2. MaxRow \in Nat /\ MaxColumn \in Nat
  BY GridAssumption
<1>3. Along(p, edit) \in Nat /\ Along(p, edit) \in 1..Limit(edit)
  BY <1>1, <1>2 DEF Along, Limit
<1>4. edit.count \in Nat /\ edit.first \in Nat /\ edit.first >= 1
  BY DEF IsEdit
<1> DEFINE a == Along(p, edit)
           d == IF edit.insert THEN edit.count ELSE 0 - edit.count
<1>5. CASE a < edit.first
  BY <1>1, <1>5 DEF Shift
<1>6. CASE ~(a < edit.first)
  <2>1. a + d \in 1..Limit(edit)
    <3>1. CASE edit.insert
      <4>1. ~(a > Limit(edit) - edit.count)
        BY <1>3, <1>4, <1>6, <3>1 DEF PushedOff
      <4>2. Limit(edit) \in Nat BY <1>2 DEF Limit
      <4> QED BY <1>3, <1>4, <3>1, <4>1, <4>2
    <3>2. CASE ~edit.insert
      <4>1. a \notin edit.first..(edit.first + edit.count - 1)
        BY <3>2 DEF Deleted
      <4>2. Limit(edit) \in Nat BY <1>2 DEF Limit
      <4> HIDE DEF a
      <4>3. a \in Nat /\ a \in 1..Limit(edit) BY <1>3 DEF a
      <4> QED BY <1>4, <1>6, <3>2, <4>1, <4>2, <4>3
    <3> QED BY <3>1, <3>2
  <2>2. Shift(p, edit) = Displaced(p, edit, d)
    BY <1>6 DEF Shift
  <2> HIDE DEF d
  <2>3. CASE edit.rows
    <3>1. p[1] + d \in 1..MaxRow BY <2>1, <2>3 DEF Along, Limit
    <3>2. Displaced(p, edit, d) = <<p[1] + d, p[2]>> BY <2>3 DEF Displaced
    <3> QED BY <1>1, <2>2, <3>1, <3>2 DEF Positions
  <2>4. CASE ~edit.rows
    <3>1. p[2] + d \in 1..MaxColumn BY <2>1, <2>4 DEF Along, Limit
    <3>2. Displaced(p, edit, d) = <<p[1], p[2] + d>> BY <2>4 DEF Displaced
    <3> QED BY <1>1, <2>2, <3>1, <3>2 DEF Positions
  <2> QED BY <2>3, <2>4
<1> QED BY <1>5, <1>6

LEMMA ShiftedHolds ==
    ASSUME NEW session, Guarded(session.cells), NEW edit, IsEdit(edit)
    PROVE  Holds(Shifted(session, edit))
<1> DEFINE cells == session.cells
           kept == {p \in DOMAIN cells : ~Deleted(p, edit)}
           S == {Shift(p, edit) : p \in kept}
           Place(q) == CHOOSE p \in kept : Shift(p, edit) = q
           next == [q \in S |-> ShiftedRecord(cells[Place(q)], edit)]
<1>1. IsStore(cells) /\ Holds(session)
  BY DEF Guarded, Holds
<1>2. Shifted(session, edit)
        = IF edit.count = 0 THEN session
          ELSE IF PushedOff(cells, edit) THEN Refused
          ELSE IF next = cells THEN session ELSE RecordsReplaced(next)
  BY DEF Shifted
<1>3. ASSUME ~PushedOff(cells, edit) PROVE IsStore(next)
  <2>1. S \in SUBSET Positions
    BY <1>1, <1>3, ShiftStays
  <2>2. ASSUME NEW q \in S PROVE IsRecord(next[q])
    <3>1. PICK p \in kept : q = Shift(p, edit) OBVIOUS
    <3>2. Place(q) \in kept BY <3>1
    <3> DEFINE r == cells[Place(q)]
    <3>3. IsRecord(r) BY <1>1, <3>2 DEF IsStore
    <3>4. next[q] = ShiftedRecord(r, edit) OBVIOUS
    <3> HIDE DEF next, r
    <3>5. IsSequence(r.formula) BY <3>3 DEF IsRecord
    <3>6. IsSequence(RewrittenFormula(r.formula, edit)) BY <3>5, RewrittenType
    <3>7. IsRecord([r EXCEPT !.formula = RewrittenFormula(r.formula, edit)])
      BY <3>3, <3>6, FormulaReplaced
    <3>8. ShiftedRecord(r, edit) = [r EXCEPT !.formula = RewrittenFormula(r.formula, edit)]
      BY DEF ShiftedRecord
    <3> QED BY <3>4, <3>7, <3>8
  <2>3. next = [q \in S |-> next[q]] OBVIOUS
  <2> HIDE DEF next, S
  <2> QED BY <2>1, <2>2, <2>3, StoreGiven
<1> HIDE DEF next
<1>4. ~PushedOff(cells, edit) => Holds(RecordsReplaced(next))
  BY <1>3, ReplacedHolds
<1>5. Holds(Refused)
  BY DEF Holds
<1> HIDE DEF cells
<1> QED BY <1>1, <1>2, <1>4, <1>5, Zenon

(***************************************************************************)
(* Copies and moves: nothing is written off the sheet                      *)
(***************************************************************************)
IsMove(move) ==
    /\ move.range.first \in Positions /\ move.range.last \in Positions /\ move.to \in Positions
    /\ ValidMove(move)

LEMMA TargetStays ==
    ASSUME NEW move, IsMove(move), NEW cells, IsStore(cells), NEW p \in Within(cells, move.range)
    PROVE  Target(p, move) \in Positions /\ Origin(Target(p, move), move) = p
<1> DEFINE a == move.range.first
           b == move.range.last
           t == move.to
<1>1. p \in Positions
  BY DEF Within, IsStore
<1>2. MaxRow \in Nat /\ MaxColumn \in Nat
  BY GridAssumption
<1>3. /\ p = <<p[1], p[2]>> /\ p[1] \in 1..MaxRow /\ p[2] \in 1..MaxColumn
      /\ a[1] \in 1..MaxRow /\ a[2] \in 1..MaxColumn
      /\ b[1] \in 1..MaxRow /\ b[2] \in 1..MaxColumn
      /\ t[1] \in 1..MaxRow /\ t[2] \in 1..MaxColumn
  BY <1>1 DEF IsMove, Positions
<1>4. p[1] \in a[1]..b[1] /\ p[2] \in a[2]..b[2]
  BY DEF Within, Inside
<1>5. t[1] + (b[1] - a[1]) <= MaxRow /\ t[2] + (b[2] - a[2]) <= MaxColumn
  BY DEF IsMove, ValidMove
<1> DEFINE dr == t[1] - a[1]
           dc == t[2] - a[2]
<1>6. Delta(move).rows = dr /\ Delta(move).columns = dc /\ Target(p, move) = <<p[1] + dr, p[2] + dc>>
  BY DEF Delta, Target
<1>7. p[1] + dr \in 1..MaxRow /\ p[2] + dc \in 1..MaxColumn
      /\ (p[1] + dr) - dr = p[1] /\ (p[2] + dc) - dc = p[2]
  <2> HIDE DEF a, b, t
  <2> QED BY <1>2, <1>3, <1>4, <1>5
<1> HIDE DEF dr, dc, a, b, t
<1>8. Origin(Target(p, move), move) = <<(p[1] + dr) - dr, (p[2] + dc) - dc>>
  <2> DEFINE q == <<p[1] + dr, p[2] + dc>>
  <2>1. q[1] = p[1] + dr /\ q[2] = p[2] + dc OBVIOUS
  <2> HIDE DEF q
  <2>2. Origin(q, move) = <<q[1] - dr, q[2] - dc>> BY <1>6 DEF Origin
  <2>3. Target(p, move) = q BY <1>6 DEF q
  <2>4. Origin(q, move) = <<(p[1] + dr) - dr, (p[2] + dc) - dc>> BY <2>1, <2>2, Zenon
  <2> QED BY <2>3, <2>4, Zenon
<1> QED BY <1>3, <1>6, <1>7, <1>8 DEF Positions

LEMMA TargetsStay ==
    ASSUME NEW move, IsMove(move), NEW source, IsStore(source.cells)
    PROVE  /\ Targets(source, move) \in SUBSET Positions
           /\ Within(source.cells, move.range) \in SUBSET Positions
           /\ \A q \in Targets(source, move) :
                  Origin(q, move) \in Within(source.cells, move.range)
                  /\ IsRecord(source.cells[Origin(q, move)])
<1> DEFINE cells == source.cells
           range == move.range
<1>1. ASSUME NEW q \in Targets(source, move)
      PROVE  q \in Positions /\ Origin(q, move) \in Within(cells, range)
             /\ IsRecord(cells[Origin(q, move)])
  <2>1. PICK p \in Within(cells, range) : q = Target(p, move) BY DEF Targets
  <2>2. q \in Positions /\ Origin(q, move) = p
    <3> HIDE DEF cells
    <3>1. Target(p, move) \in Positions /\ Origin(Target(p, move), move) = p
      BY TargetStays DEF cells
    <3> QED BY <2>1, <3>1
  <2>3. IsRecord(cells[p]) BY DEF Within, IsStore
  <2> QED BY <2>1, <2>2, <2>3
<1>2. Within(cells, range) \in SUBSET Positions
  BY DEF Within, IsStore
<1> QED BY <1>1, <1>2

LEMMA TranslatedRecord ==
    ASSUME NEW r, IsRecord(r), NEW move
    PROVE  IsRecord(Translated(r, move))
<1>1. IsSequence(r.formula)
  BY DEF IsRecord
<1>2. IsSequence(TranslatedFormula(r.formula, Delta(move)))
  BY <1>1, TranslatedType
<1>3. IsRecord([r EXCEPT !.formula = TranslatedFormula(r.formula, Delta(move))])
  BY <1>2, FormulaReplaced
<1> QED BY <1>3 DEF Translated

\* What a transfer writes and leaves are stores.
LEMMA OverlaysAreStores ==
    ASSUME NEW move, IsMove(move), NEW source, IsStore(source.cells),
           NEW session, IsStore(session.cells)
    PROVE  /\ IsStore(CellOverlay(source, move))
           /\ IsStore(ValueOverlay(source, session, move))
           /\ Represented(source, session, move) => IsStore(StyleOverlay(source, session, move))
<1> DEFINE S == Targets(source, move)
<1>1. S \in SUBSET Positions /\ \A q \in S : IsRecord(source.cells[Origin(q, move)])
  BY TargetsStay
<1>2. IsStore(CellOverlay(source, move))
  <2> DEFINE c == CellOverlay(source, move)
  <2>1. c = [q \in S |-> Translated(source.cells[Origin(q, move)], move)] BY DEF CellOverlay
  <2>2. c = [q \in S |-> c[q]] BY <2>1
  <2>3. \A q \in S : IsRecord(c[q]) BY <1>1, <2>1, TranslatedRecord
  <2> HIDE DEF c, S
  <2>4. IsStore(c) BY <1>1, <2>2, <2>3, StoreGiven
  <2> QED BY <2>4 DEF c
<1>3. IsStore(ValueOverlay(source, session, move))
  <2> DEFINE c == ValueOverlay(source, session, move)
  <2>1. c = [q \in S |-> Styled(Translated(source.cells[Origin(q, move)], move),
                                StyleAt(session.cells, q))]
    BY DEF ValueOverlay
  <2>2. c = [q \in S |-> c[q]] BY <2>1
  <2>3. \A q \in S : IsRecord(c[q]) BY <1>1, <2>1, TranslatedRecord, StyledRecord
  <2> HIDE DEF c, S
  <2>4. IsStore(c) BY <1>1, <2>2, <2>3, StoreGiven
  <2> QED BY <2>4 DEF c
<1>4. ASSUME Represented(source, session, move)
      PROVE  IsStore(StyleOverlay(source, session, move))
  <2> DEFINE c == StyleOverlay(source, session, move)
  <2>1. c = [q \in S |-> Styled(session.cells[q], StyleAt(source.cells, Origin(q, move)))]
    BY DEF StyleOverlay
  <2>2. c = [q \in S |-> c[q]] BY <2>1
  <2>3. \A q \in S : IsRecord(session.cells[q]) BY <1>4 DEF Represented, IsStore
  <2>4. \A q \in S : IsRecord(c[q]) BY <2>1, <2>3, StyledRecord
  <2> HIDE DEF c, S
  <2>5. IsStore(c) BY <1>1, <2>2, <2>4, StoreGiven
  <2> QED BY <2>5 DEF c
<1> QED BY <1>2, <1>3, <1>4

LEMMA SourcesAreStores ==
    ASSUME NEW move, NEW source, IsStore(source.cells)
    PROVE  /\ IsStore(Emptied(source, move))
           /\ IsStore(Unstyled(source, move))
           /\ IsStore(Remaining(source, move))
<1> DEFINE S == Within(source.cells, move.range)
<1>1. S \in SUBSET Positions /\ S \in SUBSET DOMAIN source.cells
      /\ \A p \in S : IsRecord(source.cells[p])
  BY DEF Within, IsStore
<1>2. IsStore(Emptied(source, move))
  <2> DEFINE c == Emptied(source, move)
  <2>1. c = [p \in S |-> Styled(Blank, StyleAt(source.cells, p))] BY DEF Emptied
  <2>2. c = [p \in S |-> c[p]] BY <2>1
  <2>3. \A p \in S : IsRecord(c[p]) BY <2>1, WrittenRecords, StyledRecord
  <2> HIDE DEF c, S
  <2>4. IsStore(c) BY <1>1, <2>2, <2>3, StoreGiven
  <2> QED BY <2>4 DEF c
<1>3. IsStore(Unstyled(source, move))
  <2> DEFINE c == Unstyled(source, move)
  <2>1. c = [p \in S |-> Styled(source.cells[p], NoStyle)] BY DEF Unstyled
  <2>2. c = [p \in S |-> c[p]] BY <2>1
  <2>3. \A p \in S : IsRecord(c[p]) BY <1>1, <2>1, StyledRecord
  <2> HIDE DEF c, S
  <2>4. IsStore(c) BY <1>1, <2>2, <2>3, StoreGiven
  <2> QED BY <2>4 DEF c
<1>4. IsStore(Remaining(source, move))
  <2> DEFINE T == DOMAIN source.cells \ S
  <2>1. T \in SUBSET DOMAIN source.cells OBVIOUS
  <2> HIDE DEF T
  <2>2. IsStore(Restrict(source.cells, T)) BY <2>1, StoreRestricted
  <2> QED BY <2>2 DEF Remaining, T
<1> QED BY <1>2, <1>3, <1>4

\* The transfers that leave their source as it is.
LEMMA CopiesHold ==
    ASSUME NEW move, IsMove(move), NEW source, IsStore(source.cells),
           NEW session, Guarded(session.cells), NEW own
    PROVE  /\ Holds(CellsCopied(source, session, move, own))
           /\ Holds(ValuesCopied(source, session, move, own))
           /\ Holds(StylesCopied(source, session, move, own))
<1> DEFINE cells == session.cells
<1>1. IsStore(cells) /\ Holds(session)
  BY DEF Guarded, Holds
<1>2. Holds(Refused)
  BY DEF Holds
<1>3. Holds(CellsCopied(source, session, move, own))
  <2> DEFINE overlay == CellOverlay(source, move)
  <2>1. IsStore(overlay) BY <1>1, OverlaysAreStores
  <2>2. CellsCopied(source, session, move, own)
          = IF NothingToDo(source, move, own) THEN session ELSE RecordsReplaced(overlay ++ cells)
    BY DEF CellsCopied
  <2> HIDE DEF overlay, cells
  <2>3. Holds(RecordsReplaced(overlay ++ cells)) BY <1>1, <2>1, OverlaidHolds
  <2> QED BY <1>1, <2>2, <2>3, Zenon
<1>4. Holds(ValuesCopied(source, session, move, own))
  <2> DEFINE overlay == ValueOverlay(source, session, move)
  <2>1. IsStore(overlay) BY <1>1, OverlaysAreStores
  <2>2. ValuesCopied(source, session, move, own)
          = IF NothingToDo(source, move, own) THEN session ELSE RecordsReplaced(overlay ++ cells)
    BY DEF ValuesCopied
  <2> HIDE DEF overlay, cells
  <2>3. Holds(RecordsReplaced(overlay ++ cells)) BY <1>1, <2>1, OverlaidHolds
  <2> QED BY <1>1, <2>2, <2>3, Zenon
<1>5. Holds(StylesCopied(source, session, move, own))
  <2> DEFINE overlay == StyleOverlay(source, session, move)
             next == overlay ++ cells
  <2>1. Represented(source, session, move) => IsStore(overlay) BY <1>1, OverlaysAreStores
  <2>2. StylesCopied(source, session, move, own)
          = IF NothingToDo(source, move, own) THEN session
            ELSE IF ~Represented(source, session, move) THEN Refused
            ELSE IF next = cells THEN session ELSE RecordsReplaced(next)
    BY DEF StylesCopied
  <2> HIDE DEF overlay, cells
  <2>3. Represented(source, session, move) => Holds(RecordsReplaced(next))
    BY <1>1, <2>1, OverlaidHolds
  <2> HIDE DEF next
  <2> QED BY <1>1, <1>2, <2>2, <2>3, Zenon
<1> QED BY <1>3, <1>4, <1>5

\* The moves within a sheet.
LEMMA MovesHold ==
    ASSUME NEW move, IsMove(move), NEW session, Guarded(session.cells)
    PROVE  /\ Holds(CellsMoved(session, move))
           /\ Holds(ValuesMoved(session, move))
           /\ Holds(StylesMoved(session, move))
<1> DEFINE cells == session.cells
<1>1. IsStore(cells) /\ Holds(session)
  BY DEF Guarded, Holds
<1>2. Holds(Refused)
  BY DEF Holds
<1>3. Holds(CellsMoved(session, move))
  <2> DEFINE overlay == CellOverlay(session, move)
             rest == Remaining(session, move)
  <2>1. IsStore(overlay) /\ IsStore(rest) BY <1>1, OverlaysAreStores, SourcesAreStores
  <2>2. CellsMoved(session, move)
          = IF NothingToDo(session, move, TRUE) THEN session ELSE RecordsReplaced(overlay ++ rest)
    BY DEF CellsMoved
  <2> HIDE DEF overlay, rest
  <2>3. Holds(RecordsReplaced(overlay ++ rest)) BY <2>1, OverlaidHolds
  <2> QED BY <1>1, <2>2, <2>3, Zenon
<1>4. Holds(ValuesMoved(session, move))
  <2> DEFINE overlay == ValueOverlay(session, session, move)
             emptied == Emptied(session, move)
             both == overlay ++ emptied
  <2>1. IsStore(overlay) /\ IsStore(emptied) BY <1>1, OverlaysAreStores, SourcesAreStores
  <2>2. ValuesMoved(session, move)
          = IF NothingToDo(session, move, TRUE) THEN session ELSE RecordsReplaced(both ++ cells)
    BY DEF ValuesMoved
  <2> HIDE DEF overlay, emptied
  <2>3. IsStore(both) BY <2>1, StoreOverlaid
  <2> HIDE DEF both, cells
  <2>4. Holds(RecordsReplaced(both ++ cells)) BY <1>1, <2>3, OverlaidHolds
  <2> QED BY <1>1, <2>2, <2>4, Zenon
<1>5. Holds(StylesMoved(session, move))
  <2> DEFINE blank == Unstyled(session, move)
             unstyled == blank ++ cells
             S == Targets(session, move)
             overlay == [q \in S |->
                            Styled(unstyled[q], StyleAt(cells, Origin(q, move)))]
             next == overlay ++ unstyled
  <2>1. IsStore(blank) /\ S \in SUBSET Positions BY <1>1, TargetsStay, SourcesAreStores
  <2>2. StylesMoved(session, move)
          = IF NothingToDo(session, move, TRUE) THEN session
            ELSE IF ~Represented(session, session, move) THEN Refused
            ELSE IF next = cells THEN session ELSE RecordsReplaced(next)
    BY DEF StylesMoved
  <2> HIDE DEF blank
  <2>3. IsStore(unstyled) /\ DOMAIN unstyled = DOMAIN blank \cup DOMAIN cells
    <3> HIDE DEF cells
    <3>1. IsStore(blank ++ cells) /\ DOMAIN (blank ++ cells) = DOMAIN blank \cup DOMAIN cells
      BY <1>1, <2>1, StoreOverlaid
    <3> QED BY <3>1
  <2> HIDE DEF unstyled
  <2>4. ASSUME Represented(session, session, move) PROVE IsStore(overlay)
    <3>1. \A q \in S : IsRecord(unstyled[q]) BY <2>3, <2>4 DEF Represented, IsStore
    <3>2. \A q \in S : IsRecord(overlay[q]) BY <3>1, StyledRecord
    <3>3. overlay = [q \in S |-> overlay[q]] OBVIOUS
    <3> HIDE DEF overlay, S
    <3> QED BY <2>1, <3>2, <3>3, StoreGiven
  <2> HIDE DEF overlay, cells
  <2>5. Represented(session, session, move) => Holds(RecordsReplaced(next))
    BY <2>3, <2>4, OverlaidHolds
  <2> HIDE DEF next
  <2> QED BY <1>1, <1>2, <2>2, <2>5, Zenon
<1> QED BY <1>3, <1>4, <1>5

\* The moves between two sheets leave both guarded.
LEMMA MovesBetweenHold ==
    ASSUME NEW move, IsMove(move), NEW source, Guarded(source.cells),
           NEW session, Guarded(session.cells)
    PROVE  \A both \in {CellsMovedBetween(source, session, move),
                        ValuesMovedBetween(source, session, move),
                        StylesMovedBetween(source, session, move)} :
               both # Refused => Guarded(both.source.cells) /\ Guarded(both.session.cells)
<1> DEFINE Fine(both) ==
               both # Refused => Guarded(both.source.cells) /\ Guarded(both.session.cells)
<1>1. IsStore(source.cells) /\ IsStore(session.cells) /\ Holds(source) /\ Holds(session)
  BY DEF Guarded, Holds
<1>2. ASSUME NEW x, Holds(x), NEW y, Holds(y) PROVE Fine(Both(x, y))
  <2>1. CASE Refused \in {x, y} BY <2>1 DEF Both
  <2>2. CASE Refused \notin {x, y}
    <3>1. Both(x, y).source = x /\ Both(x, y).session = y BY <2>2 DEF Both
    <3> QED BY <1>2, <2>2, <3>1 DEF Holds
  <2> QED BY <2>1, <2>2
<1>3. Fine(Refused)
  OBVIOUS
<1> HIDE DEF Fine
<1>4. Fine(CellsMovedBetween(source, session, move))
  <2> DEFINE overlay == CellOverlay(source, move)
             x == RecordsReplaced(Remaining(source, move))
             y == RecordsReplaced(overlay ++ session.cells)
  <2>1. IsStore(overlay) /\ Holds(x)
    BY <1>1, OverlaysAreStores, SourcesAreStores, ReplacedHolds
  <2>2. CellsMovedBetween(source, session, move)
          = IF NothingToDo(source, move, FALSE) THEN Both(source, session) ELSE Both(x, y)
    BY DEF CellsMovedBetween
  <2> HIDE DEF overlay, x
  <2>3. Holds(y) BY <1>1, <2>1, OverlaidHolds
  <2> HIDE DEF y
  <2>4. Fine(Both(x, y)) /\ Fine(Both(source, session)) BY <1>1, <1>2, <2>1, <2>3
  <2> QED BY <2>2, <2>4, Zenon
<1>5. Fine(ValuesMovedBetween(source, session, move))
  <2> DEFINE overlay == ValueOverlay(source, session, move)
             emptied == Emptied(source, move)
             x == RecordsReplaced(emptied ++ source.cells)
             y == RecordsReplaced(overlay ++ session.cells)
  <2>1. IsStore(overlay) /\ IsStore(emptied)
    BY <1>1, OverlaysAreStores, SourcesAreStores
  <2>2. ValuesMovedBetween(source, session, move)
          = IF NothingToDo(source, move, FALSE) THEN Both(source, session) ELSE Both(x, y)
    BY DEF ValuesMovedBetween
  <2> HIDE DEF overlay, emptied
  <2>3. Holds(x) BY <1>1, <2>1, OverlaidHolds
  <2>4. Holds(y) BY <1>1, <2>1, OverlaidHolds
  <2> HIDE DEF x, y
  <2>5. Fine(Both(x, y)) /\ Fine(Both(source, session)) BY <1>1, <1>2, <2>3, <2>4
  <2> QED BY <2>2, <2>5, Zenon
<1>6. Fine(StylesMovedBetween(source, session, move))
  <2> DEFINE overlay == StyleOverlay(source, session, move)
             unstyled == Unstyled(source, move)
             a == unstyled ++ source.cells
             b == overlay ++ session.cells
             x == IF a = source.cells THEN source ELSE RecordsReplaced(a)
             y == IF b = session.cells THEN session ELSE RecordsReplaced(b)
  <2>1. IsStore(unstyled) BY <1>1, SourcesAreStores
  <2>2. Represented(source, session, move) => IsStore(overlay) BY <1>1, OverlaysAreStores
  <2>3. StylesMovedBetween(source, session, move)
          = IF ~Represented(source, session, move) THEN Refused ELSE Both(x, y)
    BY DEF StylesMovedBetween
  <2> HIDE DEF overlay, unstyled
  <2>4. Holds(RecordsReplaced(a)) BY <1>1, <2>1, OverlaidHolds
  <2>5. Represented(source, session, move) => Holds(RecordsReplaced(b))
    BY <1>1, <2>2, OverlaidHolds
  <2> HIDE DEF a, b
  <2>6. Holds(x) BY <1>1, <2>4
  <2>7. Represented(source, session, move) => Holds(y) BY <1>1, <2>5
  <2> HIDE DEF x, y
  <2>8. Represented(source, session, move) => Fine(Both(x, y)) BY <1>2, <2>6, <2>7
  <2> QED BY <1>3, <2>3, <2>8, Zenon
<1> QED BY <1>4, <1>5, <1>6 DEF Fine

\* The move that the single-cell forms make.
CellMove(from, to) == [range |-> [first |-> from, last |-> from], to |-> to]

LEMMA CellMoveIs ==
    ASSUME NEW from \in Positions, NEW to \in Positions
    PROVE  /\ IsMove(CellMove(from, to)) /\ Target(from, CellMove(from, to)) = to
           /\ \A p \in Positions : Inside(p, CellMove(from, to).range) <=> p = from
<1> DEFINE move == CellMove(from, to)
<1>1. move.range.first = from /\ move.range.last = from /\ move.to = to
  BY DEF CellMove
<1>2. /\ from = <<from[1], from[2]>> /\ from[1] \in Int /\ from[2] \in Int
      /\ to = <<to[1], to[2]>> /\ to[1] \in 1..MaxRow /\ to[2] \in 1..MaxColumn
  BY DEF Positions
<1>3. to[1] + (from[1] - from[1]) <= MaxRow /\ to[2] + (from[2] - from[2]) <= MaxColumn
  BY <1>2, GridAssumption
<1>4. from[1] + (to[1] - from[1]) = to[1] /\ from[2] + (to[2] - from[2]) = to[2]
  BY <1>2
<1> HIDE DEF move
<1>5. IsMove(move)
  BY <1>1, <1>3 DEF IsMove, ValidMove
<1>6. Target(from, move) = to
  <2>1. Target(from, move) = <<from[1] + (to[1] - from[1]), from[2] + (to[2] - from[2])>>
    BY <1>1 DEF Target, Delta
  <2> QED BY <1>2, <1>4, <2>1, Zenon
<1>7. ASSUME NEW p \in Positions PROVE Inside(p, move.range) <=> p = from
  <2>1. p = <<p[1], p[2]>> /\ p[1] \in Int /\ p[2] \in Int BY DEF Positions
  <2>2. Inside(p, move.range) <=> p[1] \in from[1]..from[1] /\ p[2] \in from[2]..from[2]
    BY <1>1 DEF Inside
  <2>3. Inside(p, move.range) <=> p[1] = from[1] /\ p[2] = from[2]
    BY <1>2, <2>1, <2>2
  <2> QED BY <1>2, <2>1, <2>3, Zenon
<1> QED BY <1>5, <1>6, <1>7 DEF move

LEMMA StylesHold ==
    ASSUME NEW session, Guarded(session.cells), NEW from \in Positions, NEW to \in Positions,
           NEW range
    PROVE  /\ Holds(CellStyleCopied(session, from, to))
           /\ Holds(CellStyleMoved(session, from, to))
           /\ Holds(CellStyleCleared(session, from))
           /\ Holds(StylesCleared(session, range))
<1> DEFINE cells == session.cells
<1>1. IsStore(cells) /\ Holds(session) /\ Holds(Refused)
  BY DEF Guarded, Holds
<1>2. Holds(CellStyleCopied(session, from, to))
  <2> DEFINE next == CellSet(session, to, Styled(cells[to], StyleAt(cells, from)))
  <2>1. to \in DOMAIN cells => Holds(next)
    <3>1. to \in DOMAIN cells => IsRecord(Styled(cells[to], StyleAt(cells, from)))
      BY <1>1, StyledRecord DEF IsStore
    <3> QED BY <1>1, <3>1, CellSetHolds
  <2>2. CellStyleCopied(session, from, to)
          = IF ~({from, to} \subseteq DOMAIN cells) THEN Refused
            ELSE IF StyleAt(cells, from) = StyleAt(cells, to) THEN session
            ELSE next
    BY DEF CellStyleCopied
  <2> HIDE DEF next, cells
  <2> QED BY <1>1, <2>1, <2>2, Zenon
<1>3. Holds(CellStyleMoved(session, from, to))
  <2> DEFINE move == CellMove(from, to)
  <2>4. CellStyleMoved(session, from, to)
          = IF {from, to} \subseteq DOMAIN session.cells THEN StylesMoved(session, move)
            ELSE Refused
    BY DEF CellStyleMoved, CellMove
  <2> HIDE DEF move
  <2>5. IsMove(move) BY CellMoveIs DEF move
  <2>6. Holds(StylesMoved(session, move)) BY <2>5, MovesHold
  <2> QED BY <1>1, <2>4, <2>6, Zenon
<1>4. Holds(CellStyleCleared(session, from))
  <2> DEFINE next == CellSet(session, from, Styled(cells[from], NoStyle))
  <2>1. from \in DOMAIN cells => Holds(next)
    <3>1. from \in DOMAIN cells => IsRecord(Styled(cells[from], NoStyle))
      BY <1>1, StyledRecord DEF IsStore
    <3> QED BY <1>1, <3>1, CellSetHolds
  <2>2. from \notin DOMAIN cells => StyleAt(cells, from) = NoStyle
    BY DEF StyleAt
  <2>3. CellStyleCleared(session, from)
          = IF StyleAt(cells, from) = NoStyle THEN session ELSE next
    BY DEF CellStyleCleared
  <2> HIDE DEF next, cells
  <2> QED BY <1>1, <2>1, <2>2, <2>3, Zenon
<1>5. Holds(StylesCleared(session, range))
  <2> DEFINE S == {p \in Within(cells, range) : cells[p].style # NoStyle}
             overlay == [p \in S |-> Styled(cells[p], NoStyle)]
  <2>1. S \in SUBSET Positions /\ \A p \in S : IsRecord(cells[p])
    BY <1>1 DEF Within, IsStore
  <2>2. StylesCleared(session, range)
          = IF S = {} THEN session ELSE RecordsReplaced(overlay ++ cells)
    BY DEF StylesCleared
  <2>3. overlay = [p \in S |-> overlay[p]] /\ \A p \in S : overlay[p] = Styled(cells[p], NoStyle)
    OBVIOUS
  <2> HIDE DEF overlay, S, cells
  <2>4. \A p \in S : IsRecord(overlay[p]) BY <2>1, <2>3, StyledRecord
  <2>5. IsStore(overlay) BY <2>1, <2>3, <2>4, StoreGiven
  <2>6. Holds(RecordsReplaced(overlay ++ cells)) BY <1>1, <2>5, OverlaidHolds
  <2> QED BY <1>1, <2>2, <2>6, Zenon
<1> QED BY <1>2, <1>3, <1>4, <1>5

(***************************************************************************)
(* The saved dimension                                                     *)
(***************************************************************************)
LEMMA DimensionFits ==
    ASSUME NEW cells, IsStore(cells)
    PROVE  LET box == Dimension(cells)
           IN  /\ \A p \in DOMAIN cells : Inside(p, box)
               /\ cells # << >> =>
                      \A i \in {1, 2} : {box.first[i], box.last[i]}
                                           \subseteq {p[i] : p \in DOMAIN cells}
<1> DEFINE rows == {p[1] : p \in DOMAIN cells}
           columns == {p[2] : p \in DOMAIN cells}
           box == Dimension(cells)
<1>1. IsFiniteSet(DOMAIN cells) /\ \A p \in DOMAIN cells : p[1] \in Int /\ p[2] \in Int
  <2>1. \A p \in Positions : p[1] \in Int /\ p[2] \in Int
    BY GridAssumption DEF Positions
  <2> QED BY <2>1, StoreWeighs DEF IsStore
<1>2. IsFiniteSet(rows) /\ rows \in SUBSET Int /\ IsFiniteSet(columns) /\ columns \in SUBSET Int
  <2>1. IsFiniteSet(rows)
    <3> DEFINE f == [p \in DOMAIN cells |-> p[1]]
    <3>1. f \in Surjection(DOMAIN cells, rows) BY DEF Surjection
    <3> QED BY <1>1, <3>1, FS_Surjection
  <2>2. IsFiniteSet(columns)
    <3> DEFINE f == [p \in DOMAIN cells |-> p[2]]
    <3>1. f \in Surjection(DOMAIN cells, columns) BY DEF Surjection
    <3> QED BY <1>1, <3>1, FS_Surjection
  <2> QED BY <1>1, <2>1, <2>2
<1>3. CASE cells = << >>
  <2>1. DOMAIN cells = {} BY <1>3
  <2> QED BY <1>3, <2>1
<1>4. CASE cells # << >>
  <2>1. DOMAIN cells # {}
    <3>1. DOMAIN cells = {} => cells = << >>
      BY DEF IsStore
    <3> QED BY <1>4, <3>1
  <2>2. rows # {} /\ columns # {} /\ rows \in SUBSET rows /\ columns \in SUBSET columns
    BY <2>1
  <2>3. box.first[1] = Min(rows) /\ box.first[2] = Min(columns)
        /\ box.last[1] = Max(rows) /\ box.last[2] = Max(columns)
    BY <1>4 DEF Dimension
  <2>4. \A p \in DOMAIN cells : p[1] \in rows /\ p[2] \in columns
    OBVIOUS
  <2> HIDE DEF rows, columns, box
  <2>5. Min(rows) \in rows /\ \A y \in rows : Min(rows) <= y BY <1>2, <2>2, MinProperty
  <2>6. Max(rows) \in rows /\ \A y \in rows : Max(rows) >= y BY <1>2, <2>2, MaxProperty
  <2>7. Min(columns) \in columns /\ \A y \in columns : Min(columns) <= y
    BY <1>2, <2>2, MinProperty
  <2>8. Max(columns) \in columns /\ \A y \in columns : Max(columns) >= y
    BY <1>2, <2>2, MaxProperty
  <2>9. ASSUME NEW p \in DOMAIN cells PROVE Inside(p, box)
    <3>1. p[1] \in rows /\ p[2] \in columns BY <2>4
    <3>2. p[1] \in Int /\ p[2] \in Int BY <1>1
    <3>3. Min(rows) \in Int /\ Max(rows) \in Int /\ Min(columns) \in Int /\ Max(columns) \in Int
      BY <1>2, <2>5, <2>6, <2>7, <2>8
    <3>4. p[1] \in Min(rows)..Max(rows) BY <2>5, <2>6, <3>1, <3>2, <3>3
    <3>5. p[2] \in Min(columns)..Max(columns) BY <2>7, <2>8, <3>1, <3>2, <3>3
    <3> QED BY <2>3, <3>4, <3>5 DEF Inside
  <2>10. \A i \in {1, 2} : {box.first[i], box.last[i]} \subseteq {p[i] : p \in DOMAIN cells}
    <3>1. {box.first[1], box.last[1]} \subseteq {p[1] : p \in DOMAIN cells}
      BY <2>3, <2>5, <2>6 DEF rows
    <3>2. {box.first[2], box.last[2]} \subseteq {p[2] : p \in DOMAIN cells}
      BY <2>3, <2>7, <2>8 DEF columns
    <3> QED BY <3>1, <3>2
  <2> QED BY <2>9, <2>10 DEF box
<1> QED BY <1>3, <1>4

(***************************************************************************)
(* The shared strings: the texts of the items are sequences                *)
(***************************************************************************)
IsTable(table) ==
    /\ {"item", "items"} \subseteq DOMAIN table
    /\ "text" \in DOMAIN table.item /\ IsSequence(table.item.text)
    /\ IsSequence(table.items)
    /\ \A i \in 1..Len(table.items) : IsSequence(table.items[i].text)

LEMMA TableStarts == IsTable(NoTable)
<1>1. NoTable.items = << >> /\ NoTable.item = NoItem /\ {"item", "items"} \subseteq DOMAIN NoTable
  BY DEF NoTable
<1>2. NoItem.text = << >> /\ "text" \in DOMAIN NoItem
  BY DEF NoItem
<1>3. Len(<< >>) = 0
  OBVIOUS
<1> QED BY <1>1, <1>2, <1>3, ShortSequences DEF IsTable

LEMMA FinishedItem ==
    ASSUME NEW table, IsTable(table)
    PROVE  IsTable(ItemFinished(table))
<1> DEFINE next == ItemFinished(table)
<1>1. next.items = Append(table.items, table.item) /\ next.item = NoItem
      /\ {"item", "items"} \subseteq DOMAIN next
  BY DEF ItemFinished, IsTable
<1>2. NoItem.text = << >> /\ "text" \in DOMAIN NoItem
  BY DEF NoItem
<1> HIDE DEF next
<1>3. /\ IsSequence(next.items) /\ Len(next.items) = Len(table.items) + 1
      /\ \A i \in 1..Len(table.items) : next.items[i] = table.items[i]
      /\ next.items[Len(table.items) + 1] = table.item
  BY <1>1, AppendedSequence DEF IsTable
<1>4. Len(table.items) \in Nat
  BY DEF IsTable, IsSequence
<1>5. ASSUME NEW i \in 1..Len(next.items) PROVE IsSequence(next.items[i].text)
  <2>1. CASE i = Len(table.items) + 1 BY <1>3, <2>1 DEF IsTable
  <2>2. CASE i # Len(table.items) + 1
    <3>1. i \in 1..Len(table.items) BY <1>3, <1>4, <2>2
    <3> QED BY <1>3, <3>1 DEF IsTable
  <2> QED BY <2>1, <2>2
<1>6. IsTable(next)
  BY <1>1, <1>2, <1>3, <1>5, ShortSequences DEF IsTable
<1> QED BY <1>6 DEF next

\* What is neither the item's text nor the items may be anything.
LEMMA TableAside ==
    ASSUME NEW table, IsTable(table), NEW next, DOMAIN next = DOMAIN table,
           next.items = table.items,
           DOMAIN next.item = DOMAIN table.item, next.item.text = table.item.text
    PROVE  IsTable(next)
BY DEF IsTable

LEMMA TableStep ==
    ASSUME NEW table, IsTable(table), NEW piece, IsSequence(piece.text)
    PROVE  IsTable(InTable(table, piece))
<1>1. IsTable([table EXCEPT !.prolog = @ \/ ~table.root])
  BY TableAside DEF IsTable
<1>2. IsTable([table EXCEPT !.declared = TRUE])
  BY TableAside DEF IsTable
<1>3. IsTable([table EXCEPT !.item.text = @ \o piece.text])
  <2> DEFINE next == [table EXCEPT !.item.text = @ \o piece.text]
             text == table.item.text \o piece.text
  <2>1. next.items = table.items /\ DOMAIN next = DOMAIN table
        /\ DOMAIN next.item = DOMAIN table.item /\ next.item.text = text
    BY DEF IsTable
  <2>2. IsSequence(text) BY JoinedSequence DEF IsTable
  <2> HIDE DEF next, text
  <2>3. IsTable(next) BY <2>1, <2>2 DEF IsTable
  <2> QED BY <2>3 DEF next
<1>4. IsTable(LET next == [table EXCEPT !.stack = Stacked(@, piece)]
              IN  IF piece.name = "si" THEN ItemFinished(next) ELSE next)
  <2> DEFINE next == [table EXCEPT !.stack = Stacked(@, piece)]
  <2>1. IsTable(next) BY TableAside DEF IsTable
  <2> HIDE DEF next
  <2>2. IsTable(ItemFinished(next)) BY <2>1, FinishedItem
  <2> QED BY <2>1, <2>2 DEF next
<1>5. IsTable(AfterItemElement(table, piece))
  <2> DEFINE saw == SeenInItem(table, piece.name)
             next == [table EXCEPT !.root = TRUE, !.stack = Stacked(@, piece),
                                   !.item.saw = @ \cup saw]
  <2>1. DOMAIN next = DOMAIN table /\ next.items = table.items
        /\ DOMAIN next.item = DOMAIN table.item /\ next.item.text = table.item.text
    BY DEF IsTable
  <2>2. AfterItemElement(table, piece)
          = IF piece.name = "si" /\ piece.form = "self" THEN ItemFinished(next) ELSE next
    BY DEF AfterItemElement
  <2> HIDE DEF next
  <2>3. IsTable(next) BY <2>1, TableAside
  <2>4. IsTable(ItemFinished(next)) BY <2>3, FinishedItem
  <2> QED BY <2>2, <2>3, <2>4
<1> QED BY <1>1, <1>2, <1>3, <1>4, <1>5 DEF InTable

TableStepped(part, f, i) ==
    IF i = 0 THEN NoTable
    ELSE IF f[i - 1] = Refused THEN Refused
    ELSE IF RefusesInTable(f[i - 1], part[i]) THEN Refused
    ELSE InTable(f[i - 1], part[i])

TablesFrom(part, f, m) ==
    /\ f = [i \in 0..m |-> f[i]]
    /\ \A i \in 0..m : f[i] = TableStepped(part, f, i)

LEMMA TablesExist ==
    ASSUME NEW part, NEW N \in Nat
    PROVE  \E f : TablesFrom(part, f, N)
<1> DEFINE Fits(f, m) == TablesFrom(part, f, m)
           Good == {m \in 0..N : \E f : Fits(f, m)}
<1>1. 0 \in Good
  <2> DEFINE f == [i \in 0..0 |-> NoTable]
  <2>1. f = [i \in 0..0 |-> f[i]] /\ f[0] = NoTable OBVIOUS
  <2>2. Fits(f, 0)
    <3> HIDE DEF f
    <3> QED BY <2>1 DEF TablesFrom, TableStepped
  <2> HIDE DEF f, Fits
  <2> QED BY <2>2
<1>2. ASSUME NEW m \in 0..N - 1, m \in Good PROVE m + 1 \in Good
  <2>1. PICK f : Fits(f, m) BY <1>2
  <2> DEFINE k == m + 1
             last == TableStepped(part, f, k)
             g == [i \in 0..k |-> IF i = k THEN last ELSE f[i]]
  <2>2. k \in Int /\ k # 0 /\ k - 1 \in 0..m /\ k - 1 # k /\ k \in 0..N OBVIOUS
  <2>3. g = [i \in 0..k |-> g[i]] OBVIOUS
  <2>4. ASSUME NEW i \in 0..k PROVE g[i] = TableStepped(part, g, i)
    <3> HIDE DEF last
    <3>1. CASE i = k
      <4>1. g[k] = last /\ g[k - 1] = f[k - 1] OBVIOUS
      <4> HIDE DEF g, k
      <4> QED BY <3>1, <4>1, <2>2 DEF TableStepped, last
    <3>2. CASE i # k /\ i # 0
      <4>1. g[i] = f[i] /\ g[i - 1] = f[i - 1] /\ i \in 0..m BY <3>2
      <4>2. f[i] = TableStepped(part, f, i) BY <2>1, <4>1 DEF TablesFrom
      <4> HIDE DEF g, k
      <4> QED BY <3>2, <4>1, <4>2 DEF TableStepped
    <3>3. CASE i = 0
      <4>1. g[0] = f[0] /\ 0 \in 0..m OBVIOUS
      <4>2. f[0] = TableStepped(part, f, 0) BY <2>1, <4>1 DEF TablesFrom
      <4> HIDE DEF g, k
      <4> QED BY <3>3, <4>1, <4>2 DEF TableStepped
    <3> QED BY <3>1, <3>2, <3>3
  <2>5. Fits(g, k)
    <3> HIDE DEF g, k
    <3> QED BY <2>3, <2>4 DEF TablesFrom
  <2> HIDE DEF g, Fits
  <2> QED BY <2>2, <2>5
<1> HIDE DEF Fits
<1>3. N \in Good
  <2> HIDE DEF Good
  <2>1. Good \in SUBSET (0..N) BY DEF Good
  <2>2. Good = 0..N BY <1>1, <1>2, <2>1, UpToBound
  <2> QED BY <2>2
<1> QED BY <1>3 DEF Fits

\* The items that a table of shared strings gives, if it is not refused.
AreItems(items) ==
    IsSequence(items) /\ \A i \in 1..Len(items) : IsSequence(items[i].text)

LEMMA ItemsType ==
    ASSUME NEW part, IsPart(part)
    PROVE  SharedStringItems(part) = Refused \/ AreItems(SharedStringItems(part))
<1> DEFINE N == Len(part)
           Eq(f) == f = [i \in 0..Len(part) |->
                            IF i = 0 THEN NoTable
                            ELSE LET table == f[i - 1]
                                 IN  IF table = Refused THEN Refused
                                     ELSE IF RefusesInTable(table, part[i]) THEN Refused
                                     ELSE InTable(table, part[i])]
           after == CHOOSE f : Eq(f)
           table == after[N]
<1>1. N \in Nat /\ DOMAIN part = 1..N
  BY SequenceDomain DEF IsPart
<1>2. SharedStringItems(part)
        = IF table = Refused THEN Refused
          ELSE IF ~table.root \/ table.stack # << >> THEN Refused
          ELSE table.items
  BY DEF SharedStringItems
<1>3. \E f : Eq(f)
  <2>1. PICK f : TablesFrom(part, f, N) BY <1>1, TablesExist
  <2>2. Eq(f) BY <2>1 DEF TablesFrom, TableStepped
  <2> QED BY <2>2
<1>4. Eq(after)
  <2> HIDE DEF Eq
  <2> QED BY <1>3
<1> HIDE DEF after
<1>5. \A i \in 0..N : after[i] = TableStepped(part, after, i)
  BY <1>4 DEF TableStepped
<1> HIDE DEF Eq
<1> DEFINE Good == {m \in 0..N : after[m] = Refused \/ IsTable(after[m])}
<1>6. 0 \in Good
  <2>1. 0 \in 0..N BY <1>1
  <2>2. after[0] = NoTable BY <1>5, <2>1 DEF TableStepped
  <2> QED BY <2>1, <2>2, TableStarts
<1>7. ASSUME NEW m \in 0..N - 1, m \in Good PROVE m + 1 \in Good
  <2> DEFINE k == m + 1
  <2>1. k \in 1..N /\ k \in 0..N /\ k # 0 /\ k - 1 = m BY <1>1
  <2>2. IsSequence(part[k].text) BY <1>1, <2>1 DEF IsPart
  <2>3. after[m] = Refused \/ IsTable(after[m]) BY <1>7
  <2> HIDE DEF k
  <2>4. after[k] = TableStepped(part, after, k) BY <1>5, <2>1
  <2>5. after[k] = Refused \/ (after[m] # Refused /\ after[k] = InTable(after[m], part[k]))
    BY <2>1, <2>4 DEF TableStepped
  <2>6. after[k] = Refused \/ IsTable(after[k]) BY <2>2, <2>3, <2>5, TableStep
  <2> QED BY <2>1, <2>6 DEF k
<1>8. N \in Good
  <2> HIDE DEF Good
  <2>1. Good \in SUBSET (0..N) BY DEF Good
  <2>2. Good = 0..N BY <1>1, <1>6, <1>7, <2>1, UpToBound
  <2> QED BY <1>1, <2>2
<1>9. table = Refused \/ IsTable(table)
  BY <1>8
<1> HIDE DEF table
<1>10. IsTable(table) => AreItems(table.items)
  BY DEF IsTable, AreItems
<1> QED BY <1>2, <1>9, <1>10

(***************************************************************************)
(* Loading: a cell that is open stands on the sheet, and its text and      *)
(* formula have been read as sequences                                     *)
(***************************************************************************)
OpenCell(cell) ==
    /\ {"at", "formula", "scalar", "inline"} \subseteq DOMAIN cell
    /\ cell.at \in Positions
    /\ IsSequence(cell.formula) /\ IsSequence(cell.scalar) /\ IsSequence(cell.inline)

AreShared(shared) == \A si \in DOMAIN shared : IsSequence(shared[si].formula)

IsLoader(loader) ==
    /\ {"session", "cell", "shared"} \subseteq DOMAIN loader
    /\ Guarded(loader.session.cells)
    /\ AreShared(loader.shared)

\* A step is refused or leaves a loader, whose cell is open if it was.
Keeps(loader, next) ==
    \/ next = Refused
    \/ IsLoader(next) /\ (OpenCell(loader.cell) => OpenCell(next.cell))

LEMMA LoaderStarts == IsLoader(Loader)
<1>1. /\ Loader.session = Session(<< >>, FALSE) /\ Loader.shared = << >>
      /\ {"session", "cell", "shared"} \subseteq DOMAIN Loader
  BY DEF Loader
<1>2. Session(<< >>, FALSE).cells = << >>
  BY DEF Session
<1>3. Usage(<< >>) = 0 /\ Cardinality(DOMAIN << >>) = 0
  BY EmptyStore, WeightEmpty, FS_EmptySet DEF Usage
<1>4. Guarded(<< >>)
  BY <1>3, EmptyStore, GridAssumption DEF Guarded
<1>5. AreShared(<< >>)
  BY EmptyStore DEF AreShared
<1> QED BY <1>1, <1>2, <1>4, <1>5 DEF IsLoader

\* What is neither the session nor the cell nor the definitions may be anything.
LEMMA LoaderAside ==
    ASSUME NEW loader, IsLoader(loader), NEW next, DOMAIN next = DOMAIN loader,
           next.session = loader.session, next.shared = loader.shared
    PROVE  IsLoader(next)
BY DEF IsLoader

LEMMA RowBegunKeeps ==
    ASSUME NEW loader, IsLoader(loader), NEW piece
    PROVE  Keeps(loader, RowBegun(loader, piece))
<1> DEFINE row == IF piece.ref = NoRef THEN loader.lastRow ELSE piece.ref.row
           next == [loader EXCEPT !.row = piece.ref, !.lastRow = row]
<1>1. RowBegun(loader, piece) = IF RefusesRow(loader, piece) THEN Refused ELSE next
  BY DEF RowBegun
<1>2. DOMAIN next = DOMAIN loader /\ next.session = loader.session
      /\ next.shared = loader.shared /\ next.cell = loader.cell
  BY DEF IsLoader
<1> HIDE DEF next
<1>3. IsLoader(next)
  BY <1>2, LoaderAside
<1> QED BY <1>1, <1>2, <1>3 DEF Keeps

LEMMA CellBegunOpens ==
    ASSUME NEW loader, IsLoader(loader), NEW piece,
           Readable(piece.ref) => Spot(piece.ref) \in Positions
    PROVE  \/ CellBegun(loader, piece) = Refused
           \/ IsLoader(CellBegun(loader, piece)) /\ OpenCell(CellBegun(loader, piece).cell)
<1> DEFINE cell == [at |-> Spot(piece.ref), type |-> piece.type, style |-> piece.style,
                    element |-> "", scalar |-> << >>, inline |-> << >>,
                    formula |-> << >>, si |-> "", shared |-> FALSE,
                    runs |-> 0, properties |-> 0, ignored |-> << >>, ignoredText |-> 0,
                    saw |-> IF piece.other = "ph" THEN {"phonetic"} ELSE {}]
           next == [loader EXCEPT !.lastCell = Spot(piece.ref), !.cell = cell]
<1>1. CellBegun(loader, piece) = IF RefusesCell(loader, piece) THEN Refused ELSE next
  BY DEF CellBegun
<1>2. /\ {"at", "formula", "scalar", "inline"} \subseteq DOMAIN cell
      /\ cell.at = Spot(piece.ref) /\ cell.formula = << >> /\ cell.scalar = << >>
      /\ cell.inline = << >>
  OBVIOUS
<1> HIDE DEF cell
<1>3. ~RefusesCell(loader, piece) => OpenCell(cell)
  BY <1>2, ShortSequences DEF RefusesCell, OpenCell
<1>4. DOMAIN next = DOMAIN loader /\ next.session = loader.session
      /\ next.shared = loader.shared /\ next.cell = cell
  BY DEF IsLoader
<1> HIDE DEF next
<1>5. IsLoader(next)
  BY <1>4, LoaderAside
<1> QED BY <1>1, <1>3, <1>4, <1>5

\* Tags within a cell change none of the texts.
LEMMA CellAside ==
    ASSUME NEW cell, OpenCell(cell), NEW next, DOMAIN next = DOMAIN cell,
           next.at = cell.at, next.formula = cell.formula,
           next.scalar = cell.scalar, next.inline = cell.inline
    PROVE  OpenCell(next)
BY DEF OpenCell

LEMMA TagsKeepCell ==
    ASSUME NEW cell, OpenCell(cell), NEW piece
    PROVE  OpenCell(AfterValueTag(cell, piece)) /\ OpenCell(AfterMetadata(cell, piece))
<1>1. ASSUME NEW x PROVE OpenCell([cell EXCEPT !.ignoredText = x])
  BY CellAside DEF OpenCell
<1>2. ASSUME NEW x PROVE OpenCell([cell EXCEPT !.element = x])
  BY CellAside DEF OpenCell
<1>3. ASSUME NEW w, NEW x, NEW y, NEW z
      PROVE  OpenCell([cell EXCEPT !.element = w, !.saw = x, !.shared = y, !.si = z])
  <2> DEFINE next == [cell EXCEPT !.element = w, !.saw = x, !.shared = y, !.si = z]
  <2>1. DOMAIN next = DOMAIN cell /\ next.at = cell.at /\ next.formula = cell.formula
        /\ next.scalar = cell.scalar /\ next.inline = cell.inline
    BY DEF OpenCell
  <2> HIDE DEF next
  <2>2. OpenCell(next) BY <2>1, CellAside
  <2> QED BY <2>2 DEF next
<1>4. ASSUME NEW x PROVE OpenCell([cell EXCEPT !.ignored = x])
  BY CellAside DEF OpenCell
<1>5. ASSUME NEW x PROVE OpenCell([cell EXCEPT !.properties = x])
  BY CellAside DEF OpenCell
<1>6. ASSUME NEW x, NEW y PROVE OpenCell([cell EXCEPT !.ignored = x, !.saw = y])
  BY CellAside DEF OpenCell
<1>7. ASSUME NEW x, NEW y PROVE OpenCell([cell EXCEPT !.runs = x, !.saw = y])
  BY CellAside DEF OpenCell
<1>8. OpenCell(AfterValueTag(cell, piece))
  BY <1>1, <1>2, <1>3, Zenon DEF AfterValueTag
<1>9. OpenCell(AfterMetadata(cell, piece))
  BY <1>4, <1>5, <1>6, <1>7, Zenon DEF AfterMetadata
<1> QED BY <1>8, <1>9

LEMMA InCellKeeps ==
    ASSUME NEW loader, IsLoader(loader), NEW piece, OpenCell(loader.cell)
    PROVE  Keeps(loader, InCell(loader, piece))
<1>1. ASSUME NEW cell, OpenCell(cell) PROVE Keeps(loader, [loader EXCEPT !.cell = cell])
  <2> DEFINE next == [loader EXCEPT !.cell = cell]
  <2>1. DOMAIN next = DOMAIN loader /\ next.session = loader.session
        /\ next.shared = loader.shared /\ next.cell = cell
    BY DEF IsLoader
  <2> HIDE DEF next
  <2>2. IsLoader(next) BY <2>1, LoaderAside
  <2>3. Keeps(loader, next) BY <1>1, <2>1, <2>2 DEF Keeps
  <2> QED BY <2>3 DEF next
<1> DEFINE tagged == AfterValueTag(loader.cell, piece)
           read == AfterMetadata(loader.cell, piece)
<1>2. OpenCell(tagged) /\ OpenCell(read)
  BY TagsKeepCell
<1>3. InCell(loader, piece)
        = IF IsValueName(piece.name)
          THEN IF RefusesValueTag(loader.cell, piece) THEN Refused
               ELSE [loader EXCEPT !.cell = tagged]
          ELSE IF RefusesMetadata(loader.cell, piece) THEN Refused
          ELSE [loader EXCEPT !.cell = read]
  BY DEF InCell
<1> HIDE DEF tagged, read
<1>4. Keeps(loader, [loader EXCEPT !.cell = tagged]) /\ Keeps(loader, [loader EXCEPT !.cell = read])
  BY <1>1, <1>2
<1>5. Keeps(loader, Refused)
  BY DEF Keeps
<1> QED BY <1>3, <1>4, <1>5, Zenon

LEMMA TextReadKeeps ==
    ASSUME NEW loader, IsLoader(loader), NEW ctx, NEW piece, IsSequence(piece.text)
    PROVE  Keeps(loader, TextRead(loader, ctx, piece))
<1> DEFINE cell == loader.cell
           new == WithText(cell, piece.text)
           next == [loader EXCEPT !.cell = new]
<1>1. TextRead(loader, ctx, piece)
        = IF RefusesText(loader, ctx, piece) THEN Refused
          ELSE IF ctx.value = "" THEN loader
          ELSE IF Ignoring(cell) THEN loader
          ELSE next
  BY DEF TextRead
<1>2. OpenCell(cell) => OpenCell(new)
  <2> SUFFICES ASSUME OpenCell(cell) PROVE OpenCell(new)
    OBVIOUS
  <2> DEFINE f == cell.formula \o piece.text
             v == cell.scalar \o piece.text
             t == cell.inline \o piece.text
  <2>1. IsSequence(f) /\ IsSequence(v) /\ IsSequence(t)
    BY JoinedSequence DEF OpenCell
  <2>2. new = CASE cell.element = "f" -> [cell EXCEPT !.formula = f]
                [] cell.element = "v" -> [cell EXCEPT !.scalar = v]
                [] OTHER -> [cell EXCEPT !.inline = t]
    BY DEF WithText
  <2> HIDE DEF f, v, t, new, cell
  <2>3. OpenCell([cell EXCEPT !.formula = f]) /\ OpenCell([cell EXCEPT !.scalar = v])
        /\ OpenCell([cell EXCEPT !.inline = t])
    BY <2>1 DEF OpenCell
  <2> QED BY <2>2, <2>3
<1> HIDE DEF new
<1>3. DOMAIN next = DOMAIN loader /\ next.session = loader.session
      /\ next.shared = loader.shared /\ next.cell = new
  BY DEF IsLoader
<1> HIDE DEF next
<1>4. IsLoader(next)
  BY <1>3, LoaderAside
<1> QED BY <1>1, <1>2, <1>3, <1>4 DEF Keeps

LEMMA MetadataKeeps ==
    ASSUME NEW loader, IsLoader(loader), NEW piece
    PROVE  Keeps(loader, WorksheetMetadata(loader, piece))
<1> DEFINE depth == loader.depth + Level(piece)
           next == [loader EXCEPT !.depth = depth]
<1>1. WorksheetMetadata(loader, piece)
        = IF piece.form = "close" /\ loader.depth = 0 THEN Refused ELSE next
  BY DEF WorksheetMetadata
<1> HIDE DEF depth
<1>2. DOMAIN next = DOMAIN loader /\ next.session = loader.session
      /\ next.shared = loader.shared /\ next.cell = loader.cell
  BY DEF IsLoader
<1> HIDE DEF next
<1>3. IsLoader(next)
  BY <1>2, LoaderAside
<1> QED BY <1>1, <1>2, <1>3 DEF Keeps

(***************************************************************************)
(* The end of a cell: its record, and the definition it may add            *)
(***************************************************************************)
LEMMA FormulaOfType ==
    ASSUME NEW cell, OpenCell(cell), NEW shared, AreShared(shared)
    PROVE  IsSequence(FormulaOf(cell, shared))
<1> DEFINE base == shared[cell.si].base
           delta == [rows |-> cell.at[1] - base[1], columns |-> cell.at[2] - base[2]]
           translated == TranslatedFormula(shared[cell.si].formula, delta)
<1>1. FormulaOf(cell, shared)
        = IF cell.formula # << >> THEN cell.formula
          ELSE IF cell.shared /\ cell.si \in DOMAIN shared THEN translated
          ELSE << >>
  BY DEF FormulaOf
<1> HIDE DEF delta
<1>2. cell.si \in DOMAIN shared => IsSequence(translated)
  BY TranslatedType DEF AreShared
<1> HIDE DEF translated
<1>3. IsSequence(cell.formula) /\ IsSequence(<< >>)
  BY ShortSequences DEF OpenCell
<1> QED BY <1>1, <1>2, <1>3

LEMMA CachedType ==
    ASSUME NEW cell, OpenCell(cell), NEW items, items = Refused \/ AreItems(items)
    PROVE  CachedValue(cell, items) = Refused \/ IsRecord(CachedValue(cell, items))
<1>1. SharedString(cell.scalar, items) = Refused \/ IsRecord(SharedString(cell.scalar, items))
  <2> DEFINE k == Indexes[cell.scalar]
             value == Text(items[k + 1].text)
  <2>1. SharedString(cell.scalar, items)
          = IF cell.scalar \notin DOMAIN Indexes THEN Refused
            ELSE IF items = Refused THEN Refused
            ELSE IF k >= Len(items) THEN Refused
            ELSE value
    BY DEF SharedString
  <2>2. ASSUME cell.scalar \in DOMAIN Indexes, items # Refused, ~(k >= Len(items))
        PROVE  IsRecord(value)
    <3>1. k \in Nat BY <2>2, PackagesAssumption
    <3>2. AreItems(items) /\ Len(items) \in Nat BY <2>2 DEF AreItems, IsSequence
    <3> HIDE DEF k
    <3>3. k + 1 \in 1..Len(items) BY <2>2, <3>1, <3>2
    <3>4. IsSequence(items[k + 1].text) BY <3>2, <3>3 DEF AreItems
    <3> QED BY <3>4, WrittenRecords
  <2> HIDE DEF value, k
  <2> QED BY <2>1, <2>2
<1>2. IsRecord(Text(cell.scalar)) /\ IsRecord(Text(cell.inline)) /\ IsRecord(Error(cell.scalar))
      /\ IsRecord(Blank) /\ \A x : IsRecord(Boolean(x)) /\ IsRecord(Number(x))
  BY WrittenRecords DEF OpenCell
<1> DEFINE value == CASE cell.type = "str" -> Text(cell.scalar)
                      [] cell.type = "inlineStr" -> Text(cell.inline)
                      [] cell.type = "b" -> IF cell.scalar \in {<<"0">>, <<"1">>}
                                            THEN Boolean(cell.scalar[1])
                                            ELSE Refused
                      [] cell.type = "e" -> IF cell.scalar = << >> THEN Refused
                                            ELSE Error(cell.scalar)
                      [] cell.type = "s" -> SharedString(cell.scalar, items)
                      [] OTHER -> IF cell.scalar \in DOMAIN Numerals
                                  THEN Number(Numerals[cell.scalar])
                                  ELSE Refused
           empty == cell.type \notin {"s", "e"}
                    /\ IF cell.type \in {"str", "inlineStr"} THEN cell.saw \cap {"v", "t"} = {}
                       ELSE cell.scalar = << >>
<1>3. value = Refused \/ IsRecord(value)
  <2>1. CASE cell.type = "str"
    <3>1. value = Text(cell.scalar) BY <2>1
    <3> HIDE DEF value
    <3> QED BY <1>2, <3>1
  <2>2. CASE cell.type = "inlineStr"
    <3>1. value = Text(cell.inline) BY <2>2
    <3> HIDE DEF value
    <3> QED BY <1>2, <3>1
  <2>3. CASE cell.type = "b"
    <3>1. value = IF cell.scalar \in {<<"0">>, <<"1">>} THEN Boolean(cell.scalar[1]) ELSE Refused
      BY <2>3
    <3> HIDE DEF value
    <3>2. IsRecord(Boolean(cell.scalar[1])) BY <1>2
    <3> QED BY <3>1, <3>2, Zenon
  <2>4. CASE cell.type = "e"
    <3>1. value = IF cell.scalar = << >> THEN Refused ELSE Error(cell.scalar) BY <2>4
    <3> HIDE DEF value
    <3> QED BY <1>2, <3>1, Zenon
  <2>5. CASE cell.type = "s"
    <3>1. value = SharedString(cell.scalar, items) BY <2>5
    <3> HIDE DEF value
    <3> QED BY <1>1, <3>1, Zenon
  <2>6. CASE cell.type \notin {"str", "inlineStr", "b", "e", "s"}
    <3>1. value = IF cell.scalar \in DOMAIN Numerals THEN Number(Numerals[cell.scalar])
                  ELSE Refused
      BY <2>6
    <3> HIDE DEF value
    <3>2. IsRecord(Number(Numerals[cell.scalar])) BY <1>2
    <3> QED BY <3>1, <3>2, Zenon
  <2> HIDE DEF value
  <2> QED BY <2>1, <2>2, <2>3, <2>4, <2>5, <2>6
<1>4. CachedValue(cell, items) = IF empty THEN Blank ELSE value
  BY DEF CachedValue
<1> HIDE DEF value, empty
<1> QED BY <1>2, <1>3, <1>4, Zenon

LEMMA ValueType ==
    ASSUME NEW cell, OpenCell(cell), NEW shared, AreShared(shared),
           NEW items, items = Refused \/ AreItems(items)
    PROVE  CellValueOf(cell, shared, items) = Refused \/ IsRecord(CellValueOf(cell, shared, items))
<1> DEFINE formula == FormulaOf(cell, shared)
           cached == CachedValue(cell, items)
           value == FormulaValue(formula, cell, cached)
<1>1. IsRecord(Formula(formula))
  <2>1. IsSequence(formula) BY FormulaOfType
  <2> HIDE DEF formula
  <2> QED BY <2>1, WrittenRecords
<1>2. cached = Refused \/ IsRecord(cached)
  BY CachedType
<1>3. CellValueOf(cell, shared, items) = IF "f" \in cell.saw THEN value ELSE cached
  BY DEF CellValueOf
<1> HIDE DEF formula, cached
<1>4. value = Refused \/ IsRecord(value)
  <2>1. CASE formula # << >>
    <3>1. value = Formula(formula) BY <2>1 DEF FormulaValue
    <3> QED BY <1>1, <3>1
  <2>2. CASE formula = << >> /\ "meta" \notin cell.saw
    <3>1. value = Refused BY <2>2 DEF FormulaValue
    <3> QED BY <3>1
  <2>3. CASE formula = << >> /\ "meta" \in cell.saw
    <3>1. value = IF cached = Blank THEN Refused ELSE cached BY <2>3 DEF FormulaValue
    <3> HIDE DEF value
    <3> QED BY <1>2, <3>1, Zenon
  <2> QED BY <2>1, <2>2, <2>3
<1> HIDE DEF value
<1>5. CellValueOf(cell, shared, items) = value \/ CellValueOf(cell, shared, items) = cached
  BY <1>3
<1> QED BY <1>2, <1>4, <1>5

LEMMA DefinitionsType ==
    ASSUME NEW cell, OpenCell(cell), NEW shared, AreShared(shared)
    PROVE  AreShared(WithDefinition(shared, cell))
<1> DEFINE own == [base |-> cell.at, formula |-> cell.formula]
           next == Only(cell.si, own) ++ shared
<1>1. next = [si \in DOMAIN Only(cell.si, own) \cup DOMAIN shared |->
                 IF si \in DOMAIN Only(cell.si, own) THEN Only(cell.si, own)[si] ELSE shared[si]]
  BY DEF ++
<1>2. own.formula = cell.formula /\ IsSequence(cell.formula)
  BY DEF OpenCell
<1> HIDE DEF own
<1>3. DOMAIN Only(cell.si, own) = {cell.si} /\ Only(cell.si, own)[cell.si] = own
  BY DEF Only
<1>4. DOMAIN next = {cell.si} \cup DOMAIN shared
      /\ next[cell.si] = own /\ \A si \in DOMAIN shared \ {cell.si} : next[si] = shared[si]
  <2> HIDE DEF next
  <2> QED BY <1>1, <1>3
<1>5. WithDefinition(shared, cell)
        = IF cell.shared /\ cell.si # "" /\ cell.formula # << >> THEN next ELSE shared
  BY DEF WithDefinition, own
<1> HIDE DEF next
<1>6. AreShared(next)
  <2> SUFFICES ASSUME NEW si \in DOMAIN next PROVE IsSequence(next[si].formula)
    BY DEF AreShared
  <2>1. CASE si = cell.si BY <1>2, <1>4, <2>1
  <2>2. CASE si # cell.si
    <3>1. si \in DOMAIN shared \ {cell.si} BY <1>4, <2>2
    <3>2. next[si] = shared[si] BY <1>4, <3>1
    <3> QED BY <3>1, <3>2 DEF AreShared
  <2> QED BY <2>1, <2>2
<1> QED BY <1>5, <1>6

LEMMA CellEndedStores ==
    ASSUME NEW loader, IsLoader(loader), OpenCell(loader.cell),
           NEW items, items = Refused \/ AreItems(items), NEW strict
    PROVE  \/ CellEnded(loader, items, strict) = Refused
           \/ IsLoader(CellEnded(loader, items, strict))
<1> DEFINE cell == loader.cell
           value == CellValueOf(cell, loader.shared, items)
           stored == CellSet(loader.session, cell.at, Styled(value, cell.style))
           shared == WithDefinition(loader.shared, cell)
           next == [loader EXCEPT !.session = stored, !.cell = NoCell, !.shared = shared]
<1>1. CellEnded(loader, items, strict)
        = IF Unclosed(cell) THEN Refused
          ELSE IF value = Refused THEN Refused
          ELSE IF strict /\ KnownLosses(cell, items) # {} THEN Refused
          ELSE IF stored = Refused THEN Refused
          ELSE next
  BY DEF CellEnded, CellStored
<1>2. AreShared(loader.shared) /\ IsStore(loader.session.cells) /\ cell.at \in Positions
  BY DEF IsLoader, Guarded, OpenCell
<1>3. value = Refused \/ IsRecord(value)
  BY <1>2, ValueType
<1>4. AreShared(shared)
  BY <1>2, DefinitionsType
<1> HIDE DEF value
<1>5. value # Refused => Holds(stored)
  <2> DEFINE record == Styled(value, cell.style)
  <2>1. value # Refused => IsRecord(record) BY <1>3, StyledRecord
  <2> HIDE DEF record
  <2> QED BY <1>2, <2>1, CellSetHolds DEF record
<1> HIDE DEF stored, shared
<1>6. next.session = stored /\ next.shared = shared /\ DOMAIN next = DOMAIN loader
  BY DEF IsLoader
<1> HIDE DEF next
<1>7. value # Refused /\ stored # Refused => IsLoader(next)
  BY <1>4, <1>5, <1>6 DEF IsLoader, Holds
<1> HIDE DEF cell
<1> QED BY <1>1, <1>7

(***************************************************************************)
(* The events of a piece                                                   *)
(***************************************************************************)
AfterEvent(loader, ctx, kind, piece, items, strict) ==
    IF loader = Refused THEN Refused ELSE Consumed(loader, ctx, kind, piece, items, strict)

AfterEvents(loader, ctx, e, piece, items, strict) ==
    LET first == AfterEvent(loader, ctx, e[1].kind, piece, items, strict)
    IN  IF Len(e) = 0 THEN loader
        ELSE IF Len(e) = 1 THEN first
        ELSE AfterEvent(first, ctx, e[2].kind, piece, items, strict)

LEMMA AfterPieceIs ==
    ASSUME NEW loader, NEW ctx, NEW i, NEW piece, NEW items, NEW strict,
           Len(Events(ctx, i, piece)) \in 0..2
    PROVE  AfterPiece(loader, ctx, i, piece, items, strict)
             = AfterEvents(loader, ctx, Events(ctx, i, piece), piece, items, strict)
<1> DEFINE e == Events(ctx, i, piece)
           n == Len(e)
           first == AfterEvent(loader, ctx, e[1].kind, piece, items, strict)
           second == AfterEvent(first, ctx, e[2].kind, piece, items, strict)
           Eq(f) == f = [j \in 0..Len(e) |->
                            IF j = 0 THEN loader
                            ELSE LET l == f[j - 1]
                                 IN  IF l = Refused THEN Refused
                                     ELSE Consumed(l, ctx, e[j].kind, piece, items, strict)]
           after == CHOOSE f : Eq(f)
           Step(f, j) == IF j = 0 THEN loader
                         ELSE AfterEvent(f[j - 1], ctx, e[j].kind, piece, items, strict)
<1>1. /\ AfterPiece(loader, ctx, i, piece, items, strict) = after[n]
      /\ AfterEvents(loader, ctx, e, piece, items, strict)
           = IF n = 0 THEN loader ELSE IF n = 1 THEN first ELSE second
  BY DEF AfterPiece, AfterEvents
<1>2. \E f : Eq(f)
  <2> DEFINE f == [j \in 0..n |-> IF j = 0 THEN loader ELSE IF j = 1 THEN first ELSE second]
  <2>1. \A j \in 0..n : j \in {0, 1, 2}
    <3>1. n \in 0..2 OBVIOUS
    <3> HIDE DEF n
    <3> QED BY <3>1
  <2> HIDE DEF n
  <2>2. f = [j \in 0..n |-> f[j]] OBVIOUS
  <2>3. ASSUME NEW j \in 0..n PROVE f[j] = Step(f, j)
    <3> HIDE DEF first, second
    <3>1. CASE j = 0 BY <3>1
    <3>2. CASE j = 1
      <4>1. f[1] = first /\ f[0] = loader BY <3>2, n \in 0..2 DEF n
      <4> HIDE DEF f
      <4> QED BY <3>2, <4>1 DEF first
    <3>3. CASE j = 2
      <4>1. f[2] = second /\ f[1] = first BY <3>3, n \in 0..2 DEF n
      <4> HIDE DEF f
      <4> QED BY <3>3, <4>1 DEF second
    <3> QED BY <2>1, <3>1, <3>2, <3>3
  <2>4. Eq(f)
    <3> HIDE DEF f
    <3> QED BY <2>2, <2>3 DEF AfterEvent, n
  <2> HIDE DEF f, Eq
  <2> QED BY <2>4
<1>3. Eq(after)
  <2> HIDE DEF Eq
  <2> QED BY <1>2
<1> HIDE DEF after
<1>4. \A j \in 0..n : after[j] = Step(after, j)
  BY <1>3 DEF AfterEvent
<1> HIDE DEF Eq
<1>5. n \in 0..2
  OBVIOUS
<1> HIDE DEF n
<1>6. after[0] = loader
  BY <1>4, <1>5
<1>7. n >= 1 => after[1] = first
  <2>1. n >= 1 => 1 \in 0..n BY <1>5
  <2>2. n >= 1 => after[1] = Step(after, 1) BY <1>4, <2>1
  <2> QED BY <1>6, <2>2
<1>8. n = 2 => after[2] = second
  <2>1. n = 2 => 2 \in 0..n BY <1>5
  <2>2. n = 2 => after[2] = Step(after, 2) BY <1>4, <2>1
  <2> HIDE DEF first
  <2> QED BY <1>7, <2>2
<1> HIDE DEF first, second
<1>9. after[n] = IF n = 0 THEN loader ELSE IF n = 1 THEN first ELSE second
  BY <1>5, <1>6, <1>7, <1>8
<1> QED BY <1>1, <1>9

LEMMA EventKind ==
    ASSUME NEW kind, NEW at, NEW piece
    PROVE  Event(kind, at, piece).kind = kind
BY DEF Event

\* The events that pieces have.
EventKinds(ctx, piece) ==
    IF ~IsTag(piece) THEN <<"Other">>
    ELSE IF piece.name \in DOMAIN StartKind
    THEN CASE piece.form = "open" -> <<StartKind[piece.name]>>
           [] piece.form = "close" -> <<EndKind[piece.name]>>
           [] OTHER -> <<StartKind[piece.name], EndKind[piece.name]>>
    ELSE IF ctx.inCell /\ IsValueName(piece.name) THEN <<"CellValueMarkup">>
    ELSE IF ctx.inCell \/ TopLevel(ctx) THEN <<"Metadata">>
    ELSE << >>

LEMMA EventsAre ==
    ASSUME NEW ctx, NEW i, NEW piece
    PROVE  /\ Len(Events(ctx, i, piece)) = Len(EventKinds(ctx, piece))
           /\ Len(EventKinds(ctx, piece)) \in 0..2
           /\ \A j \in 1..Len(EventKinds(ctx, piece)) :
                  Events(ctx, i, piece)[j].kind = EventKinds(ctx, piece)[j]
<1> DEFINE s == Event(StartKind[piece.name], i, piece)
           t == Event(EndKind[piece.name], i, piece)
           Same(events, kinds) == /\ Len(events) = Len(kinds) /\ Len(kinds) \in 0..2
                                  /\ \A j \in 1..Len(kinds) : events[j].kind = kinds[j]
<1>1. s.kind = StartKind[piece.name] /\ t.kind = EndKind[piece.name]
  BY EventKind
<1>2. \A kind : Same(<<Event(kind, i, piece)>>, <<kind>>)
  BY EventKind
<1>3. Same(<< >>, << >>)
  OBVIOUS
<1>4. CASE ~IsTag(piece)
  BY <1>2, <1>4 DEF Events, EventKinds
<1>5. CASE IsTag(piece) /\ piece.name \in DOMAIN StartKind
  <2> HIDE DEF s, t
  <2>1. Events(ctx, i, piece) = (IF piece.form = "close" THEN << >> ELSE <<s>>)
                                \o (IF piece.form = "open" THEN << >> ELSE <<t>>)
    BY <1>5 DEF Events, s, t
  <2>2. <<s>> \o << >> = <<s>> /\ << >> \o <<t>> = <<t>> /\ <<s>> \o <<t>> = <<s, t>>
    <3>1. <<s>> \in Seq({s, t}) /\ <<t>> \in Seq({s, t}) OBVIOUS
    <3>2. <<s>> \o << >> = <<s>> /\ << >> \o <<t>> = <<t>> BY <3>1
    <3> DEFINE both == <<s>> \o <<t>>
               pair == <<s, t>>
    <3>3. both \in Seq({s, t}) /\ pair \in Seq({s, t}) /\ Len(both) = 2 /\ Len(pair) = 2
      BY <3>1
    <3>4. both[1] = s /\ both[2] = t /\ pair[1] = s /\ pair[2] = t
      BY <3>1
    <3> HIDE DEF both, pair
    <3>5. both = pair BY <3>3, <3>4, SeqEqual
    <3> QED BY <3>2, <3>5 DEF both, pair
  <2>3. CASE piece.form = "open"
    <3>1. Events(ctx, i, piece) = <<s>> BY <2>1, <2>2, <2>3
    <3>2. EventKinds(ctx, piece) = <<StartKind[piece.name]>> BY <1>5, <2>3 DEF EventKinds
    <3>3. Same(<<s>>, <<StartKind[piece.name]>>) BY <1>1
    <3> HIDE DEF Same
    <3>4. Same(Events(ctx, i, piece), EventKinds(ctx, piece)) BY <3>1, <3>2, <3>3
    <3> QED BY <3>4 DEF Same
  <2>4. CASE piece.form = "close"
    <3>1. Events(ctx, i, piece) = <<t>> BY <2>1, <2>2, <2>4
    <3>2. EventKinds(ctx, piece) = <<EndKind[piece.name]>> BY <1>5, <2>4 DEF EventKinds
    <3>3. Same(<<t>>, <<EndKind[piece.name]>>) BY <1>1
    <3> HIDE DEF Same
    <3>4. Same(Events(ctx, i, piece), EventKinds(ctx, piece)) BY <3>1, <3>2, <3>3
    <3> QED BY <3>4 DEF Same
  <2>5. CASE piece.form \notin {"open", "close"}
    <3>1. Events(ctx, i, piece) = <<s, t>> BY <2>1, <2>2, <2>5
    <3>2. EventKinds(ctx, piece) = <<StartKind[piece.name], EndKind[piece.name]>>
      BY <1>5, <2>5 DEF EventKinds
    <3>3. Same(<<s, t>>, <<StartKind[piece.name], EndKind[piece.name]>>) BY <1>1
    <3> HIDE DEF Same
    <3>4. Same(Events(ctx, i, piece), EventKinds(ctx, piece)) BY <3>1, <3>2, <3>3
    <3> QED BY <3>4 DEF Same
  <2> QED BY <2>3, <2>4, <2>5
<1>6. CASE IsTag(piece) /\ piece.name \notin DOMAIN StartKind
  <2>1. \/ Events(ctx, i, piece) = << >> /\ EventKinds(ctx, piece) = << >>
        \/ \E kind : Events(ctx, i, piece) = <<Event(kind, i, piece)>>
                     /\ EventKinds(ctx, piece) = <<kind>>
    BY <1>6 DEF Events, EventKinds
  <2> HIDE DEF Same
  <2>2. Same(Events(ctx, i, piece), EventKinds(ctx, piece)) BY <1>2, <1>3, <2>1
  <2> QED BY <2>2 DEF Same
<1> QED BY <1>4, <1>5, <1>6

LEMMA KindNames ==
    /\ DOMAIN StartKind = {"worksheet", "sheetData", "row", "c"}
    /\ DOMAIN EndKind = {"worksheet", "sheetData", "row", "c"}
    /\ StartKind["worksheet"] = "WorksheetStart" /\ EndKind["worksheet"] = "WorksheetEnd"
    /\ StartKind["sheetData"] = "SheetDataStart" /\ EndKind["sheetData"] = "SheetDataEnd"
    /\ StartKind["row"] = "RowStart" /\ EndKind["row"] = "RowEnd"
    /\ StartKind["c"] = "CellStart" /\ EndKind["c"] = "CellEnd"
BY DEF StartKind, EndKind

\* Where the reader is after a piece: in a cell only if it was or has just
\* entered one.
LEMMA CellEntered ==
    ASSUME NEW ctx, "inCell" \in DOMAIN ctx, NEW piece
    PROVE  /\ "inCell" \in DOMAIN After(ctx, piece)
           /\ After(ctx, piece).inCell =>
                  \/ ctx.inCell /\ ~(IsTag(piece) /\ piece.name = "c")
                  \/ piece.form = "open" /\ piece.name = "c"
<1>1. \A x : "inCell" \in DOMAIN [ctx EXCEPT !.value = x] /\ [ctx EXCEPT !.value = x].inCell = ctx.inCell
  OBVIOUS
<1>2. \A x : "inCell" \in DOMAIN [ctx EXCEPT !.inRow = x] /\ [ctx EXCEPT !.inRow = x].inCell = ctx.inCell
  OBVIOUS
<1>3. \A x : "inCell" \in DOMAIN [ctx EXCEPT !.inData = x] /\ [ctx EXCEPT !.inData = x].inCell = ctx.inCell
  OBVIOUS
<1>4. \A x : "inCell" \in DOMAIN [ctx EXCEPT !.closed = x] /\ [ctx EXCEPT !.closed = x].inCell = ctx.inCell
  OBVIOUS
<1>5. \A x : "inCell" \in DOMAIN [ctx EXCEPT !.inCell = x] /\ [ctx EXCEPT !.inCell = x].inCell = x
  OBVIOUS
<1>6. \A x, y : "inCell" \in DOMAIN [ctx EXCEPT !.opened = x, !.closed = y]
                /\ [ctx EXCEPT !.opened = x, !.closed = y].inCell = ctx.inCell
  OBVIOUS
<1>7. \A x, y : "inCell" \in DOMAIN [ctx EXCEPT !.seenData = x, !.inData = y]
                /\ [ctx EXCEPT !.seenData = x, !.inData = y].inCell = ctx.inCell
  OBVIOUS
<1>8. CASE ~IsTag(piece)
  BY <1>8 DEF After, IsTag
<1>9. CASE piece.form = "close"
  <2>1. After(ctx, piece) = AfterClosing(ctx, piece.name) BY <1>9 DEF After
  <2>2. IsTag(piece) BY <1>9 DEF IsTag
  <2>3. CASE piece.name = "c"
    <3>1. AfterClosing(ctx, piece.name) = [ctx EXCEPT !.inCell = FALSE]
      BY <2>3 DEF AfterClosing, IsValueName
    <3> QED BY <1>5, <2>1, <3>1
  <2>4. CASE piece.name # "c"
    <3>1. "inCell" \in DOMAIN AfterClosing(ctx, piece.name)
          /\ AfterClosing(ctx, piece.name).inCell = ctx.inCell
      BY <1>1, <1>2, <1>3, <1>4, <2>4 DEF AfterClosing, IsValueName
    <3> QED BY <2>1, <2>4, <3>1
  <2> QED BY <2>3, <2>4
<1>10. CASE piece.form \in {"open", "self"}
  <2> DEFINE self == piece.form = "self"
             next == AfterOpening(ctx, piece.name, self)
  <2>1. After(ctx, piece) = next BY <1>10 DEF After
  <2>2. IsTag(piece) BY <1>10 DEF IsTag
  <2>3. CASE piece.name = "c"
    <3>1. next = [ctx EXCEPT !.inCell = ~self]
      BY <2>3 DEF AfterOpening, IsValueName
    <3>2. "inCell" \in DOMAIN next /\ next.inCell = ~self BY <1>5, <3>1
    <3> QED BY <1>10, <2>1, <2>3, <3>2
  <2>4. CASE piece.name # "c"
    <3>1. "inCell" \in DOMAIN next /\ next.inCell = ctx.inCell
      BY <1>1, <1>2, <1>6, <1>7, <2>4 DEF AfterOpening, IsValueName
    <3> QED BY <2>1, <2>4, <3>1
  <2> QED BY <2>3, <2>4
<1> QED BY <1>8, <1>9, <1>10 DEF IsTag

\* What a piece leaves: where the reader is and what has been loaded agree.
Together(ctx, loader) ==
    "inCell" \in DOMAIN ctx /\ (ctx.inCell => OpenCell(loader.cell))

LEMMA EventsKeep ==
    ASSUME NEW loader, IsLoader(loader), NEW ctx, NEW kind, NEW piece, IsSequence(piece.text),
           NEW items, NEW strict,
           kind \in {"Other", "WorksheetStart", "WorksheetEnd", "SheetDataStart",
                     "SheetDataEnd", "RowStart", "RowEnd"}
    PROVE  Keeps(loader, Consumed(loader, ctx, kind, piece, items, strict))
<1>1. Keeps(loader, loader) /\ Keeps(loader, Refused)
  BY DEF Keeps
<1>2. Keeps(loader, RowBegun(loader, piece)) /\ Keeps(loader, TextRead(loader, ctx, piece))
  BY RowBegunKeeps, TextReadKeeps
<1> DEFINE next == Consumed(loader, ctx, kind, piece, items, strict)
<1>3. CASE kind = "Other"
  <2>1. next = IF piece.form = "text" THEN TextRead(loader, ctx, piece)
               ELSE IF ctx.inCell THEN Refused ELSE loader
    BY <1>3 DEF Consumed
  <2> HIDE DEF next
  <2> QED BY <1>1, <1>2, <2>1 DEF next
<1>4. CASE kind = "SheetDataStart"
  <2>1. next = IF loader.depth # 0 THEN Refused ELSE loader
    BY <1>4 DEF Consumed
  <2> HIDE DEF next
  <2> QED BY <1>1, <2>1 DEF next
<1>5. CASE kind = "RowStart"
  <2>1. next = RowBegun(loader, piece)
    BY <1>5 DEF Consumed
  <2> HIDE DEF next
  <2> QED BY <1>2, <2>1 DEF next
<1>6. CASE kind \in {"WorksheetStart", "WorksheetEnd", "SheetDataEnd", "RowEnd"}
  <2>1. next = loader
    BY <1>6 DEF Consumed
  <2> HIDE DEF next
  <2> QED BY <1>1, <2>1 DEF next
<1> QED BY <1>3, <1>4, <1>5, <1>6

LEMMA PieceKeepsTogether ==
    ASSUME NEW loader, IsLoader(loader), NEW ctx, Together(ctx, loader),
           NEW i, NEW piece, ~Refuses(ctx, piece), IsSequence(piece.text),
           piece.name = "c" /\ Readable(piece.ref) => Spot(piece.ref) \in Positions,
           NEW items, items = Refused \/ AreItems(items), NEW strict
    PROVE  LET next == AfterPiece(loader, ctx, i, piece, items, strict)
           IN  next = Refused \/ (IsLoader(next) /\ Together(After(ctx, piece), next))
<1> DEFINE kinds == EventKinds(ctx, piece)
           Event1(l, kind) == AfterEvent(l, ctx, kind, piece, items, strict)
           next == AfterPiece(loader, ctx, i, piece, items, strict)
           Fits(l) == l = Refused \/ (IsLoader(l) /\ Together(After(ctx, piece), l))
<1>1. Len(kinds) \in 0..2
      /\ next = IF Len(kinds) = 0 THEN loader
                ELSE IF Len(kinds) = 1 THEN Event1(loader, kinds[1])
                ELSE Event1(Event1(loader, kinds[1]), kinds[2])
  <2> DEFINE e == Events(ctx, i, piece)
             first == Event1(loader, e[1].kind)
  <2>1. Len(e) = Len(kinds) /\ Len(kinds) \in 0..2
        /\ \A j \in 1..Len(kinds) : e[j].kind = kinds[j]
    BY EventsAre
  <2>2. next = IF Len(e) = 0 THEN loader
               ELSE IF Len(e) = 1 THEN first
               ELSE Event1(first, e[2].kind)
    <3>1. Len(e) \in 0..2
      <4> HIDE DEF e, kinds
      <4> QED BY <2>1
    <3>2. next = AfterEvents(loader, ctx, e, piece, items, strict)
      BY <3>1, AfterPieceIs
    <3> HIDE DEF e, next
    <3> QED BY <3>2 DEF AfterEvents
  <2> HIDE DEF e, kinds, next, Event1
  <2>3. Len(kinds) # 0 => e[1].kind = kinds[1] BY <2>1
  <2>4. Len(kinds) = 2 => e[2].kind = kinds[2] BY <2>1
  <2> QED BY <2>1, <2>2, <2>3, <2>4
<1>2. /\ "inCell" \in DOMAIN After(ctx, piece)
      /\ After(ctx, piece).inCell =>
             \/ ctx.inCell /\ ~(IsTag(piece) /\ piece.name = "c")
             \/ piece.form = "open" /\ piece.name = "c"
  BY CellEntered DEF Together
<1>3. loader # Refused => \A kind :
          Event1(loader, kind) = Consumed(loader, ctx, kind, piece, items, strict)
  BY DEF AfterEvent
<1>4. \A kind : Event1(Refused, kind) = Refused
  BY DEF AfterEvent
<1>5. ASSUME loader = Refused PROVE Fits(next)
  <2>1. next = Refused
    <3> HIDE DEF next, kinds, Event1
    <3> QED BY <1>1, <1>4, <1>5
  <2> QED BY <2>1
<1> SUFFICES ASSUME loader # Refused PROVE Fits(next)
  BY <1>5
<1>6. ASSUME NEW l, Keeps(loader, l), ~(IsTag(piece) /\ piece.name = "c") PROVE Fits(l)
  <2>1. After(ctx, piece).inCell => ctx.inCell
    BY <1>2, <1>6 DEF IsTag
  <2> QED BY <1>2, <1>6, <2>1 DEF Keeps, Together
<1> HIDE DEF next, Event1
<1>7. CASE ~IsTag(piece)
  <2>1. kinds = <<"Other">> BY <1>7 DEF EventKinds
  <2>2. next = Event1(loader, "Other") BY <1>1, <2>1
  <2>3. Keeps(loader, next) BY <1>3, <2>2, EventsKeep
  <2> QED BY <1>6, <1>7, <2>3
<1>8. CASE IsTag(piece) /\ piece.name \in {"worksheet", "sheetData", "row"}
  <2> DEFINE start == StartKind[piece.name]
             end == EndKind[piece.name]
             Outer == {"Other", "WorksheetStart", "WorksheetEnd", "SheetDataStart",
                       "SheetDataEnd", "RowStart", "RowEnd"}
  <2>1. start \in Outer /\ end \in Outer /\ piece.name \in DOMAIN StartKind
    BY <1>8, KindNames
  <2>2. kinds = <<start>> \/ kinds = <<end>> \/ kinds = <<start, end>>
    BY <1>8, <2>1 DEF EventKinds
  <2> HIDE DEF start, end, kinds
  <2>3. Keeps(loader, Event1(loader, start)) /\ Keeps(loader, Event1(loader, end))
    BY <1>3, <2>1, EventsKeep
  <2>4. Keeps(loader, Event1(Event1(loader, start), end))
    <3> DEFINE l == Event1(loader, start)
    <3>1. CASE l = Refused BY <1>4, <3>1 DEF Keeps
    <3>2. CASE l # Refused
      <4>1. IsLoader(l) /\ (OpenCell(loader.cell) => OpenCell(l.cell)) BY <2>3, <3>2 DEF Keeps
      <4> HIDE DEF l
      <4>2. Event1(l, end) = Consumed(l, ctx, end, piece, items, strict)
        BY <3>2 DEF Event1, AfterEvent
      <4>3. Keeps(l, Event1(l, end)) BY <2>1, <4>1, <4>2, EventsKeep
      <4>4. Keeps(loader, Event1(l, end)) BY <4>1, <4>3 DEF Keeps
      <4> QED BY <4>4 DEF l
    <3> QED BY <3>1, <3>2
  <2>5. Keeps(loader, next)
    <3>1. CASE kinds = <<start>>
      <4>1. Len(kinds) = 1 /\ kinds[1] = start BY <3>1
      <4>2. next = Event1(loader, start) BY <1>1, <4>1
      <4> QED BY <2>3, <4>2
    <3>2. CASE kinds = <<end>>
      <4>1. Len(kinds) = 1 /\ kinds[1] = end BY <3>2
      <4>2. next = Event1(loader, end) BY <1>1, <4>1
      <4> QED BY <2>3, <4>2
    <3>3. CASE kinds = <<start, end>>
      <4>1. Len(kinds) = 2 /\ kinds[1] = start /\ kinds[2] = end BY <3>3
      <4>2. next = Event1(Event1(loader, start), end) BY <1>1, <4>1
      <4> QED BY <2>4, <4>2
    <3> QED BY <2>2, <3>1, <3>2, <3>3
  <2>6. piece.name # "c" BY <1>8
  <2> QED BY <1>6, <2>5, <2>6
<1>9. CASE IsTag(piece) /\ piece.name = "c"
  <2> DEFINE begun == CellBegun(loader, piece)
  <2>1. piece.name \in DOMAIN StartKind /\ StartKind[piece.name] = "CellStart"
        /\ EndKind[piece.name] = "CellEnd"
    BY <1>9, KindNames
  <2>2. \A l : l # Refused =>
            /\ Event1(l, "CellStart") = CellBegun(l, piece)
            /\ Event1(l, "CellEnd") = CellEnded(l, items, strict)
    BY DEF Event1, AfterEvent, Consumed
  <2>3. \/ begun = Refused
        \/ IsLoader(begun) /\ OpenCell(begun.cell)
    BY <1>9, CellBegunOpens
  <2>4. CASE piece.form = "open"
    <3>1. kinds = <<"CellStart">> BY <1>9, <2>1, <2>4 DEF EventKinds
    <3>2. next = begun BY <1>1, <2>2, <3>1
    <3> QED BY <1>2, <2>3, <3>2 DEF Together
  <2>5. CASE piece.form = "close"
    <3>1. kinds = <<"CellEnd">> BY <1>9, <2>1, <2>5 DEF EventKinds
    <3>2. next = CellEnded(loader, items, strict) BY <1>1, <2>2, <3>1
    <3>3. ctx.inCell BY <1>9, <2>5 DEF Refuses, RefusesClosing, IsValueName
    <3>4. OpenCell(loader.cell) BY <3>3 DEF Together
    <3>5. next = Refused \/ IsLoader(next) BY <3>2, <3>4, CellEndedStores
    <3>6. ~After(ctx, piece).inCell BY <1>2, <1>9, <2>5
    <3> QED BY <1>2, <3>5, <3>6 DEF Together
  <2>6. CASE piece.form \notin {"open", "close"}
    <3>1. kinds = <<"CellStart", "CellEnd">> BY <1>9, <2>1, <2>6 DEF EventKinds
    <3>2. next = Event1(begun, "CellEnd") BY <1>1, <2>2, <3>1
    <3>3. next = Refused \/ IsLoader(next)
      <4>1. CASE begun = Refused BY <1>4, <3>2, <4>1
      <4>2. CASE begun # Refused
        <5>1. IsLoader(begun) /\ OpenCell(begun.cell) BY <2>3, <4>2
        <5>2. next = CellEnded(begun, items, strict) BY <2>2, <3>2, <4>2
        <5> HIDE DEF begun
        <5> QED BY <5>1, <5>2, CellEndedStores
      <4> QED BY <4>1, <4>2
    <3>4. ~After(ctx, piece).inCell BY <1>2, <1>9, <2>6
    <3> QED BY <1>2, <3>3, <3>4 DEF Together
  <2> QED BY <2>4, <2>5, <2>6
<1>10. CASE IsTag(piece) /\ piece.name \notin {"worksheet", "sheetData", "row", "c"}
  <2>1. piece.name \notin DOMAIN StartKind BY <1>10, KindNames
  <2>2. ctx.inCell => Keeps(loader, InCell(loader, piece))
    BY InCellKeeps DEF Together
  <2>3. Keeps(loader, WorksheetMetadata(loader, piece))
    BY MetadataKeeps
  <2>4. CASE ctx.inCell /\ IsValueName(piece.name)
    <3>1. kinds = <<"CellValueMarkup">> BY <1>10, <2>1, <2>4 DEF EventKinds
    <3>2. next = Consumed(loader, ctx, "CellValueMarkup", piece, items, strict)
      BY <1>1, <1>3, <3>1
    <3>3. next = InCell(loader, piece) BY <3>2 DEF Consumed
    <3>4. Keeps(loader, next) BY <2>2, <2>4, <3>3
    <3> QED BY <1>6, <1>10, <3>4
  <2>5. CASE ~(ctx.inCell /\ IsValueName(piece.name)) /\ (ctx.inCell \/ TopLevel(ctx))
    <3>1. kinds = <<"Metadata">> BY <1>10, <2>1, <2>5 DEF EventKinds
    <3>2. next = Consumed(loader, ctx, "Metadata", piece, items, strict)
      BY <1>1, <1>3, <3>1
    <3>3. next = IF ctx.inCell THEN InCell(loader, piece) ELSE WorksheetMetadata(loader, piece)
      BY <3>2 DEF Consumed
    <3>4. Keeps(loader, next) BY <2>2, <2>3, <3>3
    <3> QED BY <1>6, <1>10, <3>4
  <2>6. CASE ~(ctx.inCell /\ IsValueName(piece.name)) /\ ~(ctx.inCell \/ TopLevel(ctx))
    <3>1. kinds = << >> BY <1>10, <2>1, <2>6 DEF EventKinds
    <3>2. next = loader BY <1>1, <3>1
    <3>3. Keeps(loader, next) BY <3>2 DEF Keeps
    <3> QED BY <1>6, <1>10, <3>3
  <2> QED BY <2>4, <2>5, <2>6
<1> QED BY <1>7, <1>8, <1>9, <1>10

(***************************************************************************)
(* Loading a sheet: after every piece, reader and loader agree             *)
(***************************************************************************)
LoadStart == [ctx |-> Outset, loader |-> Loader]

LoadStepped(before, i, piece, items, strict) ==
    IF before.loader = Refused THEN before
    ELSE IF Refuses(before.ctx, piece) THEN [before EXCEPT !.loader = Refused]
    ELSE [ctx |-> After(before.ctx, piece),
          loader |-> AfterPiece(before.loader, before.ctx, i, piece, items, strict)]

LoadedAt(pieces, items, strict, f, i) ==
    IF i = 0 THEN LoadStart ELSE LoadStepped(f[i - 1], i, pieces[i], items, strict)

LoadsFrom(pieces, items, strict, f, m) ==
    /\ f = [i \in 0..m |-> f[i]]
    /\ \A i \in 0..m : f[i] = LoadedAt(pieces, items, strict, f, i)

LEMMA LoadsExist ==
    ASSUME NEW pieces, NEW items, NEW strict, NEW N \in Nat
    PROVE  \E f : LoadsFrom(pieces, items, strict, f, N)
<1> DEFINE Fits(f, m) == LoadsFrom(pieces, items, strict, f, m)
           Good == {m \in 0..N : \E f : Fits(f, m)}
<1>1. 0 \in Good
  <2> DEFINE f == [i \in 0..0 |-> LoadStart]
  <2>1. f = [i \in 0..0 |-> f[i]] /\ f[0] = LoadStart OBVIOUS
  <2>2. Fits(f, 0)
    <3> HIDE DEF f
    <3> QED BY <2>1 DEF LoadsFrom, LoadedAt
  <2> HIDE DEF f, Fits
  <2> QED BY <2>2
<1>2. ASSUME NEW m \in 0..N - 1, m \in Good PROVE m + 1 \in Good
  <2>1. PICK f : Fits(f, m) BY <1>2
  <2> DEFINE k == m + 1
             last == LoadedAt(pieces, items, strict, f, k)
             g == [i \in 0..k |-> IF i = k THEN last ELSE f[i]]
  <2>2. k \in Int /\ k # 0 /\ k - 1 \in 0..m /\ k - 1 # k /\ k \in 0..N OBVIOUS
  <2>3. g = [i \in 0..k |-> g[i]] OBVIOUS
  <2>4. ASSUME NEW i \in 0..k PROVE g[i] = LoadedAt(pieces, items, strict, g, i)
    <3> HIDE DEF last
    <3>1. CASE i = k
      <4>1. g[k] = last /\ g[k - 1] = f[k - 1] OBVIOUS
      <4> HIDE DEF g, k
      <4> QED BY <3>1, <4>1, <2>2 DEF LoadedAt, last
    <3>2. CASE i # k /\ i # 0
      <4>1. g[i] = f[i] /\ g[i - 1] = f[i - 1] /\ i \in 0..m BY <3>2
      <4>2. f[i] = LoadedAt(pieces, items, strict, f, i) BY <2>1, <4>1 DEF LoadsFrom
      <4> HIDE DEF g, k
      <4> QED BY <3>2, <4>1, <4>2 DEF LoadedAt
    <3>3. CASE i = 0
      <4>1. g[0] = f[0] /\ 0 \in 0..m OBVIOUS
      <4>2. f[0] = LoadedAt(pieces, items, strict, f, 0) BY <2>1, <4>1 DEF LoadsFrom
      <4> HIDE DEF g, k
      <4> QED BY <3>3, <4>1, <4>2 DEF LoadedAt
    <3> QED BY <3>1, <3>2, <3>3
  <2>5. Fits(g, k)
    <3> HIDE DEF g, k
    <3> QED BY <2>3, <2>4 DEF LoadsFrom
  <2> HIDE DEF g, Fits
  <2> QED BY <2>2, <2>5
<1> HIDE DEF Fits
<1>3. N \in Good
  <2> HIDE DEF Good
  <2>1. Good \in SUBSET (0..N) BY DEF Good
  <2>2. Good = 0..N BY <1>1, <1>2, <2>1, UpToBound
  <2> QED BY <2>2
<1> QED BY <1>3 DEF Fits

\* Refused, or a sound loader that agrees with the reader.
Sound(state) ==
    /\ {"ctx", "loader"} \subseteq DOMAIN state
    /\ \/ state.loader = Refused
       \/ IsLoader(state.loader) /\ Together(state.ctx, state.loader)

LEMMA LoadStepSound ==
    ASSUME NEW before, Sound(before), NEW i, NEW piece, IsSequence(piece.text),
           piece.name = "c" /\ Readable(piece.ref) => Spot(piece.ref) \in Positions,
           NEW items, items = Refused \/ AreItems(items), NEW strict
    PROVE  Sound(LoadStepped(before, i, piece, items, strict))
<1> DEFINE next == LoadStepped(before, i, piece, items, strict)
<1>1. CASE before.loader = Refused
  <2>1. next = before BY <1>1 DEF LoadStepped
  <2> QED BY <2>1
<1>2. CASE before.loader # Refused /\ Refuses(before.ctx, piece)
  <2>1. next = [before EXCEPT !.loader = Refused] BY <1>2 DEF LoadStepped
  <2>2. {"ctx", "loader"} \subseteq DOMAIN next /\ next.loader = Refused
    BY <2>1 DEF Sound
  <2> QED BY <2>2 DEF Sound
<1>3. CASE before.loader # Refused /\ ~Refuses(before.ctx, piece)
  <2> DEFINE ctx == before.ctx
             loader == before.loader
             after == AfterPiece(loader, ctx, i, piece, items, strict)
  <2>1. next = [ctx |-> After(ctx, piece), loader |-> after]
    BY <1>3 DEF LoadStepped
  <2>2. IsLoader(loader) /\ Together(ctx, loader) BY <1>3 DEF Sound
  <2>3. ~Refuses(ctx, piece) BY <1>3
  <2> HIDE DEF ctx, loader
  <2>4. after = Refused \/ (IsLoader(after) /\ Together(After(ctx, piece), after))
    BY <2>2, <2>3, PieceKeepsTogether
  <2> HIDE DEF after, next
  <2>5. {"ctx", "loader"} \subseteq DOMAIN next
        /\ next.ctx = After(ctx, piece) /\ next.loader = after
    BY <2>1
  <2> QED BY <2>4, <2>5 DEF Sound, next
<1> QED BY <1>1, <1>2, <1>3

LEMMA LoadedHolds ==
    ASSUME NEW pieces, IsPart(pieces), NEW part, IsPart(part), NEW strict
    PROVE  Holds(Loaded(pieces, part, strict))
<1> DEFINE N == Len(pieces)
           items == SharedStringItems(part)
           Eq(f) == f = [i \in 0..Len(pieces) |->
                            IF i = 0 THEN LoadStart
                            ELSE LoadStepped(f[i - 1], i, pieces[i], items, strict)]
           after == CHOOSE f : Eq(f)
           end == after[N]
<1>1. N \in Nat /\ DOMAIN pieces = 1..N
  BY SequenceDomain DEF IsPart
<1>2. Loaded(pieces, part, strict)
        = IF end.loader = Refused THEN Refused
          ELSE IF RefusesEnd(end.ctx) \/ end.loader.depth # 0 THEN Refused
          ELSE Session(end.loader.session.cells, FALSE)
  BY DEF Loaded, LoadStart, LoadStepped
<1>3. items = Refused \/ AreItems(items)
  BY ItemsType
<1> HIDE DEF items
<1>4. \E f : Eq(f)
  <2>1. PICK f : LoadsFrom(pieces, items, strict, f, N) BY <1>1, LoadsExist
  <2>2. Eq(f) BY <2>1 DEF LoadsFrom, LoadedAt
  <2> QED BY <2>2
<1>5. Eq(after)
  <2> HIDE DEF Eq
  <2> QED BY <1>4
<1> HIDE DEF after
<1>6. \A i \in 0..N : after[i] = LoadedAt(pieces, items, strict, after, i)
  BY <1>5 DEF LoadedAt
<1> HIDE DEF Eq
<1> DEFINE Good == {m \in 0..N : Sound(after[m])}
<1>7. 0 \in Good
  <2>1. 0 \in 0..N BY <1>1
  <2>2. after[0] = LoadStart BY <1>6, <2>1 DEF LoadedAt
  <2>3. /\ {"ctx", "loader"} \subseteq DOMAIN LoadStart
        /\ LoadStart.ctx = Outset /\ LoadStart.loader = Loader
    BY DEF LoadStart
  <2>4. Together(Outset, Loader) BY DEF Together, Outset
  <2>5. Sound(LoadStart) BY <2>3, <2>4, LoaderStarts DEF Sound
  <2> QED BY <2>1, <2>2, <2>5
<1>8. ASSUME NEW m \in 0..N - 1, m \in Good PROVE m + 1 \in Good
  <2> DEFINE k == m + 1
             piece == pieces[k]
  <2>1. k \in 1..N /\ k \in 0..N /\ k # 0 /\ k - 1 = m BY <1>1
  <2>2. IsSequence(piece.text)
        /\ (piece.name = "c" /\ Readable(piece.ref) => Spot(piece.ref) \in Positions)
    BY <1>1, <2>1 DEF IsPart
  <2>3. Sound(after[m]) BY <1>8
  <2> HIDE DEF k
  <2>4. after[k] = LoadStepped(after[m], k, piece, items, strict)
    BY <1>6, <2>1 DEF LoadedAt
  <2> HIDE DEF piece
  <2>5. Sound(after[k]) BY <1>3, <2>2, <2>3, <2>4, LoadStepSound
  <2> QED BY <2>1, <2>5 DEF k
<1>9. N \in Good
  <2> HIDE DEF Good
  <2>1. Good \in SUBSET (0..N) BY DEF Good
  <2>2. Good = 0..N BY <1>1, <1>7, <1>8, <2>1, UpToBound
  <2> QED BY <1>1, <2>2
<1>10. Sound(end)
  BY <1>9
<1> HIDE DEF end
<1>11. end.loader # Refused => Guarded(end.loader.session.cells)
  BY <1>10 DEF Sound, IsLoader
<1>12. Session(end.loader.session.cells, FALSE).cells = end.loader.session.cells
  BY DEF Session
<1> QED BY <1>2, <1>11, <1>12 DEF Holds

(***************************************************************************)
(* Every call leaves sound stores                                          *)
(***************************************************************************)
\* A package is open, and the cells of every sheet that was opened are a sound
\* store within both guardrails.
GridInv ==
    /\ package \in DOMAIN Packages
    /\ \A s \in Opened : Guarded(sessions[s].cells)

\* A call that returns: the session it leaves is one that holds.
LEMMA ReturnsKeeps ==
    ASSUME GridInv, NEW s \in Opened, NEW session, Holds(session), NEW call,
           Returns(s, session, call)
    PROVE  GridInv'
<1>1. /\ session # Refused /\ package' = package
      /\ sessions' = [sessions EXCEPT ![s] = session]
  BY DEF Returns
<1>2. Guarded(session.cells)
  BY <1>1 DEF Holds
<1>3. /\ DOMAIN sessions' = DOMAIN sessions
      /\ \A x \in DOMAIN sessions : sessions'[x] = IF x = s THEN session ELSE sessions[x]
  BY <1>1 DEF Opened
<1>4. \A x \in Opened' : Guarded(sessions'[x].cells)
  <2> SUFFICES ASSUME NEW x \in DOMAIN sessions PROVE Guarded(sessions'[x].cells)
    BY <1>3 DEF Opened
  <2>1. CASE x = s BY <1>2, <1>3, <2>1
  <2>2. CASE x # s
    <3>1. Guarded(sessions[x].cells) BY DEF GridInv, Opened
    <3> QED BY <1>3, <2>2, <3>1
  <2> QED BY <2>1, <2>2
<1>5. \A x \in Opened' : Guarded(sessions[x].cells)'
  BY <1>4 DEF Guarded, IsStore, IsRecord, Usage
<1> QED BY <1>1, <1>5 DEF GridInv

LEMMA ReturnsBothKeeps ==
    ASSUME GridInv, NEW s \in Opened, NEW t \in Opened, NEW both,
           both # Refused => Guarded(both.source.cells) /\ Guarded(both.session.cells),
           NEW call, ReturnsBoth(s, t, both, call)
    PROVE  GridInv'
<1>1. /\ both # Refused /\ package' = package
      /\ sessions' = [sessions EXCEPT ![s] = both.source, ![t] = both.session]
  BY DEF ReturnsBoth
<1>2. Guarded(both.source.cells) /\ Guarded(both.session.cells)
  BY <1>1
<1>3. /\ DOMAIN sessions' = DOMAIN sessions
      /\ \A x \in DOMAIN sessions :
             sessions'[x] = IF x = t THEN both.session
                            ELSE IF x = s THEN both.source ELSE sessions[x]
  BY <1>1 DEF Opened
<1>4. \A x \in Opened' : Guarded(sessions'[x].cells)
  <2> SUFFICES ASSUME NEW x \in DOMAIN sessions PROVE Guarded(sessions'[x].cells)
    BY <1>3 DEF Opened
  <2>1. CASE x \in {s, t} BY <1>2, <1>3, <2>1
  <2>2. CASE x \notin {s, t}
    <3>1. Guarded(sessions[x].cells) BY DEF GridInv, Opened
    <3> QED BY <1>3, <2>2, <3>1
  <2> QED BY <2>1, <2>2
<1>5. \A x \in Opened' : Guarded(sessions[x].cells)'
  BY <1>4 DEF Guarded, IsStore, IsRecord, Usage
<1> QED BY <1>1, <1>5 DEF GridInv

LEMMA EditsKeep ==
    ASSUME GridInv, NEW s \in Opened, NEW session, Holds(session), Edits(s, session)
    PROVE  GridInv'
BY ReturnsKeeps DEF Edits

\* The batches that the calls make of their arguments.
LEMMA BatchGiven ==
    ASSUME NEW updates \in Batches
    PROVE  IsBatch(updates)
<1>1. IsSequence(updates)
      /\ \A i \in DOMAIN updates : updates[i].at \in Positions /\ IsRecord(updates[i].value)
  BY ArgumentsAssumption
<1>2. DOMAIN updates = 1..Len(updates)
  BY <1>1, SequenceDomain
<1> QED BY <1>1, <1>2 DEF IsBatch

LEMMA BatchOf ==
    ASSUME NEW values \in Rows, NEW updates, updates = [i \in DOMAIN values |-> updates[i]],
           \A i \in DOMAIN values : updates[i].at \in Positions /\ updates[i].value = values[i]
    PROVE  IsBatch(updates)
<1> DEFINE n == Len(values)
<1>1. IsSequence(values) /\ \A i \in DOMAIN values : IsRecord(values[i])
  BY ArgumentsAssumption
<1>2. n \in Nat /\ DOMAIN values = 1..n
  BY <1>1, SequenceDomain
<1> HIDE DEF n
<1>3. updates \in Seq({updates[i] : i \in 1..n}) /\ Len(updates) = n
  <2> DEFINE U == {updates[i] : i \in 1..n}
  <2>1. [i \in 1..n |-> updates[i]] \in [1..n -> U] OBVIOUS
  <2> HIDE DEF U
  <2>2. updates \in [1..n -> U] BY <1>2, <2>1, Zenon
  <2>3. updates \in Seq(U) /\ Len(updates) = n BY <1>2, <2>2
  <2> QED BY <2>3 DEF U
<1>4. IsSequence(updates)
  BY <1>3, SequenceOf
<1> QED BY <1>1, <1>2, <1>3, <1>4 DEF IsBatch

LEMMA RowBatch ==
    ASSUME NEW values \in Rows, Len(values) <= MaxColumn, NEW row \in Nat,
           values # << >> => row \in 1..MaxRow
    PROVE  IsBatch(RowUpdates(row, values))
<1> DEFINE updates == RowUpdates(row, values)
<1>1. IsSequence(values)
  BY ArgumentsAssumption
<1>2. Len(values) \in Nat /\ DOMAIN values = 1..Len(values)
  BY <1>1, SequenceDomain
<1>3. updates = [i \in DOMAIN values |-> [at |-> <<row, i>>, value |-> values[i]]]
  BY DEF RowUpdates
<1>4. updates = [i \in DOMAIN values |-> updates[i]]
      /\ \A i \in DOMAIN values : updates[i].at = <<row, i>> /\ updates[i].value = values[i]
  BY <1>3
<1>5. \A i \in DOMAIN values : <<row, i>> \in Positions
  <2> SUFFICES ASSUME NEW i \in DOMAIN values PROVE <<row, i>> \in Positions
    OBVIOUS
  <2>1. values # << >> OBVIOUS
  <2>2. row \in 1..MaxRow BY <2>1
  <2>3. i \in 1..MaxColumn BY <1>2, GridAssumption
  <2> QED BY <2>2, <2>3 DEF Positions
<1> HIDE DEF updates
<1>6. IsBatch(updates)
  BY <1>4, <1>5, BatchOf
<1> QED BY <1>6 DEF updates

LEMMA ColumnBatch ==
    ASSUME NEW values \in Rows, Len(values) <= MaxRow, NEW column \in 1..MaxColumn
    PROVE  IsBatch(ColumnUpdates(column, values))
<1> DEFINE updates == ColumnUpdates(column, values)
<1>1. IsSequence(values)
  BY ArgumentsAssumption
<1>2. Len(values) \in Nat /\ DOMAIN values = 1..Len(values)
  BY <1>1, SequenceDomain
<1>3. updates = [i \in DOMAIN values |-> [at |-> <<i, column>>, value |-> values[i]]]
  BY DEF ColumnUpdates
<1>4. updates = [i \in DOMAIN values |-> updates[i]]
      /\ \A i \in DOMAIN values : updates[i].at = <<i, column>> /\ updates[i].value = values[i]
  BY <1>3
<1>5. \A i \in DOMAIN values : <<i, column>> \in Positions
  BY <1>2, GridAssumption DEF Positions
<1> HIDE DEF updates
<1>6. IsBatch(updates)
  BY <1>4, <1>5, BatchOf
<1> QED BY <1>6 DEF updates

\* The last row with a cell, or 0.
LEMMA LastRow ==
    ASSUME NEW cells, IsStore(cells)
    PROVE  Max({0} \cup {p[1] : p \in DOMAIN cells}) \in Nat
<1> DEFINE rows == {p[1] : p \in DOMAIN cells}
           all == {0} \cup rows
<1>1. IsFiniteSet(DOMAIN cells) /\ \A p \in DOMAIN cells : p[1] \in Nat
  <2>1. \A p \in Positions : p[1] \in Nat
    BY GridAssumption DEF Positions
  <2> QED BY <2>1, StoreWeighs DEF IsStore
<1>2. IsFiniteSet(rows) /\ rows \in SUBSET Nat
  <2> DEFINE f == [p \in DOMAIN cells |-> p[1]]
  <2>1. f \in Surjection(DOMAIN cells, rows) BY DEF Surjection
  <2>2. IsFiniteSet(rows) BY <1>1, <2>1, FS_Surjection
  <2> QED BY <1>1, <2>2
<1> HIDE DEF rows
<1>3. IsFiniteSet({0})
  BY FS_Singleton
<1>4. all \in SUBSET Int /\ all \in SUBSET all /\ all # {} /\ all \in SUBSET Nat
  BY <1>2
<1> DEFINE zero == {0}
<1>5. IsFiniteSet(all)
  <2>1. IsFiniteSet(zero) BY <1>3
  <2> HIDE DEF zero
  <2>2. IsFiniteSet(zero \cup rows) BY <1>2, <2>1, FS_Union
  <2> QED BY <2>2 DEF zero
<1> HIDE DEF all
<1>6. Max(all) \in all
  BY <1>4, <1>5, MaxProperty
<1>7. Max(all) \in Nat
  BY <1>4, <1>6
<1> QED BY <1>7 DEF all, rows

LEMMA WritesKeep ==
    ASSUME GridInv, NEW s \in Opened, Write(s)
    PROVE  GridInv'
<1> DEFINE session == sessions[s]
<1>1. Guarded(session.cells) /\ IsStore(session.cells)
  BY DEF GridInv, Guarded
<1>2. \A value \in Values : IsRecord(value)
  BY ArgumentsAssumption
<1>3. \A erasures, updates, keepStyles : IsBatch(updates) =>
          Holds(CellsEdited(session, erasures, updates, keepStyles))
  BY <1>1, CellsEditedHolds
<1>4. \A updates, keepStyles : IsBatch(updates) => Holds(CellsSet(session, updates, keepStyles))
  BY <1>3 DEF CellsSet
<1>5. \A next : Holds(next) /\ Edits(s, next) => GridInv'
  BY EditsKeep
<1>6. \A row \in 1..MaxRow, values \in Rows :
          Len(values) <= MaxColumn => IsBatch(RowUpdates(row, values))
  BY RowBatch, GridAssumption
<1>7. \A column \in 1..MaxColumn, values \in Rows :
          Len(values) <= MaxRow => IsBatch(ColumnUpdates(column, values))
  BY ColumnBatch
<1>8. CASE SetCell(s)
  <2>1. PICK p \in Positions, value \in Values : Edits(s, CellSet(session, p, value))
    BY <1>8 DEF SetCell
  <2>2. Holds(CellSet(session, p, value)) BY <1>1, <1>2, CellSetHolds
  <2> QED BY <1>5, <2>1, <2>2
<1>9. CASE SetCells(s)
  <2>1. PICK updates \in Batches : Edits(s, CellsSet(session, updates, FALSE))
    BY <1>9 DEF SetCells
  <2> QED BY <1>4, <1>5, <2>1, BatchGiven
<1>10. CASE AppendRow(s)
  <2> DEFINE last == Max({0} \cup {p[1] : p \in DOMAIN sessions[s].cells})
  <2>1. PICK values \in Rows :
            /\ values # << >> => last < MaxRow
            /\ Len(values) <= MaxColumn
            /\ Edits(s, CellsSet(session, RowUpdates(last + 1, values), FALSE))
    BY <1>10 DEF AppendRow
  <2>2. last \in Nat BY <1>1, LastRow
  <2> HIDE DEF last
  <2>3. last + 1 \in Nat /\ (values # << >> => last + 1 \in 1..MaxRow)
    BY <2>1, <2>2, GridAssumption
  <2>4. IsBatch(RowUpdates(last + 1, values)) BY <2>1, <2>3, RowBatch
  <2> QED BY <1>4, <1>5, <2>1, <2>4
<1>11. CASE SetRow(s)
  <2>1. PICK row \in 1..MaxRow, values \in Rows :
            /\ Len(values) <= MaxColumn
            /\ Edits(s, CellsEdited(session, InRow(s, row), RowUpdates(row, values), FALSE))
    BY <1>11 DEF SetRow
  <2> QED BY <1>3, <1>5, <1>6, <2>1
<1>12. CASE SetColumn(s)
  <2>1. PICK column \in 1..MaxColumn, values \in Rows :
            /\ Len(values) <= MaxRow
            /\ Edits(s, CellsEdited(session, InColumn(s, column),
                                    ColumnUpdates(column, values), FALSE))
    BY <1>12 DEF SetColumn
  <2> QED BY <1>3, <1>5, <1>7, <2>1
<1>13. CASE SetCellValue(s)
  <2>1. PICK p \in Positions, value \in Values :
            Edits(s, CellSet(session, p, Styled(value, StyleAt(session.cells, p))))
    BY <1>13 DEF SetCellValue
  <2>2. IsRecord(Styled(value, StyleAt(session.cells, p))) BY <1>2, StyledRecord
  <2>3. Holds(CellSet(session, p, Styled(value, StyleAt(session.cells, p))))
    BY <1>1, <2>2, CellSetHolds
  <2> QED BY <1>5, <2>1, <2>3
<1>14. CASE SetCellValues(s)
  <2>1. PICK updates \in Batches : Edits(s, CellsSet(session, updates, TRUE))
    BY <1>14 DEF SetCellValues
  <2> QED BY <1>4, <1>5, <2>1, BatchGiven
<1>15. CASE SetRowValues(s)
  <2>1. PICK row \in 1..MaxRow, values \in Rows :
            /\ Len(values) <= MaxColumn
            /\ Edits(s, CellsSet(session, RowUpdates(row, values), TRUE))
    BY <1>15 DEF SetRowValues
  <2> QED BY <1>4, <1>5, <1>6, <2>1
<1>16. CASE SetColumnValues(s)
  <2>1. PICK column \in 1..MaxColumn, values \in Rows :
            /\ Len(values) <= MaxRow
            /\ Edits(s, CellsSet(session, ColumnUpdates(column, values), TRUE))
    BY <1>16 DEF SetColumnValues
  <2> QED BY <1>4, <1>5, <1>7, <2>1
<1> QED BY <1>8, <1>9, <1>10, <1>11, <1>12, <1>13, <1>14, <1>15, <1>16 DEF Write

LEMMA ClearsKeep ==
    ASSUME GridInv, NEW s \in Opened, Clear(s)
    PROVE  GridInv'
<1> DEFINE session == sessions[s]
<1>1. Guarded(session.cells)
  BY DEF GridInv
<1>2. \A next : Holds(next) /\ Edits(s, next) => GridInv'
  BY EditsKeep
<1>3. \A positions : Edits(s, CellsErased(session, positions)) => GridInv'
  BY <1>1, <1>2, CellsErasedHolds
<1>4. \A positions : Edits(s, ValuesCleared(session, positions)) => GridInv'
  BY <1>1, <1>2, ValuesClearedHolds
<1>5. \A p : Edits(s, CellErased(session, p)) => GridInv'
  BY <1>1, <1>2, CellErasedHolds
<1>6. \A p \in Positions : Edits(s, CellStyleCleared(session, p)) => GridInv'
  BY <1>1, <1>2, StylesHold
<1>7. \A range : Edits(s, StylesCleared(session, range)) => GridInv'
  <2>1. \A p \in Positions : \A range : Holds(StylesCleared(session, range)) BY <1>1, StylesHold
  <2>2. <<1, 1>> \in Positions BY GridAssumption DEF Positions
  <2> QED BY <1>2, <2>1, <2>2
<1>8. CASE EraseRows(s) \/ EraseColumns(s) \/ EraseCells(s)
  BY <1>3, <1>8 DEF EraseRows, EraseColumns, EraseCells
<1>9. CASE ClearRows(s) \/ ClearColumns(s) \/ ClearCellValue(s) \/ ClearCellValues(s)
  BY <1>4, <1>9 DEF ClearRows, ClearColumns, ClearCellValue, ClearCellValues
<1>10. CASE EraseCell(s)
  BY <1>5, <1>10 DEF EraseCell
<1>11. CASE ClearCellStyle(s) \/ ClearCellStyles(s)
  BY <1>6, <1>7, <1>11 DEF ClearCellStyle, ClearCellStyles
<1> QED BY <1>8, <1>9, <1>10, <1>11 DEF Clear

LEMMA RestructuresKeep ==
    ASSUME GridInv, NEW s \in Opened, Restructure(s)
    PROVE  GridInv'
<1> DEFINE session == sessions[s]
           EditOf(rows, insert, first, count) ==
               [rows |-> rows, insert |-> insert, first |-> first, count |-> count]
<1>1. Guarded(session.cells)
  BY DEF GridInv
<1>2. \A rows, insert \in BOOLEAN : \A first, count \in Lines(rows) :
          Holds(Shifted(session, EditOf(rows, insert, first, count)))
  <2> SUFFICES ASSUME NEW rows \in BOOLEAN, NEW insert \in BOOLEAN,
                      NEW first \in Lines(rows), NEW count \in Lines(rows)
               PROVE  Holds(Shifted(session, EditOf(rows, insert, first, count)))
    OBVIOUS
  <2>1. first \in Nat \ {0} /\ count \in Nat BY GridAssumption DEF Lines
  <2>2. IsEdit(EditOf(rows, insert, first, count)) BY <2>1 DEF IsEdit
  <2> HIDE DEF EditOf
  <2> QED BY <1>1, <2>2, ShiftedHolds
<1>3. \A next, rows, insert, first, count :
          Holds(next) /\ Restructures(s, next, rows, insert, first, count) => GridInv'
  BY ReturnsKeeps DEF Restructures
<1>4. \A first, count \in Lines(TRUE) :
          Holds(RowsInserted(session, first, count)) /\ Holds(RowsDeleted(session, first, count))
  BY <1>2 DEF RowsInserted, RowsDeleted
<1>5. \A first, count \in Lines(FALSE) :
          Holds(ColumnsInserted(session, first, count))
          /\ Holds(ColumnsDeleted(session, first, count))
  BY <1>2 DEF ColumnsInserted, ColumnsDeleted
<1>6. CASE InsertRows(s)
  BY <1>3, <1>4, <1>6 DEF InsertRows
<1>7. CASE DeleteRows(s)
  BY <1>3, <1>4, <1>7 DEF DeleteRows
<1>8. CASE InsertColumns(s)
  BY <1>3, <1>5, <1>8 DEF InsertColumns
<1>9. CASE DeleteColumns(s)
  BY <1>3, <1>5, <1>9 DEF DeleteColumns
<1> QED BY <1>6, <1>7, <1>8, <1>9 DEF Restructure

LEMMA MoveGiven ==
    ASSUME NEW move \in Moves
    PROVE  IsMove(move)
BY ArgumentsAssumption DEF Moves, IsMove

LEMMA TransfersKeep ==
    ASSUME GridInv, NEW s \in Opened, Transfer(s)
    PROVE  GridInv'
<1> DEFINE session == sessions[s]
<1>1. Guarded(session.cells) /\ IsStore(session.cells)
  BY DEF GridInv, Guarded
<1>2. \A next, call : Holds(next) /\ Returns(s, next, call) => GridInv'
  BY ReturnsKeeps
<1>3. \A move \in Moves : /\ Holds(CellsCopied(session, session, move, TRUE))
                          /\ Holds(ValuesCopied(session, session, move, TRUE))
                          /\ Holds(StylesCopied(session, session, move, TRUE))
  BY <1>1, MoveGiven, CopiesHold
<1>4. \A move \in Moves : /\ Holds(CellsMoved(session, move))
                          /\ Holds(ValuesMoved(session, move))
                          /\ Holds(StylesMoved(session, move))
  BY <1>1, MoveGiven, MovesHold
<1>5. \A from, to \in Positions : /\ Holds(CellStyleCopied(session, from, to))
                                  /\ Holds(CellStyleMoved(session, from, to))
  BY <1>1, StylesHold
<1>6. CASE CopyCells(s) \/ CopyCellValues(s) \/ CopyCellStyles(s)
  BY <1>2, <1>3, <1>6 DEF CopyCells, CopyCellValues, CopyCellStyles
<1>7. CASE MoveCells(s) \/ MoveCellValues(s) \/ MoveCellStyles(s)
  BY <1>2, <1>4, <1>7 DEF MoveCells, MoveCellValues, MoveCellStyles
<1>8. CASE CopyCellStyle(s) \/ MoveCellStyle(s)
  BY <1>2, <1>5, <1>8 DEF CopyCellStyle, MoveCellStyle
<1> QED BY <1>6, <1>7, <1>8 DEF Transfer

LEMMA TransfersFromKeep ==
    ASSUME GridInv, NEW s \in Opened, NEW t \in Opened \ {s}, TransferFrom(s, t)
    PROVE  GridInv'
<1> DEFINE source == sessions[s]
           session == sessions[t]
           Leaves(both) == both # Refused => Guarded(both.source.cells)
                                             /\ Guarded(both.session.cells)
<1>1. Guarded(source.cells) /\ Guarded(session.cells) /\ IsStore(source.cells)
  BY DEF GridInv, Guarded
<1>2. \A next, call : Holds(next) /\ Returns(t, next, call) => GridInv'
  BY ReturnsKeeps
<1>3. \A both, call : Leaves(both) /\ ReturnsBoth(s, t, both, call) => GridInv'
  BY ReturnsBothKeeps
<1>4. \A move \in Moves : /\ Holds(CellsCopied(source, session, move, FALSE))
                          /\ Holds(ValuesCopied(source, session, move, FALSE))
                          /\ Holds(StylesCopied(source, session, move, FALSE))
  BY <1>1, MoveGiven, CopiesHold
<1>5. \A move \in Moves : /\ Leaves(CellsMovedBetween(source, session, move))
                          /\ Leaves(ValuesMovedBetween(source, session, move))
                          /\ Leaves(StylesMovedBetween(source, session, move))
  BY <1>1, MoveGiven, MovesBetweenHold
<1> HIDE DEF Leaves
<1>6. CASE CopyCellsFrom(s, t) \/ CopyCellValuesFrom(s, t) \/ CopyCellStylesFrom(s, t)
  BY <1>2, <1>4, <1>6 DEF CopyCellsFrom, CopyCellValuesFrom, CopyCellStylesFrom
<1>7. CASE MoveCellsFrom(s, t) \/ MoveCellValuesFrom(s, t) \/ MoveCellStylesFrom(s, t)
  BY <1>3, <1>5, <1>7 DEF MoveCellsFrom, MoveCellValuesFrom, MoveCellStylesFrom
<1> QED BY <1>6, <1>7 DEF TransferFrom

LEMMA WorksheetKeeps ==
    ASSUME GridInv, NEW s \in Sheets, NEW strict \in BOOLEAN, Worksheet(s, strict)
    PROVE  GridInv'
<1> DEFINE session == Loaded(Source.sheets[s], Source.strings, strict)
<1>1. /\ session # Refused /\ package' = package
      /\ sessions' = Only(s, session) ++ sessions
  BY DEF Worksheet
<1>2. IsPart(Source.sheets[s]) /\ IsPart(Source.strings)
  BY PackagesAssumption DEF GridInv, Source
<1>3. Guarded(session.cells)
  BY <1>1, <1>2, LoadedHolds DEF Holds
<1> HIDE DEF session
<1>4. /\ DOMAIN sessions' = {s} \cup DOMAIN sessions
      /\ \A x \in DOMAIN sessions' : sessions'[x] = IF x = s THEN session ELSE sessions[x]
  <2> DEFINE one == Only(s, session)
  <2>1. DOMAIN one = {s} /\ one[s] = session BY DEF Only
  <2> HIDE DEF one
  <2>2. sessions' = [x \in {s} \cup DOMAIN sessions |->
                        IF x \in {s} THEN one[x] ELSE sessions[x]]
    BY <1>1, <2>1, Zenon DEF ++, one
  <2> QED BY <2>1, <2>2
<1>5. \A x \in Opened' : Guarded(sessions'[x].cells)
  <2> SUFFICES ASSUME NEW x \in DOMAIN sessions' PROVE Guarded(sessions'[x].cells)
    BY DEF Opened
  <2>1. CASE x = s BY <1>3, <1>4, <2>1
  <2>2. CASE x # s
    <3>1. x \in DOMAIN sessions BY <1>4, <2>2
    <3>2. Guarded(sessions[x].cells) BY <3>1 DEF GridInv, Opened
    <3> QED BY <1>4, <2>2, <3>2
  <2> QED BY <2>1, <2>2
<1>6. \A x \in Opened' : Guarded(sessions[x].cells)'
  BY <1>5 DEF Guarded, IsStore, IsRecord, Usage
<1> QED BY <1>1, <1>6 DEF GridInv

LEMMA SaveKeeps ==
    ASSUME GridInv, Save
    PROVE  GridInv'
<1>1. package' = package /\ sessions' = [s \in Opened |-> Session(sessions[s].cells, FALSE)]
  BY DEF Save, Flushed
<1>2. \A cells : Session(cells, FALSE).cells = cells
  BY DEF Session
<1>3. DOMAIN sessions' = Opened /\ \A s \in Opened : sessions'[s].cells = sessions[s].cells
  BY <1>1, <1>2
<1>4. \A x \in Opened' : Guarded(sessions'[x].cells)
  BY <1>3 DEF GridInv, Opened
<1>5. \A x \in Opened' : Guarded(sessions[x].cells)'
  BY <1>4 DEF Guarded, IsStore, IsRecord, Usage
<1> QED BY <1>1, <1>5 DEF GridInv

LEMMA GridInvariant == Spec => []GridInv
<1>1. Init => GridInv
  <2>1. DOMAIN << >> = {} OBVIOUS
  <2> QED BY <2>1 DEF Init, GridInv, Opened
<1>2. GridInv /\ [Next]_vars => GridInv'
  <2> SUFFICES ASSUME GridInv, [Next]_vars PROVE GridInv'
    OBVIOUS
  <2>1. CASE UNCHANGED vars
    BY <2>1 DEF vars, GridInv, Opened, Guarded, IsStore, IsRecord, Usage
  <2>2. ASSUME NEW s \in Sheets, NEW strict \in BOOLEAN, Worksheet(s, strict) PROVE GridInv'
    BY <2>2, WorksheetKeeps
  <2>3. ASSUME NEW s \in Opened, Write(s) \/ Clear(s) \/ Restructure(s) \/ Transfer(s)
        PROVE  GridInv'
    BY <2>3, WritesKeep, ClearsKeep, RestructuresKeep, TransfersKeep
  <2>4. ASSUME NEW s \in Opened, NEW t \in Opened \ {s}, TransferFrom(s, t) PROVE GridInv'
    BY <2>4, TransfersFromKeep
  <2>5. CASE Save
    BY <2>5, SaveKeeps
  <2> QED BY <2>1, <2>2, <2>3, <2>4, <2>5 DEF Next
<1> QED BY <1>1, <1>2, PTL DEF Spec

\* Whatever is loaded, written, cleared, erased, shifted, copied or moved, and
\* however large a sheet and the guardrails are: the cells of an open sheet are
\* on the sheet and within both guardrails, though each call checks them
\* against counts it works out beforehand (CellStore::set_cell, apply_cell_edits
\* and replace_records of src/cell_store.cpp), and the saved <dimension> covers
\* every cell and is no wider than the cells.
THEOREM StoresSound == Spec => []StoresAreSound
<1>1. GridInv => StoresAreSound
  <2> SUFFICES ASSUME GridInv, NEW s \in Opened
               PROVE  LET cells == sessions[s].cells
                          box == Dimension(cells)
                      IN  /\ DOMAIN cells \subseteq Positions
                          /\ Cardinality(DOMAIN cells) <= MaxCells /\ Usage(cells) <= Budget
                          /\ \A p \in DOMAIN cells : Inside(p, box)
                          /\ cells # << >> =>
                                 \A i \in {1, 2} : {box.first[i], box.last[i]}
                                                      \subseteq {p[i] : p \in DOMAIN cells}
    BY DEF StoresAreSound
  <2> DEFINE cells == sessions[s].cells
  <2>1. Guarded(cells) /\ IsStore(cells) BY DEF GridInv, Guarded
  <2> HIDE DEF cells
  <2>2. DOMAIN cells \subseteq Positions
        /\ Cardinality(DOMAIN cells) <= MaxCells /\ Usage(cells) <= Budget
    BY <2>1 DEF Guarded, IsStore
  <2> QED BY <2>1, <2>2, DimensionFits DEF cells
<1> QED BY <1>1, GridInvariant, PTL

(***************************************************************************)
(* Transfers: the cells that a call leaves against those before it         *)
(***************************************************************************)
\* On the sheet that is written, and on the one that is moved away from; where
\* both are the same sheet, what arrives comes before what leaves.
Arrives(call, source, cells, new) ==
    \A q \in Positions :
        IF Origin(q, call.argument) \in Within(source, call.argument.range)
        THEN q \in DOMAIN new /\ Arrived(call, source, cells, q, new[q])
        ELSE Untouched(cells, q, new)

Departs(call, cells, new) ==
    \A q \in Positions :
        IF q \in Within(cells, call.argument.range) THEN Vacated(call, cells, q, new)
        ELSE Untouched(cells, q, new)

Exchanges(call, cells, new) ==
    \A q \in Positions :
        IF Origin(q, call.argument) \in Within(cells, call.argument.range)
        THEN q \in DOMAIN new /\ Arrived(call, cells, cells, q, new[q])
        ELSE IF q \in Within(cells, call.argument.range) /\ ~InPlace(call.argument)
        THEN Vacated(call, cells, q, new)
        ELSE Untouched(cells, q, new)

LEMMA TargetsAre ==
    ASSUME NEW move, IsMove(move), NEW source, IsStore(source.cells), NEW q \in Positions
    PROVE  q \in Targets(source, move) <=> Origin(q, move) \in Within(source.cells, move.range)
<1>1. ASSUME q \in Targets(source, move) PROVE Origin(q, move) \in Within(source.cells, move.range)
  BY <1>1, TargetsStay
<1>2. ASSUME Origin(q, move) \in Within(source.cells, move.range)
      PROVE  q \in Targets(source, move)
  <2> DEFINE dr == Delta(move).rows
             dc == Delta(move).columns
             p == Origin(q, move)
  <2>1. q = <<q[1], q[2]>> /\ q[1] \in Int /\ q[2] \in Int /\ dr \in Int /\ dc \in Int
    BY DEF Positions, IsMove, Delta
  <2>2. p[1] = q[1] - dr /\ p[2] = q[2] - dc
    BY DEF Origin
  <2>3. (q[1] - dr) + dr = q[1] /\ (q[2] - dc) + dc = q[2]
    <3> HIDE DEF dr, dc
    <3> QED BY <2>1
  <2>4. Target(p, move) = <<p[1] + dr, p[2] + dc>>
    BY DEF Target
  <2>5. Target(p, move) = q
    <3> HIDE DEF p, dr, dc
    <3>1. p[1] + dr = q[1] /\ p[2] + dc = q[2] BY <2>2, <2>3, Zenon
    <3> QED BY <2>1, <2>4, <3>1, Zenon
  <2> HIDE DEF p
  <2> QED BY <1>2, <2>5 DEF Targets, p
<1> QED BY <1>1, <1>2

\* A move to where the cells are.
LEMMA PlaceKept ==
    ASSUME NEW move, IsMove(move), InPlace(move)
    PROVE  /\ \A q \in Positions : Origin(q, move) = q
           /\ \A formula : TranslatedFormula(formula, Delta(move)) = formula
<1> DEFINE dr == Delta(move).rows
           dc == Delta(move).columns
<1>1. dr = 0 /\ dc = 0
  <2>1. move.range.first[1] \in Int /\ move.range.first[2] \in Int BY DEF IsMove, Positions
  <2> QED BY <2>1 DEF InPlace, Delta
<1>2. ASSUME NEW q \in Positions PROVE Origin(q, move) = q
  <2>1. q = <<q[1], q[2]>> /\ q[1] \in Int /\ q[2] \in Int BY DEF Positions
  <2>2. Origin(q, move) = <<q[1] - dr, q[2] - dc>> BY DEF Origin
  <2>3. q[1] - 0 = q[1] /\ q[2] - 0 = q[2] BY <2>1
  <2> HIDE DEF dr, dc
  <2> QED BY <1>1, <2>1, <2>2, <2>3, Zenon
<1>3. \A formula : TranslatedFormula(formula, Delta(move)) = formula
  BY <1>1 DEF TranslatedFormula
<1> QED BY <1>2, <1>3

\* The records that the forms of a transfer write are those that should arrive.
LEMMA RecordsArrive ==
    ASSUME NEW call, NEW move, call.argument = move, NEW source, NEW cells, NEW q, NEW o,
           o = Origin(q, move), IsRecord(source[o])
    PROVE  /\ call.what \in {"copy", "move"} =>
                  Arrived(call, source, cells, q, Translated(source[o], move))
           /\ call.what \in {"copy values", "move values"} =>
                  Arrived(call, source, cells, q,
                          Styled(Translated(source[o], move), StyleAt(cells, q)))
           /\ call.what \in {"copy styles", "move styles"} =>
                  Arrived(call, source, cells, q, Styled(cells[q], source[o].style))
<1> DEFINE was == source[o]
           formula == TranslatedFormula(was.formula, Delta(move))
           moved == Translated(was, move)
<1>1. IsSequence(was.formula)
  BY DEF IsRecord
<1>2. IsFormula(was.formula) => KeepsDistance(was.formula, formula, Delta(move))
  BY <1>1, TranslatedKeepsDistance
<1>3. moved = Record(was.kind, was.text, formula, was.style) /\ IsRecord(moved)
  <2>1. IsSequence(formula) BY <1>1, TranslatedType
  <2> HIDE DEF was, formula
  <2>2. /\ [was EXCEPT !.formula = formula] = Record(was.kind, was.text, formula, was.style)
        /\ IsRecord([was EXCEPT !.formula = formula])
    BY <2>1, FormulaReplaced DEF was
  <2>3. moved = [was EXCEPT !.formula = formula] BY DEF Translated, was, formula
  <2> QED BY <2>2, <2>3, Zenon
<1>4. /\ moved.kind = was.kind /\ moved.text = was.text /\ moved.formula = formula
      /\ moved.style = was.style
  <2> HIDE DEF was, formula, moved
  <2> QED BY <1>3, RecordFields
<1> DEFINE styled == Styled(moved, StyleAt(cells, q))
<1>5. /\ styled.kind = was.kind /\ styled.text = was.text /\ styled.formula = formula
      /\ styled.style = StyleAt(cells, q)
  <2> HIDE DEF was, formula, moved
  <2>1. styled = Record(moved.kind, moved.text, moved.formula, StyleAt(cells, q))
    BY <1>3, StyledIs
  <2> QED BY <1>4, <2>1, RecordFields
<1> HIDE DEF formula, moved, styled
<1>6. call.what \in {"copy", "move"} => Arrived(call, source, cells, q, moved)
  BY <1>2, <1>4 DEF Arrived
<1>7. call.what \in {"copy values", "move values"} => Arrived(call, source, cells, q, styled)
  BY <1>2, <1>5 DEF Arrived
<1>8. call.what \in {"copy styles", "move styles"} =>
          Arrived(call, source, cells, q, Styled(cells[q], was.style))
  BY DEF Arrived
<1> QED BY <1>6, <1>7, <1>8 DEF moved, styled

Transfers == {"copy", "copy values", "copy styles", "move", "move values", "move styles"}

LEMMA NothingTransferred ==
    ASSUME NEW call, call.what \in Transfers, NEW move, call.argument = move, IsMove(move),
           NEW source, IsStore(source), NEW cells
    PROVE  /\ Within(source, move.range) = {} =>
                  /\ Arrives(call, source, cells, cells)
                  /\ Departs(call, source, source)
                  /\ Exchanges(call, source, source)
           /\ InPlace(move) =>
                  Arrives(call, source, source, source) /\ Exchanges(call, source, source)
<1>1. \A q : Untouched(cells, q, cells) /\ Untouched(source, q, source)
  BY DEF Untouched
<1>2. CASE Within(source, move.range) = {}
  BY <1>1, <1>2 DEF Arrives, Departs, Exchanges
<1>3. ASSUME InPlace(move), NEW q \in Within(source, move.range)
      PROVE  q \in DOMAIN source /\ Arrived(call, source, source, q, source[q])
  <2> DEFINE was == source[q]
  <2>1. q \in DOMAIN source /\ q \in Positions /\ IsRecord(was) BY <1>3 DEF Within, IsStore
  <2>2. Origin(q, move) = q BY <1>3, <2>1, PlaceKept
  <2>3. TranslatedFormula(was.formula, Delta(move)) = was.formula BY <1>3, PlaceKept
  <2>4. StyleAt(source, q) = was.style BY <2>1 DEF StyleAt
  <2> HIDE DEF was
  <2>5. was = Record(was.kind, was.text, was.formula, was.style) /\ IsSequence(was.formula)
    BY <2>1 DEF IsRecord
  <2>6. Translated(was, move) = was
    <3>1. [was EXCEPT !.formula = was.formula] = Record(was.kind, was.text, was.formula, was.style)
      BY <2>1, <2>5, FormulaReplaced
    <3>2. Translated(was, move) = [was EXCEPT !.formula = was.formula]
      BY <2>3, Zenon DEF Translated
    <3> QED BY <2>5, <3>1, <3>2, Zenon
  <2>7. Styled(was, was.style) = was BY <2>1, <2>5, StyledIs
  <2>8. IsRecord(source[Origin(q, move)]) /\ source[Origin(q, move)] = was /\ source[q] = was
    BY <2>1, <2>2 DEF was
  <2>9. /\ call.what \in {"copy", "move"} => Arrived(call, source, source, q, was)
        /\ call.what \in {"copy values", "move values"} => Arrived(call, source, source, q, was)
        /\ call.what \in {"copy styles", "move styles"} => Arrived(call, source, source, q, was)
    BY <2>2, <2>4, <2>6, <2>7, <2>8, RecordsArrive
  <2> QED BY <2>1, <2>8, <2>9 DEF Transfers
<1>4. InPlace(move) => Arrives(call, source, source, source) /\ Exchanges(call, source, source)
  BY <1>1, <1>3, PlaceKept DEF Arrives, Exchanges
<1> QED BY <1>2, <1>4

LEMMA OverlayArrives ==
    ASSUME NEW call, NEW move, call.argument = move, IsMove(move),
           NEW source, IsStore(source.cells), NEW cells, IsStore(cells),
           NEW overlay, IsStore(overlay), DOMAIN overlay = Targets(source, move),
           \A q \in Targets(source, move) : Arrived(call, source.cells, cells, q, overlay[q])
    PROVE  Arrives(call, source.cells, cells, overlay ++ cells)
<1> DEFINE new == overlay ++ cells
<1>1. /\ DOMAIN new = DOMAIN overlay \cup DOMAIN cells
      /\ \A q \in DOMAIN overlay : new[q] = overlay[q]
      /\ \A q \in DOMAIN cells \ DOMAIN overlay : new[q] = cells[q]
  BY StoreOverlaid
<1> HIDE DEF new
<1>2. ASSUME NEW q \in Positions
      PROVE  IF Origin(q, move) \in Within(source.cells, move.range)
             THEN q \in DOMAIN new /\ Arrived(call, source.cells, cells, q, new[q])
             ELSE Untouched(cells, q, new)
  <2>1. q \in Targets(source, move) <=> Origin(q, move) \in Within(source.cells, move.range)
    BY TargetsAre
  <2> QED BY <1>1, <2>1 DEF Untouched
<1> QED BY <1>2 DEF Arrives, new

LEMMA OverlayExchanges ==
    ASSUME NEW call, NEW move, call.argument = move, IsMove(move),
           NEW source, IsStore(source.cells), NEW base, IsStore(base),
           Departs(call, source.cells, base),
           NEW overlay, IsStore(overlay), DOMAIN overlay = Targets(source, move),
           \A q \in Targets(source, move) :
               Arrived(call, source.cells, source.cells, q, overlay[q])
    PROVE  Exchanges(call, source.cells, overlay ++ base)
<1> DEFINE new == overlay ++ base
           cells == source.cells
<1>1. /\ DOMAIN new = DOMAIN overlay \cup DOMAIN base
      /\ \A q \in DOMAIN overlay : new[q] = overlay[q]
      /\ \A q \in DOMAIN base \ DOMAIN overlay : new[q] = base[q]
  BY StoreOverlaid
<1> HIDE DEF new
<1>2. ASSUME NEW q \in Positions
      PROVE  IF Origin(q, move) \in Within(cells, move.range)
             THEN q \in DOMAIN new /\ Arrived(call, cells, cells, q, new[q])
             ELSE IF q \in Within(cells, move.range) /\ ~InPlace(move)
             THEN Vacated(call, cells, q, new)
             ELSE Untouched(cells, q, new)
  <2>1. q \in Targets(source, move) <=> Origin(q, move) \in Within(cells, move.range)
    BY TargetsAre
  <2>2. InPlace(move) => Origin(q, move) = q
    BY PlaceKept
  <2>3. IF q \in Within(cells, move.range) THEN Vacated(call, cells, q, base)
        ELSE Untouched(cells, q, base)
    BY DEF Departs
  <2> HIDE DEF cells
  <2>4. CASE q \in DOMAIN overlay
    BY <1>1, <2>1, <2>4 DEF cells
  <2>5. CASE q \notin DOMAIN overlay
    <3>1. /\ q \in DOMAIN new <=> q \in DOMAIN base
          /\ q \in DOMAIN base => new[q] = base[q]
      BY <1>1, <2>5
    <3>2. Vacated(call, cells, q, base) => Vacated(call, cells, q, new)
      BY <3>1 DEF Vacated
    <3>3. Untouched(cells, q, base) => Untouched(cells, q, new)
      BY <3>1 DEF Untouched
    <3> QED BY <2>1, <2>2, <2>3, <2>5, <3>2, <3>3
  <2> QED BY <2>4, <2>5
<1> QED BY <1>2 DEF Exchanges, new, cells

\* The bases that moves write over.
LEMMA SourcesDepart ==
    ASSUME NEW call, NEW move, call.argument = move, NEW source, IsStore(source.cells)
    PROVE  /\ call.what = "move" => Departs(call, source.cells, Remaining(source, move))
           /\ call.what = "move values" =>
                  Departs(call, source.cells, Emptied(source, move) ++ source.cells)
           /\ call.what = "move styles" =>
                  Departs(call, source.cells, Unstyled(source, move) ++ source.cells)
<1> DEFINE cells == source.cells
           S == Within(cells, move.range)
<1>1. S \in SUBSET DOMAIN cells
  BY DEF Within
<1>2. ASSUME call.what = "move" PROVE Departs(call, cells, Remaining(source, move))
  <2> DEFINE T == DOMAIN cells \ S
             new == Remaining(source, move)
  <2>1. T \in SUBSET DOMAIN cells OBVIOUS
  <2>2. DOMAIN new = T /\ \A p \in T : new[p] = cells[p]
    <3> HIDE DEF T
    <3>1. DOMAIN Restrict(cells, T) = T /\ \A p \in T : Restrict(cells, T)[p] = cells[p]
      BY <2>1, StoreRestricted
    <3> QED BY <3>1 DEF Remaining, T
  <2> HIDE DEF new
  <2> QED BY <1>1, <1>2, <2>2 DEF Departs, Vacated, Untouched, new
<1>3. ASSUME call.what = "move values"
      PROVE  Departs(call, cells, Emptied(source, move) ++ cells)
  <2> DEFINE top == Emptied(source, move)
             new == top ++ cells
  <2>1. DOMAIN top = S /\ \A p \in S : top[p] = Styled(Blank, cells[p].style)
    BY <1>1 DEF Emptied, StyleAt
  <2>2. IsStore(top) BY SourcesAreStores
  <2> HIDE DEF top
  <2>3. /\ DOMAIN new = DOMAIN top \cup DOMAIN cells
        /\ \A q \in DOMAIN top : new[q] = top[q]
        /\ \A q \in DOMAIN cells \ DOMAIN top : new[q] = cells[q]
    BY <2>2, StoreOverlaid
  <2> HIDE DEF new
  <2> QED BY <1>1, <1>3, <2>1, <2>3 DEF Departs, Vacated, Untouched, new, top
<1>4. ASSUME call.what = "move styles"
      PROVE  Departs(call, cells, Unstyled(source, move) ++ cells)
  <2> DEFINE top == Unstyled(source, move)
             new == top ++ cells
  <2>1. DOMAIN top = S /\ \A p \in S : top[p] = Styled(cells[p], NoStyle)
    BY DEF Unstyled
  <2>2. IsStore(top) BY SourcesAreStores
  <2> HIDE DEF top
  <2>3. /\ DOMAIN new = DOMAIN top \cup DOMAIN cells
        /\ \A q \in DOMAIN top : new[q] = top[q]
        /\ \A q \in DOMAIN cells \ DOMAIN top : new[q] = cells[q]
    BY <2>2, StoreOverlaid
  <2> HIDE DEF new
  <2> QED BY <1>1, <1>4, <2>1, <2>3 DEF Departs, Vacated, Untouched, new, top
<1> QED BY <1>2, <1>3, <1>4

LEMMA ReplacedIs ==
    ASSUME NEW cells, RecordsReplaced(cells) # Refused
    PROVE  RecordsReplaced(cells).cells = cells
BY DEF RecordsReplaced, Session

\* The overlays hold what should arrive.
LEMMA OverlaysArrive ==
    ASSUME NEW call, NEW move, call.argument = move, IsMove(move),
           NEW source, IsStore(source.cells), NEW session, IsStore(session.cells)
    PROVE  /\ call.what \in {"copy", "move"} =>
                  Arrives(call, source.cells, session.cells,
                          CellOverlay(source, move) ++ session.cells)
           /\ call.what \in {"copy values", "move values"} =>
                  Arrives(call, source.cells, session.cells,
                          ValueOverlay(source, session, move) ++ session.cells)
           /\ call.what \in {"copy styles", "move styles"}
                  /\ Represented(source, session, move) =>
                  Arrives(call, source.cells, session.cells,
                          StyleOverlay(source, session, move) ++ session.cells)
<1> DEFINE S == Targets(source, move)
           cells == session.cells
<1>1. \A q \in S : IsRecord(source.cells[Origin(q, move)])
                    /\ Origin(q, move) \in DOMAIN source.cells
  BY TargetsStay DEF Within
<1>2. ASSUME call.what \in {"copy", "move"}
      PROVE  Arrives(call, source.cells, cells, CellOverlay(source, move) ++ cells)
  <2> DEFINE c == CellOverlay(source, move)
  <2>1. DOMAIN c = S /\ \A q \in S : c[q] = Translated(source.cells[Origin(q, move)], move)
    BY DEF CellOverlay
  <2>2. IsStore(c) BY OverlaysAreStores
  <2> HIDE DEF c
  <2>3. ASSUME NEW q \in S PROVE Arrived(call, source.cells, cells, q, c[q])
    <3>1. PICK o : o = Origin(q, move) /\ IsRecord(source.cells[o]) BY <1>1
    <3>2. Arrived(call, source.cells, cells, q, Translated(source.cells[o], move))
      BY <1>2, <3>1, RecordsArrive, Zenon
    <3> QED BY <2>1, <3>1, <3>2
  <2>4. Arrives(call, source.cells, cells, c ++ cells)
    BY <2>1, <2>2, <2>3, OverlayArrives
  <2> QED BY <2>4 DEF c
<1>3. ASSUME call.what \in {"copy values", "move values"}
      PROVE  Arrives(call, source.cells, cells, ValueOverlay(source, session, move) ++ cells)
  <2> DEFINE c == ValueOverlay(source, session, move)
  <2>1. DOMAIN c = S
        /\ \A q \in S : c[q] = Styled(Translated(source.cells[Origin(q, move)], move),
                                       StyleAt(cells, q))
    BY DEF ValueOverlay
  <2>2. IsStore(c) BY OverlaysAreStores
  <2> HIDE DEF c
  <2>3. ASSUME NEW q \in S PROVE Arrived(call, source.cells, cells, q, c[q])
    <3>1. PICK o : o = Origin(q, move) /\ IsRecord(source.cells[o]) BY <1>1
    <3>2. Arrived(call, source.cells, cells, q,
                  Styled(Translated(source.cells[o], move), StyleAt(cells, q)))
      BY <1>3, <3>1, RecordsArrive, Zenon
    <3> QED BY <2>1, <3>1, <3>2
  <2>4. Arrives(call, source.cells, cells, c ++ cells)
    BY <2>1, <2>2, <2>3, OverlayArrives
  <2> QED BY <2>4 DEF c
<1>4. ASSUME call.what \in {"copy styles", "move styles"}, Represented(source, session, move)
      PROVE  Arrives(call, source.cells, cells, StyleOverlay(source, session, move) ++ cells)
  <2> DEFINE c == StyleOverlay(source, session, move)
  <2>1. DOMAIN c = S
        /\ \A q \in S : c[q] = Styled(cells[q], source.cells[Origin(q, move)].style)
    BY <1>1 DEF StyleOverlay, StyleAt
  <2>2. IsStore(c) BY <1>4, OverlaysAreStores
  <2> HIDE DEF c
  <2>3. ASSUME NEW q \in S PROVE Arrived(call, source.cells, cells, q, c[q])
    <3>1. PICK o : o = Origin(q, move) /\ IsRecord(source.cells[o]) BY <1>1
    <3>2. Arrived(call, source.cells, cells, q, Styled(cells[q], source.cells[o].style))
      BY <1>4, <3>1, RecordsArrive, Zenon
    <3> QED BY <2>1, <3>1, <3>2
  <2>4. Arrives(call, source.cells, cells, c ++ cells)
    BY <2>1, <2>2, <2>3, OverlayArrives
  <2> QED BY <2>4 DEF c
<1> QED BY <1>2, <1>3, <1>4

LEMMA CopiesArrive ==
    ASSUME NEW call, call.what \in Transfers, NEW move, call.argument = move, IsMove(move),
           NEW source, IsStore(source.cells), NEW session, IsStore(session.cells),
           NEW own, own => source = session, NEW next, next # Refused,
           \/ call.what = "copy" /\ next = CellsCopied(source, session, move, own)
           \/ call.what = "copy values" /\ next = ValuesCopied(source, session, move, own)
           \/ call.what = "copy styles" /\ next = StylesCopied(source, session, move, own)
    PROVE  Arrives(call, source.cells, session.cells, next.cells)
<1> DEFINE cells == session.cells
           Fits(overlay) == Arrives(call, source.cells, cells, overlay ++ cells)
<1>1. NothingToDo(source, move, own) => Arrives(call, source.cells, cells, cells)
  BY NothingTransferred DEF NothingToDo
<1>2. /\ call.what = "copy" => Fits(CellOverlay(source, move))
      /\ call.what = "copy values" => Fits(ValueOverlay(source, session, move))
      /\ call.what = "copy styles" /\ Represented(source, session, move) =>
             Fits(StyleOverlay(source, session, move))
  BY OverlaysArrive
<1>3. \A overlay : /\ Fits(overlay)
                   /\ \/ next = RecordsReplaced(overlay ++ cells)
                      \/ next = session /\ overlay ++ cells = cells
                   => Arrives(call, source.cells, cells, next.cells)
  BY ReplacedIs
<1> HIDE DEF Fits
<1>4. CASE call.what = "copy"
  BY <1>1, <1>2, <1>3, <1>4 DEF CellsCopied
<1>5. CASE call.what = "copy values"
  BY <1>1, <1>2, <1>3, <1>5 DEF ValuesCopied
<1>6. CASE call.what = "copy styles"
  BY <1>1, <1>2, <1>3, <1>6 DEF StylesCopied
<1> QED BY <1>4, <1>5, <1>6

LEMMA MovesExchange ==
    ASSUME NEW call, call.what \in Transfers, NEW move, call.argument = move, IsMove(move),
           NEW session, IsStore(session.cells), NEW next, next # Refused,
           \/ call.what = "move" /\ next = CellsMoved(session, move)
           \/ call.what = "move values" /\ next = ValuesMoved(session, move)
           \/ call.what = "move styles" /\ next = StylesMoved(session, move)
    PROVE  Exchanges(call, session.cells, next.cells)
<1> DEFINE cells == session.cells
           S == Targets(session, move)
<1>1. NothingToDo(session, move, TRUE) => Exchanges(call, cells, cells)
  BY NothingTransferred DEF NothingToDo
<1>2. \A q \in S : IsRecord(cells[Origin(q, move)]) /\ Origin(q, move) \in DOMAIN cells
  BY TargetsStay DEF Within
<1>3. /\ IsStore(Emptied(session, move)) /\ IsStore(Unstyled(session, move))
      /\ IsStore(Remaining(session, move))
  BY SourcesAreStores
<1>4. CASE call.what = "move"
  <2> DEFINE c == CellOverlay(session, move)
             base == Remaining(session, move)
  <2>1. DOMAIN c = S /\ \A q \in S : c[q] = Translated(cells[Origin(q, move)], move)
    BY DEF CellOverlay
  <2>2. IsStore(c) BY OverlaysAreStores
  <2>3. next = IF NothingToDo(session, move, TRUE) THEN session ELSE RecordsReplaced(c ++ base)
    BY <1>4 DEF CellsMoved
  <2>4. Departs(call, cells, base) BY <1>4, SourcesDepart
  <2> HIDE DEF c, base
  <2>5. ASSUME NEW q \in S PROVE Arrived(call, cells, cells, q, c[q])
    <3>1. PICK o : o = Origin(q, move) /\ IsRecord(cells[o]) BY <1>2
    <3>2. call.what \in {"copy", "move"} BY <1>4
    <3>3. Arrived(call, cells, cells, q, Translated(cells[o], move))
      BY <3>1, <3>2, RecordsArrive, Zenon
    <3> QED BY <2>1, <3>1, <3>3
  <2>6. Exchanges(call, cells, c ++ base)
    BY <1>3, <2>1, <2>2, <2>4, <2>5, OverlayExchanges DEF base
  <2> QED BY <1>1, <2>3, <2>6, ReplacedIs
<1>5. CASE call.what = "move values"
  <2> DEFINE c == ValueOverlay(session, session, move)
             base == Emptied(session, move) ++ cells
  <2>1. DOMAIN c = S /\ \A q \in S : c[q] = Styled(Translated(cells[Origin(q, move)], move),
                                                    StyleAt(cells, q))
    BY DEF ValueOverlay
  <2>2. IsStore(c) BY OverlaysAreStores
  <2>3. next = IF NothingToDo(session, move, TRUE) THEN session ELSE RecordsReplaced(c ++ base)
    <3>1. next = IF NothingToDo(session, move, TRUE) THEN session
                 ELSE RecordsReplaced((c ++ Emptied(session, move)) ++ cells)
      BY <1>5 DEF ValuesMoved
    <3>2. (c ++ Emptied(session, move)) ++ cells = c ++ base
      <4> DEFINE e == Emptied(session, move)
                 ce == c ++ e
      <4>1. /\ DOMAIN ce = DOMAIN c \cup DOMAIN e
            /\ \A x \in DOMAIN ce : ce[x] = IF x \in DOMAIN c THEN c[x] ELSE e[x]
            /\ DOMAIN base = DOMAIN e \cup DOMAIN cells
            /\ \A x \in DOMAIN base : base[x] = IF x \in DOMAIN e THEN e[x] ELSE cells[x]
        BY DEF ++
      <4> HIDE DEF ce, c, base, e, cells
      <4>2. ce ++ cells = c ++ base BY <4>1 DEF ++
      <4> QED BY <4>2 DEF ce, e
    <3> QED BY <3>1, <3>2
  <2>4. Departs(call, cells, base) BY <1>5, SourcesDepart
  <2>5. IsStore(base) BY <1>3, StoreOverlaid
  <2> HIDE DEF c, base
  <2>6. ASSUME NEW q \in S PROVE Arrived(call, cells, cells, q, c[q])
    <3>1. PICK o : o = Origin(q, move) /\ IsRecord(cells[o]) BY <1>2
    <3>2. call.what \in {"copy values", "move values"} BY <1>5
    <3>3. Arrived(call, cells, cells, q,
                  Styled(Translated(cells[o], move), StyleAt(cells, q)))
      BY <3>1, <3>2, RecordsArrive, Zenon
    <3> QED BY <2>1, <3>1, <3>3
  <2>7. Exchanges(call, cells, c ++ base)
    BY <2>1, <2>2, <2>4, <2>5, <2>6, OverlayExchanges
  <2> QED BY <1>1, <2>3, <2>7, ReplacedIs
<1>6. CASE call.what = "move styles"
  <2> DEFINE base == Unstyled(session, move) ++ cells
             c == [q \in S |-> Styled(base[q], StyleAt(cells, Origin(q, move)))]
  <2>1. next = IF NothingToDo(session, move, TRUE) THEN session
               ELSE IF ~Represented(session, session, move) THEN Refused
               ELSE IF c ++ base = cells THEN session ELSE RecordsReplaced(c ++ base)
    BY <1>6 DEF StylesMoved
  <2>2. Departs(call, cells, base) BY <1>6, SourcesDepart
  <2>3. IsStore(base) BY <1>3, StoreOverlaid
  <2>4. \A q \in S : StyleAt(cells, Origin(q, move)) = cells[Origin(q, move)].style
    BY <1>2 DEF StyleAt
  <2>5. ASSUME NEW q \in S, Represented(session, session, move)
        PROVE  /\ q \in DOMAIN base /\ IsRecord(cells[q]) /\ IsRecord(base[q])
               /\ base[q] = cells[q] \/ base[q] = Styled(cells[q], NoStyle)
    <3> DEFINE top == Unstyled(session, move)
    <3>1. top = [p \in Within(cells, move.range) |-> Styled(cells[p], NoStyle)] BY DEF Unstyled
    <3>2. q \in DOMAIN cells /\ IsRecord(cells[q]) BY <2>5 DEF Represented, IsStore
    <3>3. \A p \in DOMAIN top : top[p] = Styled(cells[p], NoStyle) BY <3>1
    <3> HIDE DEF top
    <3>0. IsStore(top) BY <1>3 DEF top
    <3>4. /\ DOMAIN (top ++ cells) = DOMAIN top \cup DOMAIN cells
          /\ \A p \in DOMAIN top : (top ++ cells)[p] = top[p]
          /\ \A p \in DOMAIN cells \ DOMAIN top : (top ++ cells)[p] = cells[p]
      BY <3>0, StoreOverlaid
    <3>5. base = top ++ cells BY DEF top
    <3>6. q \in DOMAIN base BY <3>2, <3>4, <3>5
    <3>7. base[q] = cells[q] \/ base[q] = Styled(cells[q], NoStyle)
      BY <3>2, <3>3, <3>4, <3>5
    <3> HIDE DEF base
    <3>8. IsRecord(base[q]) BY <2>3, <3>6 DEF IsStore
    <3> QED BY <3>2, <3>6, <3>7, <3>8
  <2>6. DOMAIN c = S /\ \A q \in S : c[q] = Styled(base[q], cells[Origin(q, move)].style)
    BY <2>4
  <2>7. c = [q \in S |-> c[q]] OBVIOUS
  <2> HIDE DEF c, base
  <2>8. ASSUME Represented(session, session, move) PROVE Exchanges(call, cells, c ++ base)
    <3>1. \A q \in S : c[q] = Styled(cells[q], cells[Origin(q, move)].style)
      <4> SUFFICES ASSUME NEW q \in S
                   PROVE  c[q] = Styled(cells[q], cells[Origin(q, move)].style)
        OBVIOUS
      <4> DEFINE style == cells[Origin(q, move)].style
                 r == cells[q]
      <4>1. IsRecord(r) /\ IsRecord(base[q]) /\ (base[q] = r \/ base[q] = Styled(r, NoStyle))
        BY <2>5, <2>8
      <4>2. c[q] = Styled(base[q], style) BY <2>6
      <4> HIDE DEF style, r, S
      <4>3. base[q].kind = r.kind /\ base[q].text = r.text /\ base[q].formula = r.formula
        <5> DEFINE u == Record(r.kind, r.text, r.formula, NoStyle)
        <5>1. Styled(r, NoStyle) = u
          BY <4>1, StyledIs
        <5>2. u.kind = r.kind /\ u.text = r.text /\ u.formula = r.formula
          BY DEF Record
        <5> HIDE DEF u
        <5> QED BY <4>1, <5>1, <5>2
      <4>4. Styled(base[q], style) = Record(base[q].kind, base[q].text, base[q].formula, style)
            /\ Styled(r, style) = Record(r.kind, r.text, r.formula, style)
        BY <4>1, StyledIs
      <4>5. c[q] = Styled(r, style) BY <4>2, <4>3, <4>4
      <4> QED BY <4>5 DEF r, style
    <3>2. IsStore(c)
      <4>1. S \in SUBSET Positions BY TargetsStay
      <4>2. \A q \in S : IsRecord(c[q]) BY <2>5, <2>8, <3>1, StyledRecord
      <4> HIDE DEF S
      <4> QED BY <2>7, <4>1, <4>2, StoreGiven
    <3>3. ASSUME NEW q \in S PROVE Arrived(call, cells, cells, q, c[q])
      <4>1. PICK o : o = Origin(q, move) /\ IsRecord(cells[o]) BY <1>2
      <4>2. call.what \in {"copy styles", "move styles"} BY <1>6
      <4>3. Arrived(call, cells, cells, q, Styled(cells[q], cells[o].style))
        BY <4>1, <4>2, RecordsArrive, Zenon
      <4> QED BY <3>1, <4>1, <4>3
    <3> QED BY <2>2, <2>3, <2>6, <3>2, <3>3, OverlayExchanges
  <2> QED BY <1>1, <2>1, <2>8, ReplacedIs
<1> QED BY <1>4, <1>5, <1>6

LEMMA BothAre ==
    ASSUME NEW a, NEW b, Both(a, b) # Refused
    PROVE  a # Refused /\ b # Refused /\ Both(a, b).source = a /\ Both(a, b).session = b
BY DEF Both

LEMMA MovesDepart ==
    ASSUME NEW call, call.what \in Transfers, NEW move, call.argument = move, IsMove(move),
           NEW source, IsStore(source.cells), NEW session, IsStore(session.cells),
           NEW both, both # Refused,
           \/ call.what = "move" /\ both = CellsMovedBetween(source, session, move)
           \/ call.what = "move values" /\ both = ValuesMovedBetween(source, session, move)
           \/ call.what = "move styles" /\ both = StylesMovedBetween(source, session, move)
    PROVE  /\ Departs(call, source.cells, both.source.cells)
           /\ Arrives(call, source.cells, session.cells, both.session.cells)
<1> DEFINE Leaves(base) == Departs(call, source.cells, base)
           Fits(new) == Arrives(call, source.cells, session.cells, new)
           Becomes(was, next, cells) ==
               next = RecordsReplaced(cells) \/ (next = was /\ cells = was.cells)
<1>1. NothingToDo(source, move, FALSE) => Leaves(source.cells) /\ Fits(session.cells)
  BY NothingTransferred DEF NothingToDo
<1>2. ASSUME NEW base, Leaves(base), NEW new, Fits(new), NEW a, NEW b, both = Both(a, b),
             Becomes(source, a, base), Becomes(session, b, new)
      PROVE  Leaves(both.source.cells) /\ Fits(both.session.cells)
  <2>1. a # Refused /\ b # Refused /\ both.source = a /\ both.session = b
    BY <1>2, BothAre
  <2>2. a.cells = base /\ b.cells = new
    BY <1>2, <2>1, ReplacedIs
  <2> HIDE DEF Leaves, Fits
  <2> QED BY <1>2, <2>1, <2>2
<1>3. CASE NothingToDo(source, move, FALSE) /\ call.what # "move styles"
  <2>1. both = Both(source, session)
    BY <1>3 DEF CellsMovedBetween, ValuesMovedBetween
  <2>2. Becomes(source, source, source.cells) /\ Becomes(session, session, session.cells)
    OBVIOUS
  <2> HIDE DEF Leaves, Fits, Becomes
  <2>3. Leaves(both.source.cells) /\ Fits(both.session.cells)
    BY <1>1, <1>2, <1>3, <2>1, <2>2
  <2> QED BY <2>3 DEF Leaves, Fits
<1>4. CASE ~NothingToDo(source, move, FALSE) /\ call.what = "move"
  <2> DEFINE base == Remaining(source, move)
             new == CellOverlay(source, move) ++ session.cells
  <2>1. both = Both(RecordsReplaced(base), RecordsReplaced(new))
    BY <1>4 DEF CellsMovedBetween
  <2>2. Leaves(base) BY <1>4, SourcesDepart
  <2>3. Fits(new) BY <1>4, OverlaysArrive
  <2> HIDE DEF base, new
  <2>4. Becomes(source, RecordsReplaced(base), base) /\ Becomes(session, RecordsReplaced(new), new)
    OBVIOUS
  <2> HIDE DEF Leaves, Fits, Becomes
  <2>5. Leaves(both.source.cells) /\ Fits(both.session.cells)
    BY <1>2, <2>1, <2>2, <2>3, <2>4
  <2> QED BY <2>5 DEF Leaves, Fits
<1>5. CASE ~NothingToDo(source, move, FALSE) /\ call.what = "move values"
  <2> DEFINE base == Emptied(source, move) ++ source.cells
             new == ValueOverlay(source, session, move) ++ session.cells
  <2>1. both = Both(RecordsReplaced(base), RecordsReplaced(new))
    BY <1>5 DEF ValuesMovedBetween
  <2>2. Leaves(base) BY <1>5, SourcesDepart
  <2>3. Fits(new) BY <1>5, OverlaysArrive
  <2> HIDE DEF base, new
  <2>4. Becomes(source, RecordsReplaced(base), base) /\ Becomes(session, RecordsReplaced(new), new)
    OBVIOUS
  <2> HIDE DEF Leaves, Fits, Becomes
  <2>5. Leaves(both.source.cells) /\ Fits(both.session.cells)
    BY <1>2, <2>1, <2>2, <2>3, <2>4
  <2> QED BY <2>5 DEF Leaves, Fits
<1>6. CASE call.what = "move styles"
  <2> DEFINE base == Unstyled(source, move) ++ source.cells
             new == StyleOverlay(source, session, move) ++ session.cells
             a == IF base = source.cells THEN source ELSE RecordsReplaced(base)
             b == IF new = session.cells THEN session ELSE RecordsReplaced(new)
  <2>1. Represented(source, session, move) /\ both = Both(a, b)
    BY <1>6 DEF StylesMovedBetween
  <2>2. Leaves(base) BY <1>6, SourcesDepart
  <2>3. Fits(new) BY <1>6, <2>1, OverlaysArrive
  <2> HIDE DEF base, new
  <2>4. Becomes(source, a, base) /\ Becomes(session, b, new)
    OBVIOUS
  <2> HIDE DEF Leaves, Fits, Becomes, a, b
  <2>5. Leaves(both.source.cells) /\ Fits(both.session.cells)
    BY <1>2, <2>1, <2>2, <2>3, <2>4
  <2> QED BY <2>5 DEF Leaves, Fits
<1> QED BY <1>3, <1>4, <1>5, <1>6

LEMMA CellSetIs ==
    ASSUME NEW session, NEW p, NEW record, CellSet(session, p, record) # Refused
    PROVE  CellSet(session, p, record).cells = Only(p, record) ++ session.cells
BY DEF CellSet, Session

LEMMA CellStyleArrives ==
    ASSUME NEW call, call.what = "copy styles", NEW from \in Positions, NEW to \in Positions,
           call.argument = CellMove(from, to), NEW session, IsStore(session.cells),
           NEW next, next # Refused, next = CellStyleCopied(session, from, to)
    PROVE  Arrives(call, session.cells, session.cells, next.cells)
<1> DEFINE cells == session.cells
           move == CellMove(from, to)
           c == StyleOverlay(session, session, move)
           record == Styled(cells[to], StyleAt(cells, from))
<1>1. /\ {from, to} \subseteq DOMAIN cells
      /\ next = IF StyleAt(cells, from) = StyleAt(cells, to) THEN session
                ELSE CellSet(session, to, record)
  BY DEF CellStyleCopied
<1>2. IsMove(move) /\ Target(from, move) = to
      /\ \A p \in Positions : Inside(p, move.range) <=> p = from
  BY CellMoveIs
<1> HIDE DEF move
<1>3. Within(cells, move.range) = {from}
  BY <1>1, <1>2 DEF Within, IsStore
<1>4. Targets(session, move) = {to}
  BY <1>2, <1>3 DEF Targets
<1>5. Origin(to, move) = from
  <2>1. from \in Within(cells, move.range) BY <1>3
  <2>2. Origin(Target(from, move), move) = from BY <1>2, <2>1, TargetStays
  <2> QED BY <1>2, <2>2
<1>6. DOMAIN c = {to} /\ c[to] = record /\ c = [q \in {to} |-> record]
  BY <1>4, <1>5 DEF StyleOverlay
<1>7. Represented(session, session, move)
  BY <1>1, <1>4 DEF Represented
<1>8. Arrives(call, cells, cells, c ++ cells)
  BY <1>2, <1>7, OverlaysArrive DEF move
<1> HIDE DEF c, record
<1>9. CASE StyleAt(cells, from) = StyleAt(cells, to)
  <2>1. IsRecord(cells[to]) /\ to \in DOMAIN cells BY <1>1 DEF IsStore
  <2>2. record = cells[to]
    <3> DEFINE r == cells[to]
    <3>1. record = Styled(r, r.style) BY <1>9, <2>1 DEF record, StyleAt
    <3>2. IsRecord(r) BY <2>1
    <3> HIDE DEF r
    <3>3. Styled(r, r.style) = Record(r.kind, r.text, r.formula, r.style) BY <3>2, StyledIs
    <3>4. r = Record(r.kind, r.text, r.formula, r.style) BY <3>2 DEF IsRecord
    <3> QED BY <3>1, <3>3, <3>4, Zenon DEF r
  <2>3. c ++ cells = cells
    <3>1. cells = [p \in DOMAIN cells |-> cells[p]] BY DEF IsStore
    <3>2. c ++ cells = [p \in DOMAIN cells |-> cells[p]] BY <1>6, <2>1, <2>2 DEF ++
    <3> QED BY <3>1, <3>2, Zenon
  <2> QED BY <1>1, <1>8, <1>9, <2>3
<1>10. CASE StyleAt(cells, from) # StyleAt(cells, to)
  <2>1. next = CellSet(session, to, record) BY <1>1, <1>10
  <2>2. next.cells = Only(to, record) ++ cells
    BY <2>1, CellSetIs
  <2>3. Only(to, record) = c BY <1>6 DEF Only
  <2> QED BY <1>8, <2>2, <2>3
<1> QED BY <1>9, <1>10

(***************************************************************************)
(* The same on the sheets of the editor                                    *)
(***************************************************************************)
\* A call that changes one sheet, or the two it names.
LEMMA TransferredOnto ==
    ASSUME NEW call, NEW before, NEW after, NEW next, call.to \in DOMAIN before,
           \A x \in DOMAIN before :
               after[x] = IF x = call.to THEN next ELSE before[x],
           \/ /\ call.what \in {"copy", "copy values", "copy styles"}
              /\ Arrives(call, before[call.from].cells, before[call.to].cells, next.cells)
           \/ /\ call.from = call.to
              /\ Exchanges(call, before[call.to].cells, next.cells)
              /\ call.what \in {"move", "move values", "move styles"}
    PROVE  \A x \in DOMAIN before, q \in Positions : TransferredTo(x, q, call, before, after)
<1> SUFFICES ASSUME NEW x \in DOMAIN before, NEW q \in Positions
             PROVE  TransferredTo(x, q, call, before, after)
  OBVIOUS
<1>1. CASE x # call.to
  <2>1. after[x].cells = before[x].cells BY <1>1
  <2>2. Untouched(before[x].cells, q, after[x].cells) BY <2>1 DEF Untouched
  <2> QED BY <1>1, <2>2 DEF TransferredTo
<1>2. CASE x = call.to
  <2>1. after[x].cells = next.cells BY <1>2
  <2> QED BY <1>2, <2>1 DEF TransferredTo, Arrives, Exchanges
<1> QED BY <1>1, <1>2

LEMMA TransferredBetween ==
    ASSUME NEW call, NEW before, NEW after, NEW both, call.from # call.to,
           \A x \in DOMAIN before :
               after[x] = IF x = call.to THEN both.session
                          ELSE IF x = call.from THEN both.source ELSE before[x],
           call.what \in {"move", "move values", "move styles"},
           Departs(call, before[call.from].cells, both.source.cells),
           Arrives(call, before[call.from].cells, before[call.to].cells, both.session.cells)
    PROVE  \A x \in DOMAIN before, q \in Positions : TransferredTo(x, q, call, before, after)
<1> SUFFICES ASSUME NEW x \in DOMAIN before, NEW q \in Positions
             PROVE  TransferredTo(x, q, call, before, after)
  OBVIOUS
<1>1. CASE x \notin {call.from, call.to}
  <2>1. after[x].cells = before[x].cells BY <1>1
  <2>2. Untouched(before[x].cells, q, after[x].cells) BY <2>1 DEF Untouched
  <2> QED BY <1>1, <2>2 DEF TransferredTo
<1>2. CASE x = call.to
  <2>1. after[x].cells = both.session.cells BY <1>2
  <2> QED BY <1>2, <2>1 DEF TransferredTo, Arrives
<1>3. CASE x = call.from
  <2>1. after[x].cells = both.source.cells BY <1>3
  <2> QED BY <1>3, <2>1 DEF TransferredTo, Departs
<1> QED BY <1>1, <1>2, <1>3

\* The condition on a call that transferred something.
Conserves ==
    done'.what \in Transfers /\ edits' # edits =>
        \A x \in Opened, q \in Positions : TransferredTo(x, q, done', sessions, sessions')

LEMMA ReturnsConserves ==
    ASSUME NEW s \in Opened, NEW t \in Opened, NEW move, NEW next, NEW what,
           NEW call, call = Call(what, s, t, move), Returns(t, next, call),
           \/ /\ what \in {"copy", "copy values", "copy styles"}
              /\ Arrives(call, sessions[s].cells, sessions[t].cells, next.cells)
           \/ /\ s = t /\ what \in {"move", "move values", "move styles"}
              /\ Exchanges(call, sessions[t].cells, next.cells)
    PROVE  Conserves
<1>1. call.what = what /\ call.from = s /\ call.to = t
  BY DEF Call
<1>2. sessions' = [sessions EXCEPT ![t] = next] /\ done' = call
  BY DEF Returns
<1>3. /\ t \in DOMAIN sessions
      /\ \A x \in DOMAIN sessions : sessions'[x] = IF x = t THEN next ELSE sessions[x]
  BY <1>2 DEF Opened
<1>4. \A x \in DOMAIN sessions, q \in Positions : TransferredTo(x, q, call, sessions, sessions')
  BY <1>1, <1>3, TransferredOnto
<1> QED BY <1>2, <1>4 DEF Conserves, Opened

LEMMA ReturnsBothConserves ==
    ASSUME NEW s \in Opened, NEW t \in Opened \ {s}, NEW move, NEW both, NEW what,
           what \in {"move", "move values", "move styles"},
           NEW call, call = Call(what, s, t, move), ReturnsBoth(s, t, both, call),
           Departs(call, sessions[s].cells, both.source.cells),
           Arrives(call, sessions[s].cells, sessions[t].cells, both.session.cells)
    PROVE  Conserves
<1>1. call.what = what /\ call.from = s /\ call.to = t
  BY DEF Call
<1>2. /\ sessions' = [sessions EXCEPT ![s] = both.source, ![t] = both.session]
      /\ done' = call
  BY DEF ReturnsBoth
<1>3. \A x \in DOMAIN sessions :
          sessions'[x] = IF x = t THEN both.session
                         ELSE IF x = s THEN both.source ELSE sessions[x]
  BY <1>2 DEF Opened
<1>4. \A x \in DOMAIN sessions, q \in Positions : TransferredTo(x, q, call, sessions, sessions')
  BY <1>1, <1>3, TransferredBetween
<1> QED BY <1>2, <1>4 DEF Conserves, Opened

LEMMA TransferConserves ==
    ASSUME GridInv, NEW s \in Opened, Transfer(s)
    PROVE  Conserves
<1> DEFINE session == sessions[s]
<1>1. IsStore(session.cells)
  BY DEF GridInv, Guarded
<1>2. ASSUME NEW move \in Moves, NEW what, NEW next, NEW call,
             call = Call(what, s, s, move), Returns(s, next, call),
             \/ what = "copy" /\ next = CellsCopied(session, session, move, TRUE)
             \/ what = "copy values" /\ next = ValuesCopied(session, session, move, TRUE)
             \/ what = "copy styles" /\ next = StylesCopied(session, session, move, TRUE)
      PROVE  Conserves
  <2>1. call.what = what /\ call.argument = move /\ next # Refused
    BY <1>2 DEF Call, Returns
  <2>2. IsMove(move) BY MoveGiven
  <2>3. what \in {"copy", "copy values", "copy styles"} /\ call.what \in Transfers
    BY <1>2, <2>1 DEF Transfers
  <2> HIDE DEF session
  <2>4. Arrives(call, session.cells, session.cells, next.cells)
    BY <1>1, <1>2, <2>1, <2>2, <2>3, CopiesArrive
  <2> QED BY <1>2, <2>3, <2>4, ReturnsConserves DEF session
<1>3. ASSUME NEW move \in Moves, NEW what, NEW next, NEW call,
             call = Call(what, s, s, move), Returns(s, next, call),
             \/ what = "move" /\ next = CellsMoved(session, move)
             \/ what = "move values" /\ next = ValuesMoved(session, move)
             \/ what = "move styles" /\ next = StylesMoved(session, move)
      PROVE  Conserves
  <2>1. call.what = what /\ call.argument = move /\ next # Refused
    BY <1>3 DEF Call, Returns
  <2>2. IsMove(move) BY MoveGiven
  <2>3. what \in {"move", "move values", "move styles"} /\ call.what \in Transfers
    BY <1>3, <2>1 DEF Transfers
  <2> HIDE DEF session
  <2>4. Exchanges(call, session.cells, next.cells)
    BY <1>1, <1>3, <2>1, <2>2, <2>3, MovesExchange
  <2> QED BY <1>3, <2>3, <2>4, ReturnsConserves DEF session
<1>4. ASSUME NEW from \in Positions, NEW to \in Positions, NEW move, move = CellMove(from, to),
             NEW what, NEW next, NEW call, call = Call(what, s, s, move), Returns(s, next, call),
             \/ what = "copy styles" /\ next = CellStyleCopied(session, from, to)
             \/ what = "move styles" /\ next = CellStyleMoved(session, from, to)
      PROVE  Conserves
  <2>1. call.what = what /\ call.argument = move /\ next # Refused
    BY <1>4 DEF Call, Returns
  <2>2. IsMove(move) BY <1>4, CellMoveIs
  <2> HIDE DEF session
  <2>3. CASE what = "copy styles"
    <3>1. Arrives(call, session.cells, session.cells, next.cells)
      BY <1>1, <1>4, <2>1, <2>3, CellStyleArrives
    <3> QED BY <1>4, <2>3, <3>1, ReturnsConserves DEF session
  <2>4. CASE what = "move styles"
    <3>1. next = StylesMoved(session, move)
      BY <1>4, <2>1, <2>4 DEF CellStyleMoved, CellMove
    <3>2. call.what \in Transfers BY <2>1, <2>4 DEF Transfers
    <3>3. Exchanges(call, session.cells, next.cells)
      BY <1>1, <2>1, <2>2, <2>4, <3>1, <3>2, MovesExchange
    <3> QED BY <1>4, <2>4, <3>3, ReturnsConserves DEF session
  <2> QED BY <1>4, <2>3, <2>4
<1> HIDE DEF Conserves
<1>5. CASE CopyCells(s) \/ CopyCellValues(s) \/ CopyCellStyles(s)
  BY <1>2, <1>5 DEF CopyCells, CopyCellValues, CopyCellStyles
<1>6. CASE MoveCells(s) \/ MoveCellValues(s) \/ MoveCellStyles(s)
  BY <1>3, <1>6 DEF MoveCells, MoveCellValues, MoveCellStyles
<1>7. CASE CopyCellStyle(s) \/ MoveCellStyle(s)
  BY <1>4, <1>7 DEF CopyCellStyle, MoveCellStyle, CellMove
<1> QED BY <1>5, <1>6, <1>7 DEF Transfer

LEMMA TransferFromConserves ==
    ASSUME GridInv, NEW s \in Opened, NEW t \in Opened \ {s}, TransferFrom(s, t)
    PROVE  Conserves
<1> DEFINE source == sessions[s]
           session == sessions[t]
<1>1. IsStore(source.cells) /\ IsStore(session.cells)
  BY DEF GridInv, Guarded
<1>2. ASSUME NEW move \in Moves, NEW what, NEW next, NEW call,
             call = Call(what, s, t, move), Returns(t, next, call),
             \/ what = "copy" /\ next = CellsCopied(source, session, move, FALSE)
             \/ what = "copy values" /\ next = ValuesCopied(source, session, move, FALSE)
             \/ what = "copy styles" /\ next = StylesCopied(source, session, move, FALSE)
      PROVE  Conserves
  <2>1. call.what = what /\ call.argument = move /\ next # Refused
    BY <1>2 DEF Call, Returns
  <2>2. IsMove(move) BY MoveGiven
  <2>3. what \in {"copy", "copy values", "copy styles"} /\ call.what \in Transfers
    BY <1>2, <2>1 DEF Transfers
  <2> HIDE DEF source, session
  <2>4. Arrives(call, source.cells, session.cells, next.cells)
    BY <1>1, <1>2, <2>1, <2>2, <2>3, CopiesArrive
  <2> QED BY <1>2, <2>3, <2>4, ReturnsConserves DEF source, session
<1>3. ASSUME NEW move \in Moves, NEW what, NEW both, NEW call,
             call = Call(what, s, t, move), ReturnsBoth(s, t, both, call),
             \/ what = "move" /\ both = CellsMovedBetween(source, session, move)
             \/ what = "move values" /\ both = ValuesMovedBetween(source, session, move)
             \/ what = "move styles" /\ both = StylesMovedBetween(source, session, move)
      PROVE  Conserves
  <2>1. call.what = what /\ call.argument = move /\ both # Refused
    BY <1>3 DEF Call, ReturnsBoth
  <2>2. IsMove(move) BY MoveGiven
  <2>3. what \in {"move", "move values", "move styles"} /\ call.what \in Transfers
    BY <1>3, <2>1 DEF Transfers
  <2> HIDE DEF source, session
  <2>4. /\ Departs(call, source.cells, both.source.cells)
        /\ Arrives(call, source.cells, session.cells, both.session.cells)
    BY <1>1, <1>3, <2>1, <2>2, <2>3, MovesDepart
  <2> QED BY <1>3, <2>3, <2>4, ReturnsBothConserves DEF source, session
<1>4. CASE CopyCellsFrom(s, t) \/ CopyCellValuesFrom(s, t) \/ CopyCellStylesFrom(s, t)
  BY <1>2, <1>4 DEF CopyCellsFrom, CopyCellValuesFrom, CopyCellStylesFrom
<1>5. CASE MoveCellsFrom(s, t) \/ MoveCellValuesFrom(s, t) \/ MoveCellStylesFrom(s, t)
  BY <1>3, <1>5 DEF MoveCellsFrom, MoveCellValuesFrom, MoveCellStylesFrom
<1> QED BY <1>4, <1>5 DEF TransferFrom

\* The other calls are no transfers.
LEMMA OthersConserve ==
    /\ \A s \in Opened : Write(s) \/ Clear(s) => \E session : Edits(s, session)
    /\ \A s \in Opened : Restructure(s) =>
           \E session, argument : Returns(s, session, Call("shift", s, s, argument))
    /\ \A s, session : Edits(s, session) => Conserves
    /\ \A s, session, argument :
           Returns(s, session, Call("shift", s, s, argument)) => Conserves
    /\ \A s, strict : Worksheet(s, strict) => Conserves
    /\ Save => Conserves
<1>1. \A s \in Opened : Write(s) => \E session : Edits(s, session)
  BY DEF Write, SetCell, SetCells, AppendRow, SetRow, SetColumn, SetCellValue, SetCellValues,
         SetRowValues, SetColumnValues
<1>2. \A s \in Opened : Clear(s) => \E session : Edits(s, session)
  BY DEF Clear, EraseRows, EraseColumns, EraseCell, EraseCells, ClearRows, ClearColumns,
         ClearCellValue, ClearCellValues, ClearCellStyle, ClearCellStyles
<1>3. \A s \in Opened : Restructure(s) =>
          \E session, argument : Returns(s, session, Call("shift", s, s, argument))
  BY DEF Restructure, InsertRows, DeleteRows, InsertColumns, DeleteColumns, Restructures
<1>4. ASSUME NEW s, NEW session, Edits(s, session) PROVE Conserves
  <2>1. done'.what = "edit" BY <1>4 DEF Edits, Returns, Call
  <2> QED BY <2>1 DEF Conserves, Transfers
<1>5. ASSUME NEW s, NEW session, NEW argument,
             Returns(s, session, Call("shift", s, s, argument))
      PROVE  Conserves
  <2>1. done'.what = "shift" BY <1>5 DEF Returns, Call
  <2> QED BY <2>1 DEF Conserves, Transfers
<1>6. \A s, strict : Worksheet(s, strict) => Conserves
  BY DEF Worksheet, Conserves
<1>7. Save => Conserves
  BY DEF Save, Conserves
<1> QED BY <1>1, <1>2, <1>3, <1>4, <1>5, <1>6, <1>7

\* However large the sheets are, whatever their cells hold and wherever source
\* and destination overlap: a copy or a move of cells, values or styles, on one
\* sheet or between two, gives every cell it writes what its source held before
\* the call, with the references of a formula at the distance they had, leaves
\* behind what the form of the call says, and changes no other cell of any sheet
\* (the copy and move operations of MaterializedWorksheetSession, which plan all
\* records before CellStore::replace_records writes one).
THEOREM TransfersAreSimultaneous == Spec => TransfersConserve
<1>1. GridInv /\ [Next]_vars => [Conserves]_vars
  <2> SUFFICES ASSUME GridInv, Next PROVE Conserves
    OBVIOUS
  <2>1. ASSUME NEW s \in Sheets, NEW strict \in BOOLEAN, Worksheet(s, strict) PROVE Conserves
    BY <2>1, OthersConserve
  <2>2. ASSUME NEW s \in Opened, Write(s) \/ Clear(s) \/ Restructure(s) PROVE Conserves
    BY <2>2, OthersConserve
  <2>3. ASSUME NEW s \in Opened, Transfer(s) PROVE Conserves
    BY <2>3, TransferConserves
  <2>4. ASSUME NEW s \in Opened, NEW t \in Opened \ {s}, TransferFrom(s, t) PROVE Conserves
    BY <2>4, TransferFromConserves
  <2>5. CASE Save
    BY <2>5, OthersConserve
  <2> QED BY <2>1, <2>2, <2>3, <2>4, <2>5 DEF Next
<1>2. Spec => [][Conserves]_vars
  BY <1>1, GridInvariant, PTL DEF Spec
<1> QED BY <1>2 DEF TransfersConserve, Conserves, Transfers
=============================================================================
