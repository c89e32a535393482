----------------------- MODULE WorksheetRewriteProofs -----------------------
(***************************************************************************)
(* Theorems about WorksheetRewrite, for every worksheet, every patch and   *)
(* every way of cutting the worksheet into chunks.                         *)
(***************************************************************************)
EXTENDS WorksheetRewrite, DataInduction

-----------------------------------------------------------------------------
(* Where the pieces of a worksheet lie.                                    *)

\* g[n] is the number of bytes of the first n pieces.
Marks(g) ==
    /\ g \in [0 .. Len(source) -> Nat]
    /\ g[0] = 0 /\ g[Len(source)] = request.size
    /\ \A n \in 1 .. Len(source) : g[n] = g[n - 1] + source[n].bytes
    /\ \A n \in 0 .. Len(source) : g[n] <= request.size

LEMMA SourceType ==
    ASSUME request \in Requests
    PROVE  /\ source \in Markup /\ Len(source) \in Nat
           /\ \A n \in 1 .. Len(source) : source[n].bytes \in Nat
           /\ \A n \in 1 .. Len(source) - 1 : source[n].form # "cut"
           /\ request.size = Extent(source)
           /\ request.sizes \subseteq Nat
<1>1. /\ source \in Markup /\ request.size = Extent(source) /\ request.sizes \subseteq Nat
      /\ \A n \in 1 .. Len(source) - 1 : source[n].form # "cut"
  BY RequestsAssumption DEF source
<1>2. PICK S : S = [form : Forms, name : STRING, ref : Refs, bytes : Nat] OBVIOUS
<1>3. source \in Seq(S) BY <1>1, <1>2 DEF Markup
<1>4. \A p \in S : p.bytes \in Nat BY <1>2
<1> QED BY <1>1, <1>3, <1>4

LEMMA MarksExist ==
    ASSUME request \in Requests
    PROVE  \E g : Marks(g)
<1> DEFINE sizes == [i \in DOMAIN source |-> source[i].bytes]
           N == Len(source)
<1>1. sizes \in Seq(Nat) /\ Len(sizes) = N /\ N \in Nat
      /\ \A n \in 1 .. N : sizes[n] = source[n].bytes
  BY SourceType DEF Markup
<1>2. request.size = Sum(sizes)
  BY SourceType DEF Extent, Sum
<1> HIDE DEF sizes
<1>3. PICK g : Summing(g, sizes)
  BY <1>1, SummingExists
<1>4. g[N] = request.size
  BY <1>1, <1>2, <1>3, SummingSums
<1>5. /\ g \in [0 .. N -> Nat] /\ g[0] = 0
      /\ \A n \in 1 .. N : g[n] = g[n - 1] + sizes[n]
  BY <1>1, <1>3 DEF Summing
<1> DEFINE Good == {m \in 0 .. N : g[N - m] <= g[N]}
<1>6. 0 \in Good
  <2>1. N - 0 = N /\ g[N] \in Nat BY <1>1, <1>5
  <2> QED BY <1>1, <2>1
<1>7. ASSUME NEW m \in 0 .. N - 1, m \in Good PROVE m + 1 \in Good
  <2>1. /\ N - m \in 1 .. N /\ (N - m) - 1 = N - (m + 1) /\ m + 1 \in 0 .. N
        /\ N - (m + 1) \in 0 .. N /\ N - m \in 0 .. N
    BY <1>1
  <2>2. g[N - m] = g[N - (m + 1)] + sizes[N - m] BY <1>5, <2>1
  <2>3. g[N - m] \in Nat /\ g[N - (m + 1)] \in Nat /\ sizes[N - m] \in Nat /\ g[N] \in Nat
    <3>1. N \in 0 .. N BY <1>1
    <3>2. g[N - m] \in Nat /\ g[N - (m + 1)] \in Nat /\ g[N] \in Nat
      BY <1>5, <2>1, <3>1
    <3>3. \A n \in 1 .. N : sizes[n] \in Nat BY <1>1
    <3> QED BY <2>1, <3>2, <3>3
  <2>4. g[N - m] <= g[N] BY <1>7
  <2>5. g[N - (m + 1)] <= g[N] BY <2>2, <2>3, <2>4
  <2> QED BY <2>1, <2>5
<1>8. Good = 0 .. N
  <2>1. Good \in SUBSET (0 .. N) OBVIOUS
  <2> HIDE DEF Good
  <2> QED BY <1>1, <1>6, <1>7, <2>1, UpToBound
<1>9. ASSUME NEW n \in 0 .. N PROVE g[n] <= g[N]
  <2>1. N - n \in 0 .. N /\ N - (N - n) = n BY <1>1
  <2>2. N - n \in Good BY <1>8, <2>1
  <2> QED BY <2>1, <2>2
<1> QED BY <1>1, <1>4, <1>5, <1>9 DEF Marks

-----------------------------------------------------------------------------
(* The window.                                                             *)

\* What is read, pending and still to come is the worksheet, and the window
\* begins where a piece does.
WindowInv ==
    /\ request \in Requests
    /\ pass \in {"start"} \cup Passes \cup Endings
    /\ scan.at \in 0 .. Len(source)
    /\ scan.begin \in Nat /\ scan.fed \in Nat /\ scan.pending \in Nat
    /\ scan.final \in BOOLEAN
    /\ scan = [at |-> scan.at, begin |-> scan.begin, fed |-> scan.fed,
               pending |-> scan.pending, final |-> scan.final, ctx |-> scan.ctx]
    /\ \E g : Marks(g) /\ scan.begin = g[scan.at]
    /\ scan.begin <= scan.fed /\ scan.fed + scan.pending <= request.size
    /\ scan.final => scan.fed = request.size

\* The window at the start of a pass.
LEMMA FreshWindow ==
    ASSUME request \in Requests, request' = request, scan' = Fresh,
           pass' \in {"start"} \cup Passes \cup Endings
    PROVE  WindowInv'
<1>1. PICK g : Marks(g) BY MarksExist
<1>2. source' = source BY DEF source
<1>3. Marks(g)' BY <1>1, <1>2 DEF Marks
<1>4. Len(source) \in Nat /\ g[0] = 0 /\ g[0] <= request.size /\ request.size \in Nat
  BY <1>1, SourceType DEF Marks
<1> QED BY <1>2, <1>3, <1>4 DEF WindowInv, Fresh

LEMMA FailureKeepsWindow ==
    ASSUME WindowInv, Fail
    PROVE  WindowInv'
<1>1. CASE pass = "index"
  BY <1>1, FreshWindow DEF Fail, Enter, WindowInv, Passes
<1>2. CASE pass # "index"
  <2>1. UNCHANGED <<scan, request>> /\ pass' \in Endings
    BY <1>2 DEF Fail, End, Endings
  <2>2. source' = source BY <2>1 DEF source
  <2>3. \A g : Marks(g) => Marks(g)' BY <2>1, <2>2 DEF Marks
  <2> QED BY <2>1, <2>2, <2>3 DEF WindowInv
<1> QED BY <1>1, <1>2

\* A piece that is complete lies in the window.
LEMMA PieceInWindow ==
    ASSUME WindowInv, scan.at < Len(source), ~Starved
    PROVE  /\ scan.at + 1 \in 1 .. Len(source)
           /\ scan.begin + source[scan.at + 1].bytes <= scan.fed
<1>1. PICK g : Marks(g) /\ scan.begin = g[scan.at] BY DEF WindowInv
<1> DEFINE k == scan.at + 1
<1>2. /\ k \in 1 .. Len(source) /\ k - 1 = scan.at /\ k \in 0 .. Len(source)
  BY SourceType DEF WindowInv
<1>3. source[k].bytes \in Nat BY <1>2, SourceType DEF WindowInv
<1>4. g[k] = scan.begin + source[k].bytes /\ g[k] <= request.size
  BY <1>1, <1>2 DEF Marks
<1>5. Complete(source[k]) BY DEF Starved
<1>6. CASE scan.fed - scan.begin >= source[k].bytes
  BY <1>2, <1>3, <1>6 DEF WindowInv
<1>7. CASE scan.final
  BY <1>2, <1>3, <1>4, <1>7 DEF WindowInv
<1>8. scan.fed - scan.begin >= source[k].bytes \/ scan.final
  BY <1>3, <1>5 DEF Complete, Window, WindowInv
<1> QED BY <1>2, <1>6, <1>7, <1>8

LEMMA PassingKeepsWindow ==
    ASSUME WindowInv, scan.at < Len(source), ~Starved, scan' = Passed,
           UNCHANGED <<request, pass>>
    PROVE  WindowInv'
<1>1. PICK g : Marks(g) /\ scan.begin = g[scan.at] BY DEF WindowInv
<1>2. source' = source BY DEF source
<1>3. Marks(g)' BY <1>1, <1>2 DEF Marks
<1> DEFINE k == scan.at + 1
<1>4. k \in 1 .. Len(source) /\ scan.begin + source[k].bytes <= scan.fed
  BY PieceInWindow
<1>5. source[k].bytes \in Nat BY <1>4, SourceType DEF WindowInv
<1>6. scan' = [at |-> k, begin |-> scan.begin + source[k].bytes, fed |-> scan.fed,
               pending |-> scan.pending, final |-> scan.final,
               ctx |-> After(scan.ctx, source[k])]
  BY DEF Passed, WindowInv
<1>7. /\ scan'.at = k /\ scan'.begin = scan.begin + source[k].bytes /\ scan'.fed = scan.fed
      /\ scan'.pending = scan.pending /\ scan'.final = scan.final
      /\ scan'.ctx = After(scan.ctx, source[k])
  BY <1>6
<1>8. g[k] = scan.begin + source[k].bytes /\ k \in 0 .. Len(source)
  <2>1. k - 1 = scan.at BY DEF WindowInv
  <2> QED BY <1>1, <1>4, <2>1 DEF Marks
<1> QED BY <1>2, <1>3, <1>4, <1>5, <1>6, <1>7, <1>8 DEF WindowInv

LEMMA WindowInit == Init => WindowInv
<1> SUFFICES ASSUME Init PROVE WindowInv
  OBVIOUS
<1>1. PICK g : Marks(g) BY MarksExist DEF Init
<1>2. Len(source) \in Nat /\ g[0] = 0 /\ g[0] <= request.size /\ request.size \in Nat
  BY <1>1, SourceType DEF Marks, Init
<1> QED BY <1>1, <1>2 DEF Init, WindowInv, Fresh

\* Reading more keeps the pieces passed.
LEMMA ReadingKeepsWindow ==
    ASSUME WindowInv, UNCHANGED <<request, pass>>, NEW fed \in Nat, NEW pending \in Nat,
           NEW final \in BOOLEAN, fed >= scan.fed, fed + pending <= request.size,
           final => fed = request.size,
           scan' = [scan EXCEPT !.fed = fed, !.pending = pending, !.final = final]
    PROVE  WindowInv'
<1>1. PICK g : Marks(g) /\ scan.begin = g[scan.at] BY DEF WindowInv
<1>2. source' = source BY DEF source
<1>3. Marks(g)' BY <1>1, <1>2 DEF Marks
<1>4. scan' = [at |-> scan.at, begin |-> scan.begin, fed |-> fed,
               pending |-> pending, final |-> final, ctx |-> scan.ctx]
  BY DEF WindowInv
<1>5. /\ scan'.at = scan.at /\ scan'.begin = scan.begin /\ scan'.fed = fed
      /\ scan'.pending = pending /\ scan'.final = final /\ scan'.ctx = scan.ctx
  BY <1>4
<1>6. /\ scan.at \in 0 .. Len(source) /\ scan.begin \in Nat /\ scan.fed \in Nat
      /\ scan.begin <= fed /\ request.size \in Nat
  <2>1. Len(source) \in 0 .. Len(source) BY SourceType DEF WindowInv
  <2>2. request.size \in Nat BY <1>1, <2>1 DEF Marks
  <2>3. /\ scan.at \in 0 .. Len(source) /\ scan.begin \in Nat /\ scan.fed \in Nat
        /\ scan.begin <= scan.fed
    BY DEF WindowInv
  <2> QED BY <2>2, <2>3
<1>7. scan' = [at |-> scan'.at, begin |-> scan'.begin, fed |-> scan'.fed,
               pending |-> scan'.pending, final |-> scan'.final, ctx |-> scan'.ctx]
  BY <1>4, <1>5
<1>8. request' \in Requests /\ pass' \in {"start"} \cup Passes \cup Endings
  BY DEF WindowInv
<1>9. \E h : Marks(h)' /\ scan'.begin = h[scan'.at] BY <1>1, <1>3, <1>5
<1>10. request'.size = request.size OBVIOUS
<1> QED BY <1>2, <1>5, <1>6, <1>7, <1>8, <1>9, <1>10, Zenon DEF WindowInv

LEMMA WindowStep == WindowInv /\ [Next]_vars => WindowInv'
<1> SUFFICES ASSUME WindowInv, [Next]_vars PROVE WindowInv'
  OBVIOUS
<1>0. request \in Requests /\ request.size \in Nat
  <2>1. PICK g : Marks(g) BY DEF WindowInv
  <2>2. Len(source) \in 0 .. Len(source) BY SourceType DEF WindowInv
  <2> QED BY <2>1, <2>2 DEF WindowInv, Marks
<1>1. ASSUME UNCHANGED <<scan, request>>, pass' \in {"start"} \cup Passes \cup Endings
      PROVE  WindowInv'
  <2>1. source' = source BY <1>1 DEF source
  <2>2. \A g : Marks(g) => Marks(g)' BY <1>1, <2>1 DEF Marks
  <2> QED BY <1>1, <2>1, <2>2 DEF WindowInv
<1>2. CASE UNCHANGED vars
  BY <1>1, <1>2 DEF vars, WindowInv
<1>3. CASE Start
  <2>1. request' = request BY <1>3 DEF Start
  <2>2. CASE End("refused") BY <1>1, <2>1, <2>2 DEF End, Endings
  <2>3. CASE Enter(IF Indexable THEN "index" ELSE "analyze")
    BY <1>0, <2>1, <2>3, FreshWindow DEF Enter, Passes
  <2> QED BY <1>3, <2>2, <2>3 DEF Start
<1>4. CASE InflateFails
  BY <1>1, <1>4 DEF InflateFails, End, Endings
<1>5. CASE ReadChunk
  <2>1. UNCHANGED <<request, pass>> BY <1>5 DEF ReadChunk
  <2>2. ASSUME NEW size \in request.sizes \cup {request.size - scan.fed}, 0 < size,
               scan.fed + size <= request.size, scan' = [scan EXCEPT !.pending = size]
        PROVE  WindowInv'
    <3>1. size \in Nat
      <4>1. request.sizes \subseteq Nat BY <1>0, SourceType
      <4> QED BY <1>0, <2>2, <4>1 DEF WindowInv
    <3>2. scan' = [scan EXCEPT !.fed = scan.fed, !.pending = size, !.final = scan.final]
      BY <2>2 DEF WindowInv
    <3>3. /\ scan.fed \in Nat /\ scan.final \in BOOLEAN /\ scan.fed >= scan.fed
          /\ scan.final => scan.fed = request.size
      BY DEF WindowInv
    <3> QED BY <2>1, <2>2, <3>1, <3>2, <3>3, ReadingKeepsWindow
  <2>3. CASE scan.fed = request.size /\ scan' = [scan EXCEPT !.final = TRUE]
    <3>1. scan' = [scan EXCEPT !.fed = scan.fed, !.pending = scan.pending, !.final = TRUE]
      BY <2>3 DEF WindowInv
    <3>2. /\ scan.fed \in Nat /\ scan.pending \in Nat /\ scan.fed >= scan.fed
          /\ scan.fed + scan.pending <= request.size
      BY DEF WindowInv
    <3> QED BY <2>1, <2>3, <3>1, <3>2, ReadingKeepsWindow
  <2> QED BY <1>5, <2>2, <2>3 DEF ReadChunk
<1>6. CASE ReadFails
  BY <1>6, FailureKeepsWindow DEF ReadFails
<1>7. CASE Refill
  <2>1. UNCHANGED <<request, pass>> BY <1>7 DEF Refill
  <2> DEFINE room == Smaller(MaxWindow - (scan.fed - scan.begin), scan.pending)
  <2>2. ASSUME NEW n \in Nat, n <= scan.pending,
               scan' = [scan EXCEPT !.fed = scan.fed + n, !.pending = scan.pending - n]
        PROVE  WindowInv'
    <3>1. PICK fed \in Nat, pending \in Nat : /\ fed = scan.fed + n
                                              /\ pending = scan.pending - n
      BY <2>2 DEF WindowInv
    <3>2. scan' = [scan EXCEPT !.fed = fed, !.pending = pending, !.final = scan.final]
      BY <2>2, <3>1 DEF WindowInv
    <3>3. /\ scan.final \in BOOLEAN /\ fed >= scan.fed /\ fed + pending <= request.size
          /\ scan.final => fed = request.size
      BY <1>0, <2>2, <3>1 DEF WindowInv
    <3> QED BY <2>1, <3>2, <3>3, ReadingKeepsWindow
  <2>3. CASE InPlace
    <3>1. scan.pending \in Nat /\ scan.pending <= scan.pending /\ scan.pending - scan.pending = 0
      BY DEF WindowInv
    <3>2. scan' = [scan EXCEPT !.fed = scan.fed + scan.pending,
                              !.pending = scan.pending - scan.pending]
      BY <1>7, <2>3, <3>1 DEF Refill, FilledInPlace, WindowInv
    <3> QED BY <2>2, <3>1, <3>2
  <2>4. CASE ~InPlace
    <3>1. room \in Nat /\ room <= scan.pending
      BY <1>7, <2>4, WindowAssumption DEF Refill, WindowFull, Window, Smaller, WindowInv
    <3>2. scan' = [scan EXCEPT !.fed = scan.fed + room, !.pending = scan.pending - room]
      BY <1>7, <2>4 DEF Refill, Filled, Window, WindowInv
    <3> HIDE DEF room
    <3> QED BY <2>2, <3>1, <3>2
  <2> QED BY <2>3, <2>4
<1>8. CASE Overflow
  BY <1>8, FailureKeepsWindow DEF Overflow
<1>9. ASSUME ~Starved PROVE scan.at < Len(source)
  BY <1>9 DEF Starved
<1>10. CASE ScanPiece
  <2>1. CASE Fail BY <2>1, FailureKeepsWindow
  <2>2. CASE scan' = Passed /\ UNCHANGED <<request, pass>>
    BY <1>9, <1>10, <2>2, PassingKeepsWindow DEF ScanPiece
  <2> QED BY <1>10, <2>1, <2>2 DEF ScanPiece
<1>11. CASE TransformPiece
  <2>1. CASE Fail BY <2>1, FailureKeepsWindow
  <2>2. CASE scan' = Passed /\ UNCHANGED <<request, pass>>
    BY <1>9, <1>11, <2>2, PassingKeepsWindow DEF TransformPiece
  <2> QED BY <1>11, <2>1, <2>2 DEF TransformPiece
<1>12. CASE EndPlan
  <2>1. CASE Fail BY <2>1, FailureKeepsWindow
  <2>2. CASE End("indexed") /\ request' = request
    BY <1>1, <2>2 DEF End, Endings
  <2> QED BY <1>12, <2>1, <2>2 DEF EndPlan
<1>13. CASE EndAnalysis
  <2>1. CASE Fail BY <2>1, FailureKeepsWindow
  <2>2. CASE Enter("write") /\ request' = request
    BY <1>0, <2>2, FreshWindow DEF Enter, Passes
  <2> QED BY <1>13, <2>1, <2>2 DEF EndAnalysis
<1>14. CASE EndWrite
  <2>1. CASE Fail BY <2>1, FailureKeepsWindow
  <2>2. CASE End(IF request.linked = "fail" THEN "rejected" ELSE "streamed")
             /\ request' = request
    BY <1>1, <2>2 DEF End, Endings
  <2> QED BY <1>14, <2>1, <2>2 DEF EndWrite
<1> QED BY <1>2, <1>3, <1>4, <1>5, <1>6, <1>7, <1>8, <1>10, <1>11, <1>12, <1>13, <1>14
        DEF Next, Step, Done

LEMMA WindowHolds == Spec => []WindowInv
BY WindowInit, WindowStep, PTL DEF Spec

(* Only a piece that does not fit overflows the window: nothing that is    *)
(* waiting in it was already complete, and nothing behind the worksheet    *)
(* can fill it, however the worksheet is cut into chunks                   *)
(* (process_source_chunk, src/worksheet_event_reader.cpp:740-767).         *)
THEOREM OverflowingPiecesAreLarge == Spec => []OnlyLargePiecesOverflow
<1>1. WindowInv => OnlyLargePiecesOverflow
  <2> SUFFICES ASSUME WindowInv, pass \in Passes, Starved,
                      TailTooLong \/ (scan.pending > 0 /\ WindowFull)
               PROVE  LET piece == source[scan.at + 1]
                      IN  IF piece.form = "text" THEN piece.bytes >= MaxWindow
                          ELSE piece.bytes > MaxWindow
    BY DEF OnlyLargePiecesOverflow
  <2> DEFINE k == scan.at + 1
  <2>1. PICK g : Marks(g) /\ scan.begin = g[scan.at] BY DEF WindowInv
  <2>2. PICK w \in Nat : w = scan.fed - scan.begin /\ w = Window
    BY DEF WindowInv, Window
  <2>3. MaxWindow \in Nat /\ request.size \in Nat /\ Len(source) \in Nat
    <3>1. Len(source) \in 0 .. Len(source) BY SourceType DEF WindowInv
    <3> QED BY <2>1, <3>1, WindowAssumption DEF Marks
  <2>4. w + scan.pending <= request.size - scan.begin
    BY <2>2, <2>3 DEF WindowInv
  <2>5. \/ w > MaxWindow
        \/ scan.pending > 0 /\ w >= MaxWindow
    BY <2>2 DEF TailTooLong, WindowFull
  <2>6. scan.at < Len(source)
    <3>1. CASE scan.at = Len(source)
      <4>1. request.size - scan.begin = 0 BY <2>1, <2>3, <3>1 DEF Marks
      <4>2. scan.pending \in Nat BY DEF WindowInv
      <4>3. w + scan.pending <= 0 BY <2>4, <4>1
      <4> QED BY <2>2, <2>3, <2>5, <4>2, <4>3
    <3> QED BY <2>3, <3>1 DEF WindowInv
  <2>7. /\ k \in 1 .. Len(source) /\ k - 1 = scan.at
        /\ source[k].bytes \in Nat
    <3>1. k \in 1 .. Len(source) /\ k - 1 = scan.at BY <2>3, <2>6 DEF WindowInv
    <3> QED BY <3>1, SourceType DEF WindowInv
  <2>8. ~Complete(source[k]) BY <2>6 DEF Starved
  <2>9. CASE source[k].form = "text"
    <3>1. w <= source[k].bytes BY <2>2, <2>7, <2>8, <2>9 DEF Complete
    <3> QED BY <2>3, <2>5, <2>7, <2>9, <3>1
  <2>10. CASE source[k].form # "text" /\ w < source[k].bytes
    BY <2>3, <2>5, <2>7, <2>10
  <2>11. CASE source[k].form = "cut"
    <3>1. k = Len(source) BY <2>3, <2>7, <2>11, SourceType DEF WindowInv
    <3>2. request.size - scan.begin = source[k].bytes
      <4>1. g[k] = g[k - 1] + source[k].bytes /\ g[k] = request.size
        BY <2>1, <2>7, <3>1 DEF Marks
      <4> QED BY <2>1, <2>3, <2>7, <4>1 DEF WindowInv
    <3> QED BY <2>2, <2>3, <2>4, <2>5, <2>7, <2>11, <3>2 DEF WindowInv
  <2> QED BY <2>2, <2>7, <2>8, <2>9, <2>10, <2>11 DEF Complete
<1> QED BY <1>1, WindowHolds, PTL

-----------------------------------------------------------------------------
(* Lists.                                                                  *)

IsList(q) == Len(q) \in Nat /\ q = [i \in 1 .. Len(q) |-> q[i]]

LEMMA ListsAre ==
    ASSUME NEW q, IsList(q), NEW S, \A i \in 1 .. Len(q) : q[i] \in S
    PROVE  q \in Seq(S)
<1>1. PICK n \in Nat : n = Len(q) BY DEF IsList
<1>2. q = [i \in 1 .. n |-> q[i]] BY <1>1 DEF IsList
<1>3. q \in [1 .. n -> S] BY <1>1, <1>2
<1> QED BY <1>3

LEMMA SequencesAreLists ==
    ASSUME NEW S, NEW q \in Seq(S)
    PROVE  IsList(q) /\ \A i \in 1 .. Len(q) : q[i] \in S
BY DEF IsList

LEMMA ListJoined ==
    ASSUME NEW q, NEW r, IsList(q), IsList(r)
    PROVE  /\ IsList(q \o r) /\ Len(q \o r) = Len(q) + Len(r)
           /\ \A i \in 1 .. Len(q) : (q \o r)[i] = q[i]
           /\ \A i \in 1 .. Len(r) : (q \o r)[Len(q) + i] = r[i]
           /\ ToSet(q \o r) = ToSet(q) \cup ToSet(r)
<1> DEFINE S == {q[i] : i \in 1 .. Len(q)} \cup {r[i] : i \in 1 .. Len(r)}
<1>1. q \in Seq(S) /\ r \in Seq(S)
  <2>1. \A i \in 1 .. Len(q) : q[i] \in S OBVIOUS
  <2>2. \A i \in 1 .. Len(r) : r[i] \in S OBVIOUS
  <2> HIDE DEF S
  <2> QED BY <2>1, <2>2, ListsAre
<1> HIDE DEF S
<1>2. q \o r \in Seq(S) /\ Len(q \o r) = Len(q) + Len(r) /\ Len(q) \in Nat /\ Len(r) \in Nat
  BY <1>1
<1>3. /\ \A i \in 1 .. Len(q) : (q \o r)[i] = q[i]
      /\ \A i \in 1 .. Len(r) : (q \o r)[Len(q) + i] = r[i]
      /\ \A i \in 1 .. Len(q) + Len(r) :
             (q \o r)[i] = IF i <= Len(q) THEN q[i] ELSE r[i - Len(q)]
  BY <1>1
<1>4. ASSUME NEW x PROVE x \in ToSet(q \o r) <=> x \in ToSet(q) \cup ToSet(r)
  <2>1. /\ DOMAIN q = 1 .. Len(q) /\ DOMAIN r = 1 .. Len(r)
        /\ DOMAIN (q \o r) = 1 .. Len(q) + Len(r)
    BY <1>1, <1>2
  <2>2. ASSUME NEW i \in 1 .. Len(q) + Len(r), x = (q \o r)[i]
        PROVE  x \in ToSet(q) \cup ToSet(r)
    <3>1. CASE i <= Len(q) BY <1>2, <1>3, <2>1, <2>2, <3>1 DEF ToSet
    <3>2. CASE i > Len(q)
      <4>1. i - Len(q) \in 1 .. Len(r) /\ x = r[i - Len(q)] BY <1>2, <1>3, <2>2, <3>2
      <4> QED BY <2>1, <4>1 DEF ToSet
    <3> QED BY <1>2, <3>1, <3>2
  <2>3. ASSUME NEW i \in 1 .. Len(q), x = q[i] PROVE x \in ToSet(q \o r)
    <3>1. i \in 1 .. Len(q) + Len(r) BY <1>2
    <3> QED BY <1>3, <2>1, <2>3, <3>1 DEF ToSet
  <2>4. ASSUME NEW i \in 1 .. Len(r), x = r[i] PROVE x \in ToSet(q \o r)
    <3>1. Len(q) + i \in 1 .. Len(q) + Len(r) BY <1>2
    <3> QED BY <1>3, <2>1, <2>4, <3>1 DEF ToSet
  <2> QED BY <2>1, <2>2, <2>3, <2>4 DEF ToSet
<1> QED BY <1>1, <1>2, <1>3, <1>4, SequencesAreLists

LEMMA SingleList ==
    ASSUME NEW x
    PROVE  IsList(<<x>>) /\ Len(<<x>>) = 1 /\ <<x>>[1] = x /\ ToSet(<<x>>) = {x}
BY DEF IsList, ToSet

LEMMA EmptyList == IsList(<< >>) /\ Len(<< >>) = 0 /\ ToSet(<< >>) = {}
BY DEF IsList, ToSet

\* A joined list of lists has what its lists have.
LEMMA ListFlattened ==
    ASSUME NEW ss, IsList(ss), \A i \in 1 .. Len(ss) : IsList(ss[i])
    PROVE  /\ IsList(FlattenSeq(ss))
           /\ ToSet(FlattenSeq(ss)) = UNION {ToSet(ss[i]) : i \in 1 .. Len(ss)}
<1> DEFINE S == UNION {ToSet(ss[i]) : i \in 1 .. Len(ss)}
           flat == FlattenSeq(ss)
<1>1. \A i \in 1 .. Len(ss) : ss[i] \in Seq(S)
  <2> SUFFICES ASSUME NEW i \in 1 .. Len(ss) PROVE ss[i] \in Seq(S)
    OBVIOUS
  <2>1. PICK q : q = ss[i] OBVIOUS
  <2>2. IsList(q) BY <2>1
  <2>3. \A k \in 1 .. Len(q) : q[k] \in ToSet(q) BY <2>2 DEF IsList, ToSet
  <2>4. ToSet(q) \subseteq S BY <2>1
  <2>5. \A k \in 1 .. Len(q) : q[k] \in S BY <2>3, <2>4
  <2> HIDE DEF S
  <2> QED BY <2>1, <2>2, <2>5, ListsAre
<1>2. ss \in Seq(Seq(S))
  <2> HIDE DEF S
  <2> QED BY <1>1, ListsAre
<1>3. flat \in Seq(S)
  <2> HIDE DEF S
  <2> QED BY <1>2, FlattenType
<1>4. IsList(flat) /\ ToSet(flat) \subseteq S
  <2> HIDE DEF S, flat
  <2>1. IsList(flat) /\ \A k \in 1 .. Len(flat) : flat[k] \in S
    BY <1>3, SequencesAreLists
  <2>2. DOMAIN flat = 1 .. Len(flat) BY <1>3
  <2> QED BY <2>1, <2>2 DEF ToSet
<1>5. ASSUME NEW x \in S PROVE x \in ToSet(flat)
  <2>1. PICK i \in 1 .. Len(ss) : x \in ToSet(ss[i]) OBVIOUS
  <2> HIDE DEF S, flat
  <2>2. PICK d \in 1 .. Len(ss[i]) : x = ss[i][d]
    <3>1. ss[i] \in Seq(S) BY <1>1
    <3>2. DOMAIN ss[i] = 1 .. Len(ss[i]) BY <3>1
    <3> QED BY <2>1, <3>2 DEF ToSet
  <2>3. PICK g : Joining(g, ss, S) BY <1>2, JoiningExists
  <2>4. /\ Len(g[i - 1]) + d \in 1 .. Len(g[Len(ss)])
        /\ g[Len(ss)][Len(g[i - 1]) + d] = ss[i][d]
    <3>1. LaidOut(g, ss) BY <1>2, <2>3, JoiningLaid
    <3>2. \A n \in 1 .. Len(ss) : \A e \in 1 .. Len(ss[n]) :
             /\ Len(g[n - 1]) + e \in 1 .. Len(g[Len(ss)])
             /\ g[Len(ss)][Len(g[n - 1]) + e] = ss[n][e]
      BY <3>1, Zenon DEF LaidOut
    <3> QED BY <2>1, <2>2, <3>2, Zenon
  <2>5. flat = g[Len(ss)] BY <1>2, <2>3, JoiningFlattens DEF flat
  <2>6. DOMAIN flat = 1 .. Len(flat) BY <1>3
  <2> QED BY <2>2, <2>4, <2>5, <2>6 DEF ToSet
<1> QED BY <1>4, <1>5

-----------------------------------------------------------------------------
(* The events of a piece.                                                  *)

Boundary == {"worksheet", "sheetData", "row", "c"}

LEMMA EventsOfPiece ==
    ASSUME NEW ctx, NEW at, NEW piece
    PROVE  /\ ~IsTag(piece) => Events(ctx, at, piece) = <<Event("Other", at, piece)>>
           /\ IsTag(piece) /\ piece.name \in Boundary =>
                 Events(ctx, at, piece) =
                    CASE piece.form = "open" -> <<Event(StartKind[piece.name], at, piece)>>
                      [] piece.form = "close" -> <<Event(EndKind[piece.name], at, piece)>>
                      [] OTHER -> <<Event(StartKind[piece.name], at, piece),
                                    Event(EndKind[piece.name], at, piece)>>
           /\ IsTag(piece) /\ piece.name \notin Boundary =>
                 \/ Events(ctx, at, piece) = << >>
                 \/ Events(ctx, at, piece) = <<Event("CellValueMarkup", at, piece)>>
                 \/ Events(ctx, at, piece) = <<Event("Metadata", at, piece)>>
<1>1. DOMAIN StartKind = Boundary
  BY DEF StartKind, Boundary
<1>2. ASSUME NEW x, NEW y
      PROVE  /\ << >> \o <<x>> = <<x>> /\ <<x>> \o << >> = <<x>>
             /\ <<x>> \o <<y>> = <<x, y>>
  <2> DEFINE S == {x, y}
  <2>0. x \in S /\ y \in S OBVIOUS
  <2> HIDE DEF S
  <2>1. PICK p \in Seq(S) : p = <<x>> /\ Len(p) = 1 /\ p[1] = x
    <3>1. <<x>> \in Seq(S) BY <2>0
    <3> QED BY <3>1, SingleList
  <2>2. PICK q \in Seq(S) : q = <<y>> /\ Len(q) = 1 /\ q[1] = y
    <3>1. <<y>> \in Seq(S) BY <2>0
    <3> QED BY <3>1, SingleList
  <2>3. << >> \o p = p /\ p \o << >> = p BY ConcatEmptySeq
  <2>4. p \o q = <<x, y>>
    <3>1. p \o q \in Seq(S) /\ Len(p \o q) = 2 /\ (p \o q)[1] = x /\ (p \o q)[2] = y
      BY <2>1, <2>2
    <3>2. <<x, y>> \in Seq(S) /\ Len(<<x, y>>) = 2 /\ <<x, y>>[1] = x /\ <<x, y>>[2] = y
      BY <2>0
    <3>3. ASSUME NEW r \in Seq(S), NEW t \in Seq(S), Len(r) = 2, Len(t) = 2, r[1] = t[1],
                 r[2] = t[2]
          PROVE  r = t
      BY <3>3
    <3> QED BY <3>1, <3>2, <3>3
  <2> QED BY <2>1, <2>2, <2>3, <2>4
<1>3. CASE ~IsTag(piece)
  BY <1>3 DEF Events
<1>4. CASE IsTag(piece) /\ piece.name \in Boundary
  <2> DEFINE first == Event(StartKind[piece.name], at, piece)
             last == Event(EndKind[piece.name], at, piece)
  <2>1. Events(ctx, at, piece) = (IF piece.form = "close" THEN << >> ELSE <<first>>)
                                 \o (IF piece.form = "open" THEN << >> ELSE <<last>>)
    BY <1>1, <1>4 DEF Events
  <2> HIDE DEF first, last
  <2>2. CASE piece.form = "open" BY <1>2, <1>4, <2>1, <2>2 DEF first
  <2>3. CASE piece.form = "close" BY <1>2, <1>4, <2>1, <2>3 DEF last
  <2>4. CASE piece.form = "self" BY <1>2, <1>4, <2>1, <2>4 DEF first, last
  <2> QED BY <1>4, <2>2, <2>3, <2>4 DEF IsTag
<1>5. CASE IsTag(piece) /\ piece.name \notin Boundary
  BY <1>1, <1>5 DEF Events
<1> QED BY <1>3, <1>4, <1>5

\* What an event says of the piece it reports.
Reports(e, at, piece) ==
    /\ e = Event(e.kind, at, piece)
    /\ piece.name = "c" /\ IsTag(piece) => e.kind \in {"CellStart", "CellEnd"}
    /\ e.kind = "CellStart" => piece.name = "c" /\ piece.form \in {"open", "self"}
    /\ e.kind = "WorksheetStart" => piece.name = "worksheet" /\ piece.form \in {"open", "self"}
    /\ e.kind = "WorksheetEnd" => piece.name = "worksheet"
    /\ e.kind \in {"SheetDataStart", "SheetDataEnd"} => piece.name = "sheetData"
    /\ e.kind \in {"RowStart", "RowEnd"} => piece.name = "row"

LEMMA KindsAre ==
    /\ StartKind["worksheet"] = "WorksheetStart" /\ EndKind["worksheet"] = "WorksheetEnd"
    /\ StartKind["sheetData"] = "SheetDataStart" /\ EndKind["sheetData"] = "SheetDataEnd"
    /\ StartKind["row"] = "RowStart" /\ EndKind["row"] = "RowEnd"
    /\ StartKind["c"] = "CellStart" /\ EndKind["c"] = "CellEnd"
BY DEF StartKind, EndKind

LEMMA EventsReport ==
    ASSUME NEW ctx, NEW at, NEW piece
    PROVE  LET events == Events(ctx, at, piece) IN
           /\ events = << >> \/ (Len(events) = 1 /\ Reports(events[1], at, piece))
              \/ (Len(events) = 2 /\ Reports(events[1], at, piece)
                    /\ Reports(events[2], at, piece))
           /\ piece.name = "c" /\ piece.form = "open" =>
                 Len(events) = 1 /\ events[1].kind = "CellStart"
           /\ piece.name = "c" /\ piece.form = "self" =>
                 Len(events) = 2 /\ events[1].kind = "CellStart" /\ events[2].kind = "CellEnd"
           /\ piece.name = "worksheet" /\ piece.form \in {"open", "self"} =>
                 events # << >> /\ events[1].kind = "WorksheetStart"
<1> DEFINE events == Events(ctx, at, piece)
<1>0. ASSUME NEW kind PROVE Event(kind, at, piece).kind = kind
  BY DEF Event
<1>1. ASSUME NEW x, NEW y
      PROVE  /\ Len(<<x>>) = 1 /\ <<x>>[1] = x /\ <<x>> # << >>
             /\ Len(<<x, y>>) = 2 /\ <<x, y>>[1] = x /\ <<x, y>>[2] = y /\ <<x, y>> # << >>
  OBVIOUS
<1>2. CASE ~IsTag(piece)
  <2>1. events = <<Event("Other", at, piece)>> BY <1>2, EventsOfPiece
  <2>2. Reports(Event("Other", at, piece), at, piece) BY <1>0, <1>2 DEF Reports
  <2> HIDE DEF events
  <2>3. Len(events) = 1 /\ Reports(events[1], at, piece) BY <1>1, <2>1, <2>2
  <2> QED BY <1>2, <2>3 DEF IsTag, events
<1>3. CASE IsTag(piece) /\ piece.name \in Boundary
  <2> DEFINE first == Event(StartKind[piece.name], at, piece)
             last == Event(EndKind[piece.name], at, piece)
  <2>1. events = CASE piece.form = "open" -> <<first>>
                   [] piece.form = "close" -> <<last>>
                   [] OTHER -> <<first, last>>
    BY <1>3, EventsOfPiece
  <2>2. first.kind = StartKind[piece.name] /\ last.kind = EndKind[piece.name] BY <1>0
  <2>3. piece.form # "close" => Reports(first, at, piece)
    BY <1>3, <2>2, KindsAre DEF Reports, Boundary, IsTag
  <2>4. Reports(last, at, piece)
    BY <1>3, <2>2, KindsAre DEF Reports, Boundary, IsTag
  <2>5. /\ piece.name = "c" => first.kind = "CellStart" /\ last.kind = "CellEnd"
        /\ piece.name = "worksheet" => first.kind = "WorksheetStart"
    BY <2>2, KindsAre
  <2> HIDE DEF first, last, events
  <2>6. CASE piece.form = "open"
    <3>1. events = <<first>> BY <2>1, <2>6
    <3> QED BY <1>1, <2>3, <2>5, <2>6, <3>1 DEF events
  <2>7. CASE piece.form = "close"
    <3>1. events = <<last>> BY <2>1, <2>7
    <3> QED BY <1>1, <2>4, <2>7, <3>1 DEF events
  <2>8. CASE piece.form = "self"
    <3>1. events = <<first, last>> BY <2>1, <2>8
    <3> QED BY <1>1, <2>3, <2>4, <2>5, <2>8, <3>1 DEF events
  <2> QED BY <1>3, <2>6, <2>7, <2>8 DEF IsTag
<1>4. CASE IsTag(piece) /\ piece.name \notin Boundary
  <2>1. ASSUME NEW kind \in {"CellValueMarkup", "Metadata"}
        PROVE  Reports(Event(kind, at, piece), at, piece)
    BY <1>0, <1>4 DEF Reports, Boundary
  <2>2. \/ events = << >> \/ events = <<Event("CellValueMarkup", at, piece)>>
        \/ events = <<Event("Metadata", at, piece)>>
    BY <1>4, EventsOfPiece
  <2>3. piece.name # "c" /\ piece.name # "worksheet" BY <1>4 DEF Boundary
  <2> HIDE DEF events
  <2>4. events = << >> \/ (Len(events) = 1 /\ Reports(events[1], at, piece))
    BY <1>1, <2>1, <2>2
  <2> QED BY <2>3, <2>4 DEF events
<1> QED BY <1>2, <1>3, <1>4

-----------------------------------------------------------------------------
(* What the transformer emits for an event.                                *)

PatchFields == {"matched", "inserted", "replacing", "tail", "seenData", "suppress", "row",
                "refused", "actions"}

IsPatch(p) ==
    /\ DOMAIN p = PatchFields
    /\ p.replacing \in BOOLEAN
    /\ IsList(p.actions)

\* Markup of the transformer's own.
Made(a) ==
    \/ a.item = "insert" /\ a.kind = "CellStart" /\ a.name = "c" /\ a.ref \in Refs
    \/ a.item = "new" /\ a.kind # "CellStart" /\ a.name # "c"

Widened(e) == e.kind \in {"WorksheetStart", "SheetDataStart", "RowStart"}

Emitted(a, e) ==
    \/ a = Action("copy", e)
    \/ a = Action("cell", e) /\ e.kind = "CellStart"
    \/ a.item \in {"opened", "closed"} /\ a.at = e.at /\ a.name = e.name /\ Widened(e)
    \/ Made(a)

AllMade(q) == IsList(q) /\ \A a \in ToSet(q) : Made(a)
AllEmitted(q, e) == IsList(q) /\ \A a \in ToSet(q) : Emitted(a, e)

\* Patch n is patch p with the actions q behind p's.
Adds(p, n, q) ==
    /\ IsPatch(n) /\ n.actions = p.actions \o q
    /\ n.replacing = p.replacing /\ n.refused = p.refused

LEMMA PatchAdds ==
    ASSUME NEW p, IsPatch(p), NEW q, IsList(q), NEW refs
    PROVE  Adds(p, Does(p, q), q) /\ Adds(p, Inserting(p, refs, q), q)
<1>1. IsList(p.actions \o q)
  BY ListJoined DEF IsPatch
<1> DEFINE d == Does(p, q)
           i == Inserting(p, refs, q)
<1>2. /\ DOMAIN d = PatchFields /\ DOMAIN i = PatchFields
      /\ d.actions = p.actions \o q /\ i.actions = p.actions \o q
  BY DEF Does, Inserting, IsPatch, PatchFields
<1>3. /\ d.replacing = p.replacing /\ d.refused = p.refused
      /\ i.replacing = p.replacing /\ i.refused = p.refused
  BY DEF Does, Inserting, IsPatch, PatchFields
<1>4. p.replacing \in BOOLEAN BY DEF IsPatch
<1> HIDE DEF d, i
<1>5. IsPatch(d) /\ IsPatch(i)
  BY <1>1, <1>2, <1>3, <1>4 DEF IsPatch
<1> QED BY <1>2, <1>3, <1>5 DEF Adds, d, i

\* Patch n has the actions of patch p.
Keeps(p, n) == IsPatch(n) /\ n.actions = p.actions /\ n.refused = p.refused

\* What happens to a patch besides its actions.
LEMMA PatchMarked ==
    ASSUME NEW p, IsPatch(p), NEW x, NEW y
    PROVE  /\ \A n \in {[p EXCEPT !.suppress = x], [p EXCEPT !.seenData = x],
                        [p EXCEPT !.row = x], [p EXCEPT !.tail = x],
                        [p EXCEPT !.seenData = x, !.suppress = y],
                        [p EXCEPT !.row = x, !.suppress = y]} :
                 Keeps(p, n) /\ n.replacing = p.replacing
           /\ LET n == [p EXCEPT !.refused = TRUE]
              IN  IsPatch(n) /\ n.actions = p.actions /\ n.replacing = p.replacing
                  /\ n.refused
           /\ LET n == [p EXCEPT !.matched = @ \cup y, !.replacing = TRUE]
              IN  Keeps(p, n) /\ n.replacing
<1>1. /\ {"matched", "inserted", "replacing", "tail", "seenData", "suppress", "row",
          "refused", "actions"} = DOMAIN p
      /\ p.replacing \in BOOLEAN /\ IsList(p.actions)
  BY DEF IsPatch, PatchFields
<1>2. ASSUME NEW n, DOMAIN n = DOMAIN p, n.actions = p.actions, n.replacing \in BOOLEAN
      PROVE  IsPatch(n)
  BY <1>1, <1>2 DEF IsPatch
<1>3. ASSUME NEW n \in {[p EXCEPT !.suppress = x], [p EXCEPT !.seenData = x],
                        [p EXCEPT !.row = x], [p EXCEPT !.tail = x],
                        [p EXCEPT !.seenData = x, !.suppress = y],
                        [p EXCEPT !.row = x, !.suppress = y]}
      PROVE  Keeps(p, n) /\ n.replacing = p.replacing
  <2>1. DOMAIN n = DOMAIN p /\ n.actions = p.actions /\ n.replacing = p.replacing
        /\ n.refused = p.refused
    BY <1>1, <1>3
  <2> QED BY <1>1, <1>2, <2>1 DEF Keeps
<1>4. LET n == [p EXCEPT !.refused = TRUE]
      IN  IsPatch(n) /\ n.actions = p.actions /\ n.replacing = p.replacing /\ n.refused
  <2> DEFINE n == [p EXCEPT !.refused = TRUE]
  <2>1. DOMAIN n = DOMAIN p /\ n.actions = p.actions /\ n.replacing = p.replacing /\ n.refused
    BY <1>1
  <2> HIDE DEF n
  <2>2. IsPatch(n) BY <1>1, <1>2, <2>1
  <2> QED BY <2>1, <2>2 DEF n
<1>5. LET n == [p EXCEPT !.matched = @ \cup y, !.replacing = TRUE]
      IN  Keeps(p, n) /\ n.replacing
  <2> DEFINE n == [p EXCEPT !.matched = @ \cup y, !.replacing = TRUE]
  <2>1. DOMAIN n = DOMAIN p /\ n.actions = p.actions /\ n.replacing = TRUE
        /\ n.refused = p.refused
    BY <1>1
  <2> HIDE DEF n
  <2>2. IsPatch(n) BY <1>1, <1>2, <2>1
  <2> QED BY <2>1, <2>2 DEF n, Keeps
<1> QED BY <1>3, <1>4, <1>5

LEMMA PatchReplacing ==
    ASSUME NEW p, IsPatch(p), NEW x \in BOOLEAN
    PROVE  Keeps(p, [p EXCEPT !.replacing = x]) /\ [p EXCEPT !.replacing = x].replacing = x
<1> DEFINE n == [p EXCEPT !.replacing = x]
<1>1. {"replacing", "refused", "actions"} \subseteq DOMAIN p /\ IsList(p.actions)
  BY DEF IsPatch, PatchFields
<1>2. DOMAIN n = DOMAIN p /\ n.actions = p.actions /\ n.replacing = x
      /\ n.refused = p.refused
  BY <1>1
<1> HIDE DEF n
<1>3. IsPatch(n) BY <1>1, <1>2 DEF IsPatch
<1> QED BY <1>2, <1>3 DEF n, Keeps

LEMMA MadeJoined ==
    ASSUME NEW q, NEW r, AllMade(q), AllMade(r)
    PROVE  AllMade(q \o r)
BY ListJoined DEF AllMade

\* References that no two share a coordinate of.
Selectors(refs) ==
    /\ IsFiniteSet(refs) /\ refs \subseteq Refs
    /\ \A a, b \in refs : Spot(a) = Spot(b) => a = b

LEMMA SelectorsPart ==
    ASSUME NEW refs, Selectors(refs), NEW part \in SUBSET refs
    PROVE  Selectors(part)
BY FS_Subset DEF Selectors

\* In a list of references by position each of them is.
LEMMA PositionsTaken ==
    ASSUME NEW refs, Selectors(refs), NEW i \in 1 .. Cardinality(refs)
    PROVE  InPosition(refs)[i] \in refs
<1> DEFINE n == Cardinality(refs)
           below(x) == {y \in refs : Before(Spot(y), Spot(x))}
           rank == [x \in refs |-> Cardinality(below(x))]
<1>1. n \in Nat /\ IsFiniteSet(refs) BY FS_CardinalityType DEF Selectors
<1>2. \A x \in refs : /\ x.row \in Nat /\ x.col \in Nat
                       /\ Spot(x)[1] = x.row /\ Spot(x)[2] = x.col
  BY DEF Selectors, Refs, Spot
<1>3. ASSUME NEW x \in refs
      PROVE  /\ IsFiniteSet(below(x)) /\ Cardinality(below(x)) \in 0 .. n - 1
             /\ x \notin below(x)
  <2>1. x \notin below(x) BY <1>2 DEF Before
  <2>2. below(x) \in SUBSET refs /\ below(x) # refs BY <2>1
  <2>3. IsFiniteSet(below(x)) /\ Cardinality(below(x)) <= n /\ Cardinality(below(x)) # n
    BY <1>1, <2>2, FS_Subset
  <2>4. Cardinality(below(x)) \in Nat BY <2>3, FS_CardinalityType
  <2> QED BY <1>1, <2>1, <2>3, <2>4
<1>4. ASSUME NEW x \in refs, NEW y \in refs, Before(Spot(x), Spot(y))
      PROVE  rank[x] # rank[y]
  <2>1. below(x) \in SUBSET below(y) BY <1>2, <1>4 DEF Before
  <2>2. x \in below(y) /\ x \notin below(x) BY <1>3, <1>4
  <2>3. Cardinality(below(x)) # Cardinality(below(y))
    BY <1>3, <2>1, <2>2, FS_Subset
  <2> QED BY <2>3
<1>5. ASSUME NEW x \in refs, NEW y \in refs, x # y PROVE rank[x] # rank[y]
  <2>1. Spot(x) # Spot(y) BY <1>5 DEF Selectors
  <2>2. x.row # y.row \/ x.col # y.col BY <2>1 DEF Spot
  <2>3. Before(Spot(x), Spot(y)) \/ Before(Spot(y), Spot(x)) BY <1>2, <2>2 DEF Before
  <2> QED BY <1>4, <2>3
<1>6. rank \in Injection(refs, 0 .. n - 1)
  <2>1. rank \in [refs -> 0 .. n - 1] BY <1>3
  <2> HIDE DEF rank
  <2> QED BY <1>5, <2>1 DEF Injection, IsInjective
<1>7. IsFiniteSet(0 .. n - 1) /\ Cardinality(0 .. n - 1) = n
  <2>1. 0 \in Int /\ n - 1 \in Int /\ n >= 1 BY <1>1
  <2> QED BY <1>1, <2>1, FS_Interval
<1>8. rank \in Surjection(refs, 0 .. n - 1)
  <2> HIDE DEF rank
  <2> QED BY <1>6, <1>7, FS_Injection
<1>9. PICK x \in refs : rank[x] = i - 1
  <2>1. i - 1 \in 0 .. n - 1 BY <1>1
  <2> HIDE DEF rank
  <2> QED BY <1>8, <2>1 DEF Surjection
<1>10. InPosition(refs)[i] = CHOOSE z \in refs : Cardinality(below(z)) = i - 1
  BY DEF InPosition, Ranked
<1> QED BY <1>9, <1>10

\* What is inserted is one cell for each reference, and rows around cells.
LEMMA InsertsMade ==
    ASSUME NEW refs, Selectors(refs)
    PROVE  AllMade(Inserts(refs))
<1>1. PICK n \in Nat : n = Cardinality(refs) BY FS_CardinalityType DEF Selectors
<1>2. \A i \in 1 .. n : InPosition(refs)[i] \in Refs
  BY <1>1, PositionsTaken DEF Selectors
<1>3. Inserts(refs) = [i \in 1 .. n |-> Synthetic("insert", "CellStart", "c",
                                                 InPosition(refs)[i], FALSE)]
  BY <1>1 DEF Inserts
<1> DEFINE q == [i \in 1 .. n |-> Synthetic("insert", "CellStart", "c",
                                            InPosition(refs)[i], FALSE)]
<1>4. Len(q) = n /\ IsList(q) BY DEF IsList
<1>5. \A i \in 1 .. n : Made(q[i]) BY <1>2 DEF Made, Synthetic
<1>6. DOMAIN q = 1 .. n OBVIOUS
<1> HIDE DEF q
<1>7. AllMade(q) BY <1>4, <1>5, <1>6 DEF AllMade, ToSet
<1> QED BY <1>3, <1>7 DEF q

LEMMA NewMade ==
    ASSUME NEW kind, NEW name, NEW ref, NEW closing, kind # "CellStart", name # "c"
    PROVE  AllMade(<<Synthetic("new", kind, name, ref, closing)>>)
<1>1. Made(Synthetic("new", kind, name, ref, closing)) BY DEF Made, Synthetic
<1> QED BY <1>1, SingleList DEF AllMade

LEMMA RowMade ==
    ASSUME NEW refs, Selectors(refs), NEW row
    PROVE  AllMade(SyntheticRow(refs, row))
<1>1. Selectors({r \in refs : r.row = row}) BY SelectorsPart
<1>2. AllMade(Inserts({r \in refs : r.row = row})) BY <1>1, InsertsMade
<1>3. /\ AllMade(<<Synthetic("new", "RowStart", "row", Ref(row, 0), FALSE)>>)
      /\ AllMade(<<Synthetic("new", "RowEnd", "row", Ref(row, 0), TRUE)>>)
  BY NewMade
<1> QED BY <1>2, <1>3, MadeJoined DEF SyntheticRow

LEMMA RowsMade ==
    ASSUME NEW refs, Selectors(refs)
    PROVE  AllMade(SyntheticRows(refs))
<1> DEFINE set == {r.row : r \in refs}
<1>1. IsFiniteSet(set)
  <2> DEFINE f == [r \in refs |-> r.row]
  <2>1. f \in Surjection(refs, set) BY DEF Surjection
  <2> QED BY <2>1, FS_Surjection DEF Selectors
<1>2. PICK n \in Nat : n = Cardinality(set) BY <1>1, FS_CardinalityType
<1>3. PICK rows : rows = Ranked(set, <) OBVIOUS
<1>4. DOMAIN rows = 1 .. n BY <1>2, <1>3 DEF Ranked
<1> DEFINE q == [i \in 1 .. n |-> SyntheticRow(refs, rows[i])]
<1>5. SyntheticRows(refs) = FlattenSeq(q)
  <2>1. SyntheticRows(refs) = FlattenSeq([i \in DOMAIN rows |-> SyntheticRow(refs, rows[i])])
    BY <1>3 DEF SyntheticRows
  <2> QED BY <1>4, <2>1
<1>6. IsList(q) /\ Len(q) = n BY DEF IsList
<1>7. \A i \in 1 .. n : AllMade(q[i]) BY RowMade
<1> HIDE DEF q
<1>8. IsList(FlattenSeq(q))
      /\ ToSet(FlattenSeq(q)) = UNION {ToSet(q[i]) : i \in 1 .. Len(q)}
  BY <1>6, <1>7, ListFlattened DEF AllMade
<1> QED BY <1>5, <1>6, <1>7, <1>8 DEF AllMade

LEMMA DataMade ==
    ASSUME NEW refs, Selectors(refs)
    PROVE  AllMade(SyntheticData(refs))
<1>1. AllMade(<< >>) BY EmptyList DEF AllMade
<1>2. AllMade(SyntheticRows(refs)) BY RowsMade
<1>3. /\ AllMade(<<Synthetic("new", "SheetDataStart", "sheetData", NoRef, FALSE)>>)
      /\ AllMade(<<Synthetic("new", "SheetDataEnd", "sheetData", NoRef, TRUE)>>)
  BY NewMade
<1> QED BY <1>1, <1>2, <1>3, MadeJoined DEF SyntheticData

\* What one event does to a patch.
Follows(p, n, e) ==
    /\ IsPatch(n)
    /\ n.replacing => p.replacing \/ e.kind = "CellStart"
    /\ \E q :
          /\ AllEmitted(q, e) /\ n.actions = p.actions \o q
          /\ p.replacing /\ e.kind = "CellEnd" => ToSet(q) = {}
          /\ e.kind = "CellStart" /\ ~n.refused /\ ~n.replacing =>
                \E a \in ToSet(q) : a.kind = "CellStart" /\ a.ref = e.ref
          /\ e.kind = "WorksheetStart" /\ ~p.replacing =>
                \E a \in ToSet(q) : a.kind = "WorksheetStart"

LEMMA EmittedJoined ==
    ASSUME NEW q, NEW r, NEW e, AllEmitted(q, e), AllEmitted(r, e)
    PROVE  AllEmitted(q \o r, e)
BY ListJoined DEF AllEmitted

LEMMA MadeEmitted ==
    ASSUME NEW q, NEW e, AllMade(q)
    PROVE  AllEmitted(q, e)
BY DEF AllEmitted, AllMade, Emitted

LEMMA NoneEmitted ==
    ASSUME NEW e, NEW p, IsPatch(p)
    PROVE  AllEmitted(<< >>, e) /\ p.actions \o << >> = p.actions /\ ToSet(<< >>) = {}
<1>1. AllEmitted(<< >>, e) BY EmptyList DEF AllEmitted
<1>2. PICK a : a = p.actions /\ IsList(a) BY DEF IsPatch
<1>3. a \o << >> = a
  <2> DEFINE S == {a[i] : i \in 1 .. Len(a)}
  <2>1. \A i \in 1 .. Len(a) : a[i] \in S OBVIOUS
  <2> HIDE DEF S
  <2>2. a \in Seq(S) BY <1>2, <2>1, ListsAre
  <2> QED BY <2>2, ConcatEmptySeq
<1> QED BY <1>1, <1>2, <1>3, EmptyList

LEMMA PassThroughEmitted ==
    ASSUME NEW e
    PROVE  /\ AllEmitted(PassThrough(e), e) /\ ToSet(PassThrough(e)) = {Action("copy", e)}
           /\ Action("copy", e).kind = e.kind /\ Action("copy", e).ref = e.ref
<1>1. Emitted(Action("copy", e), e) BY DEF Emitted
<1>2. Action("copy", e).kind = e.kind /\ Action("copy", e).ref = e.ref BY DEF Action
<1> QED BY <1>1, <1>2, SingleList DEF AllEmitted, PassThrough

LEMMA ExpandedEmitted ==
    ASSUME NEW e, NEW end, NEW q, AllMade(q), Widened(e)
    PROVE  /\ AllEmitted(Expanded(e, end, q), e)
           /\ \E a \in ToSet(Expanded(e, end, q)) : a.kind = e.kind
<1> DEFINE opened == [Action("opened", e) EXCEPT !.self = FALSE]
           closed == [Action("closed", e) EXCEPT !.kind = end, !.self = FALSE, !.closing = TRUE]
<1>1. opened.item = "opened" /\ opened.at = e.at /\ opened.name = e.name /\ opened.kind = e.kind
  BY DEF Action
<1>2. closed.item = "closed" /\ closed.at = e.at /\ closed.name = e.name
  BY DEF Action
<1>3. Expanded(e, end, q) = (<<opened>> \o q) \o <<closed>> BY DEF Expanded
<1> HIDE DEF opened, closed
<1>4. Emitted(opened, e) /\ Emitted(closed, e) BY <1>1, <1>2 DEF Emitted
<1>5. AllEmitted(<<opened>>, e) /\ AllEmitted(<<closed>>, e) /\ AllEmitted(q, e)
      /\ opened \in ToSet(<<opened>>)
  BY <1>4, SingleList, MadeEmitted DEF AllEmitted
<1>6. AllEmitted(<<opened>> \o q, e) /\ opened \in ToSet(<<opened>> \o q)
  BY <1>5, EmittedJoined, ListJoined DEF AllEmitted
<1>7. AllEmitted((<<opened>> \o q) \o <<closed>>, e)
      /\ opened \in ToSet((<<opened>> \o q) \o <<closed>>)
  <2>1. PICK head, tail : head = <<opened>> \o q /\ tail = <<closed>> OBVIOUS
  <2>2. AllEmitted(head, e) /\ AllEmitted(tail, e) /\ opened \in ToSet(head)
    BY <1>5, <1>6, <2>1
  <2>3. AllEmitted(head \o tail, e) BY <2>2, EmittedJoined
  <2>4. ToSet(head \o tail) = ToSet(head) \cup ToSet(tail)
    BY <2>2, ListJoined DEF AllEmitted
  <2> QED BY <2>1, <2>2, <2>3, <2>4
<1> QED BY <1>1, <1>3, <1>7

\* A patch that keeps its actions, or adds to them, follows.
LEMMA KeepingFollows ==
    ASSUME NEW p, IsPatch(p), NEW n, IsPatch(n), n.actions = p.actions, NEW e,
           n.replacing => p.replacing \/ e.kind = "CellStart",
           e.kind = "CellStart" => n.refused \/ n.replacing,
           e.kind = "WorksheetStart" => p.replacing
    PROVE  Follows(p, n, e)
<1>1. AllEmitted(<< >>, e) /\ n.actions = p.actions \o << >> /\ ToSet(<< >>) = {}
  BY NoneEmitted
<1> QED BY <1>1 DEF Follows

LEMMA AddingFollows ==
    ASSUME NEW p, IsPatch(p), ~p.replacing, NEW n, IsPatch(n), NEW q, NEW e,
           AllEmitted(q, e), n.actions = p.actions \o q,
           n.replacing => e.kind = "CellStart",
           e.kind = "CellStart" /\ ~n.refused /\ ~n.replacing =>
                \E a \in ToSet(q) : a.kind = "CellStart" /\ a.ref = e.ref,
           e.kind = "WorksheetStart" => \E a \in ToSet(q) : a.kind = "WorksheetStart"
    PROVE  Follows(p, n, e)
BY DEF Follows

LEMMA PassingFollows ==
    ASSUME NEW p, IsPatch(p), ~p.replacing, NEW e
    PROVE  Follows(p, Does(p, PassThrough(e)), e)
<1>1. Adds(p, Does(p, PassThrough(e)), PassThrough(e))
  BY PassThroughEmitted, PatchAdds DEF AllEmitted
<1> QED BY <1>1, PassThroughEmitted, AddingFollows DEF Adds

\* So does one whose marks change behind it.
LEMMA MarkingFollows ==
    ASSUME NEW p, NEW n, NEW e, Follows(p, n, e), NEW m, Keeps(n, m), m.replacing = n.replacing
    PROVE  Follows(p, m, e)
BY DEF Follows, Keeps

LEMMA CellFollows ==
    ASSUME NEW p, IsPatch(p), ~p.replacing, NEW e, e.kind = "CellStart",
           NEW d, NEW r, AllMade(r), Adds(p, d, r), NEW y
    PROVE  Follows(p, [Does(d, <<Action("cell", e)>>) EXCEPT !.matched = @ \cup y,
                                                         !.replacing = TRUE], e)
<1> DEFINE a == Action("cell", e)
           c == Does(d, <<a>>)
           n == [c EXCEPT !.matched = @ \cup y, !.replacing = TRUE]
<1>1. Adds(d, c, <<a>>) BY PatchAdds, SingleList DEF Adds
<1>2. Keeps(c, n) /\ n.replacing BY <1>1, PatchMarked DEF Adds
<1>3. Emitted(a, e) BY DEF Emitted
<1> HIDE DEF a, c, n
<1>4. AllEmitted(<<a>>, e) BY <1>3, SingleList DEF AllEmitted
<1>5. AllEmitted(r \o <<a>>, e) BY <1>4, MadeEmitted, EmittedJoined
<1>6. n.actions = p.actions \o (r \o <<a>>)
  <2>1. n.actions = (p.actions \o r) \o <<a>> BY <1>1, <1>2 DEF Adds, Keeps
  <2>2. PICK x, z : x = p.actions /\ IsList(x) /\ z = <<a>> /\ IsList(z) /\ IsList(r)
    BY SingleList DEF IsPatch, AllMade
  <2> DEFINE S == {x[i] : i \in 1 .. Len(x)} \cup {z[i] : i \in 1 .. Len(z)}
                    \cup {r[i] : i \in 1 .. Len(r)}
  <2>3. /\ \A i \in 1 .. Len(x) : x[i] \in S
        /\ \A i \in 1 .. Len(z) : z[i] \in S
        /\ \A i \in 1 .. Len(r) : r[i] \in S
    OBVIOUS
  <2> HIDE DEF S
  <2>4. x \in Seq(S) /\ z \in Seq(S) /\ r \in Seq(S) BY <2>2, <2>3, ListsAre
  <2>5. (x \o r) \o z = x \o (r \o z) BY <2>4, ConcatAssociative
  <2> QED BY <2>1, <2>2, <2>5
<1> QED BY <1>2, <1>5, <1>6, AddingFollows DEF Keeps, n, c, a

\* Inserting markup of the transformer's own before an event that is passed on.
LEMMA InsertingFollows ==
    ASSUME NEW p, IsPatch(p), ~p.replacing, NEW refs, NEW r, AllMade(r), NEW e
    PROVE  /\ Follows(p, Inserting(p, refs, r \o PassThrough(e)), e)
           /\ Follows(p, Does(Inserting(p, refs, r), PassThrough(e)), e)
<1> DEFINE pass1 == PassThrough(e)
           both == r \o pass1
           n == Inserting(p, refs, both)
           d == Inserting(p, refs, r)
           m == Does(d, pass1)
<1>1. AllEmitted(pass1, e) /\ AllEmitted(r, e) /\ IsList(r) /\ IsList(pass1)
      /\ Action("copy", e) \in ToSet(pass1)
  BY PassThroughEmitted, MadeEmitted DEF AllMade, AllEmitted
<1> HIDE DEF pass1
<1>2. AllEmitted(both, e) /\ IsList(both) /\ Action("copy", e) \in ToSet(both)
  BY <1>1, EmittedJoined, ListJoined DEF AllEmitted
<1>3. Adds(p, d, r) BY <1>1, PatchAdds
<1>4. Adds(d, m, pass1) BY <1>1, <1>3, PatchAdds DEF Adds
<1>5. (p.actions \o r) \o pass1 = p.actions \o both
  <2>1. PICK x : x = p.actions /\ IsList(x) BY DEF IsPatch
  <2> DEFINE S == {x[i] : i \in 1 .. Len(x)} \cup {pass1[i] : i \in 1 .. Len(pass1)}
                    \cup {r[i] : i \in 1 .. Len(r)}
  <2>2. /\ \A i \in 1 .. Len(x) : x[i] \in S
        /\ \A i \in 1 .. Len(pass1) : pass1[i] \in S
        /\ \A i \in 1 .. Len(r) : r[i] \in S
    OBVIOUS
  <2> HIDE DEF S
  <2>3. x \in Seq(S) /\ pass1 \in Seq(S) /\ r \in Seq(S) BY <1>1, <2>1, <2>2, ListsAre
  <2>4. (x \o r) \o pass1 = x \o (r \o pass1) BY <2>3, ConcatAssociative
  <2> QED BY <2>1, <2>4
<1> HIDE DEF both
<1>6. Adds(p, n, both) BY <1>2, PatchAdds
<1> HIDE DEF n, d, m
<1>7. Follows(p, n, e)
  BY <1>2, <1>6, PassThroughEmitted, AddingFollows DEF Adds
<1>8. m.actions = p.actions \o both /\ IsPatch(m) /\ m.replacing = p.replacing
  BY <1>3, <1>4, <1>5 DEF Adds
<1>9. Follows(p, m, e)
  BY <1>2, <1>8, PassThroughEmitted, AddingFollows
<1> QED BY <1>7, <1>9 DEF n, m, d, both, pass1

LEMMA ExpandingFollows ==
    ASSUME NEW p, IsPatch(p), ~p.replacing, NEW refs, NEW r, AllMade(r), NEW e, Widened(e),
           NEW end
    PROVE  LET n == Inserting(p, refs, Expanded(e, end, r)) IN IsPatch(n) /\ Follows(p, n, e)
<1> DEFINE q == Expanded(e, end, r)
           n == Inserting(p, refs, q)
<1>1. AllEmitted(q, e) /\ \E a \in ToSet(q) : a.kind = e.kind BY ExpandedEmitted
<1> HIDE DEF q
<1>2. Adds(p, n, q) BY <1>1, PatchAdds DEF AllEmitted
<1>3. e.kind # "CellStart" BY DEF Widened
<1> HIDE DEF n
<1>4. IsPatch(n) /\ Follows(p, n, e)
  BY <1>1, <1>2, <1>3, AddingFollows DEF Adds
<1> QED BY <1>4 DEF n, q

LEMMA WorksheetStartFollows ==
    ASSUME NEW p, IsPatch(p), ~p.replacing, NEW pending, Selectors(pending), NEW e,
           e.kind = "WorksheetStart"
    PROVE  Follows(p, UpsertWorksheetStart(p, pending, e), e)
<1> DEFINE n == Inserting(p, pending, Expanded(e, "WorksheetEnd", SyntheticData(pending)))
<1>1. IsPatch(n) /\ Follows(p, n, e)
  <2>1. Widened(e) BY DEF Widened
  <2> QED BY <2>1, DataMade, ExpandingFollows
<1> HIDE DEF n
<1>2. Follows(p, [n EXCEPT !.suppress = "WorksheetEnd"], e)
  BY <1>1, PatchMarked, MarkingFollows
<1>3. Follows(p, Does(p, PassThrough(e)), e) BY PassingFollows
<1> QED BY <1>2, <1>3 DEF UpsertWorksheetStart, n

\* The end event of markup that was widened is dropped.
LEMMA SuppressedFollows ==
    ASSUME NEW p, IsPatch(p), ~p.replacing, NEW e, e.kind \notin {"CellStart", "WorksheetStart"},
           NEW x
    PROVE  Follows(p, [p EXCEPT !.suppress = x], e)
<1> DEFINE n == [p EXCEPT !.suppress = x]
<1>1. Keeps(p, n) /\ n.replacing = p.replacing BY PatchMarked
<1> HIDE DEF n
<1>2. Follows(p, n, e) BY <1>1, KeepingFollows DEF Keeps
<1> QED BY <1>2 DEF n

LEMMA WorksheetEndFollows ==
    ASSUME NEW p, IsPatch(p), ~p.replacing, NEW pending, Selectors(pending), NEW e,
           e.kind = "WorksheetEnd"
    PROVE  Follows(p, UpsertWorksheetEnd(p, pending, e), e)
<1>1. Follows(p, [p EXCEPT !.suppress = ""], e) BY SuppressedFollows
<1>2. Follows(p, Does(p, PassThrough(e)), e) BY PassingFollows
<1>3. Follows(p, Inserting(p, pending, SyntheticData(pending) \o PassThrough(e)), e)
  BY DataMade, InsertingFollows
<1> QED BY <1>1, <1>2, <1>3 DEF UpsertWorksheetEnd

LEMMA DataStartFollows ==
    ASSUME NEW p, IsPatch(p), ~p.replacing, NEW pending, Selectors(pending), NEW e,
           e.kind = "SheetDataStart"
    PROVE  Follows(p, UpsertDataStart(p, pending, e), e)
<1> DEFINE n == Inserting(p, pending, Expanded(e, "SheetDataEnd", SyntheticRows(pending)))
           m == Does(p, PassThrough(e))
<1>1. IsPatch(n) /\ Follows(p, n, e)
  <2>1. Widened(e) BY DEF Widened
  <2> QED BY <2>1, RowsMade, ExpandingFollows
<1>2. IsPatch(m) /\ Follows(p, m, e)
  <2>1. Follows(p, m, e) BY PassingFollows
  <2> QED BY <2>1 DEF Follows
<1> HIDE DEF n, m
<1>3. Follows(p, [n EXCEPT !.seenData = TRUE, !.suppress = "SheetDataEnd"], e)
  BY <1>1, PatchMarked, MarkingFollows
<1>4. Follows(p, [m EXCEPT !.seenData = TRUE], e)
  BY <1>2, PatchMarked, MarkingFollows
<1> QED BY <1>3, <1>4 DEF UpsertDataStart, n, m

LEMMA DataEndFollows ==
    ASSUME NEW p, IsPatch(p), ~p.replacing, NEW pending, Selectors(pending), NEW e,
           e.kind = "SheetDataEnd"
    PROVE  Follows(p, UpsertDataEnd(p, pending, e), e)
<1>1. Follows(p, [p EXCEPT !.suppress = ""], e) BY SuppressedFollows
<1>2. Follows(p, Does(p, PassThrough(e)), e) BY PassingFollows
<1>3. Follows(p, Inserting(p, pending, SyntheticRows(pending) \o PassThrough(e)), e)
  BY RowsMade, InsertingFollows
<1> QED BY <1>1, <1>2, <1>3 DEF UpsertDataEnd

LEMMA RowEndFollows ==
    ASSUME NEW p, IsPatch(p), ~p.replacing, NEW pending, Selectors(pending), NEW e,
           e.kind = "RowEnd"
    PROVE  Follows(p, UpsertRowEnd(p, pending, e), e)
<1> DEFINE within == Leading(pending, LAMBDA r : r.row = p.row)
           n == Inserting(p, within, Inserts(within) \o PassThrough(e))
<1>1. Follows(p, [p EXCEPT !.suppress = ""], e) BY SuppressedFollows
<1>2. Selectors(within) BY SelectorsPart DEF Leading
<1>3. UpsertRowEnd(p, pending, e) = IF p.suppress = e.kind THEN [p EXCEPT !.suppress = ""]
                                    ELSE [n EXCEPT !.row = 0]
  BY DEF UpsertRowEnd
<1> HIDE DEF within
<1>4. Follows(p, n, e) BY <1>2, InsertsMade, InsertingFollows
<1> HIDE DEF n
<1>5. Follows(p, [n EXCEPT !.row = 0], e)
  <2>1. IsPatch(n) BY <1>4 DEF Follows
  <2> QED BY <1>4, <2>1, PatchMarked, MarkingFollows
<1> QED BY <1>1, <1>3, <1>5

LEMMA ListsAssociate ==
    ASSUME NEW x, IsList(x), NEW y, IsList(y), NEW z, IsList(z)
    PROVE  (x \o y) \o z = x \o (y \o z)
<1> DEFINE S == {x[i] : i \in 1 .. Len(x)} \cup {y[i] : i \in 1 .. Len(y)}
                  \cup {z[i] : i \in 1 .. Len(z)}
<1>1. /\ \A i \in 1 .. Len(x) : x[i] \in S
      /\ \A i \in 1 .. Len(y) : y[i] \in S
      /\ \A i \in 1 .. Len(z) : z[i] \in S
  OBVIOUS
<1> HIDE DEF S
<1>2. x \in Seq(S) /\ y \in Seq(S) /\ z \in Seq(S) BY <1>1, ListsAre
<1> QED BY <1>2, ConcatAssociative

\* An event after markup of the transformer's own.
LEMMA FollowingAdded ==
    ASSUME NEW p, IsPatch(p), ~p.replacing, NEW d, NEW r, AllMade(r), Adds(p, d, r),
           NEW n, NEW e, Follows(d, n, e)
    PROVE  Follows(p, n, e)
<1>1. PICK q : /\ AllEmitted(q, e) /\ n.actions = d.actions \o q
               /\ e.kind = "CellStart" /\ ~n.refused /\ ~n.replacing =>
                     \E a \in ToSet(q) : a.kind = "CellStart" /\ a.ref = e.ref
               /\ e.kind = "WorksheetStart" =>
                     \E a \in ToSet(q) : a.kind = "WorksheetStart"
  BY DEF Follows, Adds
<1>2. IsList(p.actions) /\ IsList(r) /\ IsList(q) BY <1>1 DEF IsPatch, AllMade, AllEmitted
<1>3. PICK s : s = r \o q OBVIOUS
<1>4. AllEmitted(s, e) BY <1>1, <1>3, MadeEmitted, EmittedJoined
<1>5. ToSet(q) \subseteq ToSet(s) BY <1>2, <1>3, ListJoined
<1>6. n.actions = p.actions \o s
  <2>1. PICK a : a = p.actions /\ IsList(a) BY <1>2
  <2>2. n.actions = (a \o r) \o q BY <1>1, <2>1 DEF Adds
  <2>3. IsList(a) /\ IsList(r) /\ IsList(q) BY <1>2, <2>1
  <2>4. (a \o r) \o q = a \o (r \o q) BY <2>3, ListsAssociate
  <2> QED BY <1>3, <2>1, <2>2, <2>4
<1>7. IsPatch(n) /\ (n.replacing => e.kind = "CellStart") BY DEF Follows, Adds
<1> QED BY <1>1, <1>4, <1>5, <1>6, <1>7, AddingFollows

LEMMA RowStartFollows ==
    ASSUME NEW p, IsPatch(p), ~p.replacing, NEW pending, Selectors(pending), NEW e,
           e.kind = "RowStart"
    PROVE  Follows(p, UpsertRowStart(p, pending, e), e)
<1> DEFINE earlier == Leading(pending, LAMBDA r : r.row < e.ref.row)
           within == {r \in pending : r.row = e.ref.row}
           before == Inserting(p, earlier, SyntheticRows(earlier))
           wide == Inserting(before, within, Expanded(e, "RowEnd", Inserts(within)))
           plain == Does(before, PassThrough(e))
           alone == Does(p, PassThrough(e))
<1>1. UpsertRowStart(p, pending, e) =
         CASE e.ref.text = "bad" -> [p EXCEPT !.refused = TRUE]
           [] e.ref.text = "missing" -> [alone EXCEPT !.row = 0]
           [] OTHER -> IF e.self /\ within # {}
                       THEN [wide EXCEPT !.row = 0, !.suppress = "RowEnd"]
                       ELSE [plain EXCEPT !.row = e.ref.row]
  BY DEF UpsertRowStart
<1>2. Selectors(earlier) /\ Selectors(within) BY SelectorsPart DEF Leading
<1>3. AllMade(SyntheticRows(earlier)) /\ AllMade(Inserts(within))
  BY <1>2, RowsMade, InsertsMade
<1> HIDE DEF earlier, within
<1>4. Adds(p, before, SyntheticRows(earlier)) BY <1>3, PatchAdds DEF AllMade
<1> HIDE DEF before
<1>5. IsPatch(before) /\ ~before.replacing BY <1>4 DEF Adds
<1>6. IsPatch(wide) /\ Follows(p, wide, e)
  <2>1. Widened(e) BY DEF Widened
  <2>2. IsPatch(wide) /\ Follows(before, wide, e) BY <1>3, <1>5, <2>1, ExpandingFollows
  <2> HIDE DEF wide
  <2> QED BY <1>3, <1>4, <2>2, FollowingAdded
<1>7. IsPatch(plain) /\ Follows(p, plain, e)
  <2>1. Follows(before, plain, e) BY <1>5, PassingFollows
  <2> HIDE DEF plain
  <2> QED BY <1>3, <1>4, <2>1, FollowingAdded DEF Follows
<1>8. IsPatch(alone) /\ Follows(p, alone, e)
  <2>1. Follows(p, alone, e) BY PassingFollows
  <2> HIDE DEF alone
  <2> QED BY <2>1 DEF Follows
<1>9. Follows(p, [p EXCEPT !.refused = TRUE], e)
  <2> DEFINE n == [p EXCEPT !.refused = TRUE]
  <2>1. IsPatch(n) /\ n.actions = p.actions /\ n.replacing = p.replacing /\ n.refused
    BY PatchMarked
  <2> HIDE DEF n
  <2>2. Follows(p, n, e) BY <2>1, KeepingFollows
  <2> QED BY <2>2 DEF n
<1> HIDE DEF wide, plain, alone
<1>10. Follows(p, [wide EXCEPT !.row = 0, !.suppress = "RowEnd"], e)
  BY <1>6, PatchMarked, MarkingFollows
<1>11. Follows(p, [plain EXCEPT !.row = e.ref.row], e)
  BY <1>7, PatchMarked, MarkingFollows
<1>12. Follows(p, [alone EXCEPT !.row = 0], e)
  BY <1>8, PatchMarked, MarkingFollows
<1> QED BY <1>1, <1>9, <1>10, <1>11, <1>12

LEMMA CellStartFollows ==
    ASSUME NEW p, IsPatch(p), ~p.replacing, NEW pending, Selectors(pending), NEW e,
           e.kind = "CellStart"
    PROVE  Follows(p, UpsertCellStart(p, pending, e), e)
<1> DEFINE row == IF p.row = 0 THEN e.ref.row ELSE p.row
           ahead == IF Readable(e.ref) /\ row = e.ref.row
                    THEN Leading(pending, LAMBDA r : r.row = row /\ r.col < e.ref.col)
                    ELSE {}
           before == Inserting(p, ahead, Inserts(ahead))
           cell == [Does(before, <<Action("cell", e)>>) EXCEPT
                       !.matched = @ \cup {e.ref}, !.replacing = TRUE]
           plain == Does(before, PassThrough(e))
           refusal == [p EXCEPT !.refused = TRUE]
<1>1. UpsertCellStart(p, pending, e) =
         IF e.ref.text = "bad" THEN refusal
         ELSE IF e.ref \in pending THEN cell ELSE plain
  BY DEF UpsertCellStart
<1>2. Selectors(ahead) BY SelectorsPart DEF Leading
<1> HIDE DEF ahead
<1>3. AllMade(Inserts(ahead)) BY <1>2, InsertsMade
<1>4. Adds(p, before, Inserts(ahead)) BY <1>3, PatchAdds DEF AllMade
<1> HIDE DEF before
<1>5. IsPatch(before) /\ ~before.replacing BY <1>4 DEF Adds
<1>6. Follows(p, cell, e) BY <1>3, <1>4, CellFollows
<1>7. Follows(p, plain, e)
  <2>1. Follows(before, plain, e) BY <1>5, PassingFollows
  <2> HIDE DEF plain
  <2> QED BY <1>3, <1>4, <2>1, FollowingAdded
<1>8. Follows(p, refusal, e)
  <2>1. IsPatch(refusal) /\ refusal.actions = p.actions /\ refusal.replacing = p.replacing
        /\ refusal.refused
    BY PatchMarked
  <2> HIDE DEF refusal
  <2> QED BY <2>1, KeepingFollows
<1> HIDE DEF cell, plain, refusal
<1> QED BY <1>1, <1>6, <1>7, <1>8

\* Inside a cell that is replaced nothing is emitted.
LEMMA DroppingFollows ==
    ASSUME NEW p, IsPatch(p), p.replacing, NEW n, NEW e, IsPatch(n), n.actions = p.actions,
           n.replacing = (e.kind # "CellEnd")
    PROVE  Follows(p, n, e)
BY KeepingFollows

LEMMA UpsertingFollows ==
    ASSUME NEW p, IsPatch(p), NEW targets, Selectors(targets), NEW e
    PROVE  Follows(p, Upserting(p, targets, e), e)
<1> DEFINE pending == Pending(p, targets)
<1>1. Selectors(pending) BY SelectorsPart DEF Pending
<1> HIDE DEF pending
<1>2. CASE p.replacing
  <2> DEFINE n == [p EXCEPT !.replacing = e.kind # "CellEnd"]
  <2>1. Keeps(p, n) /\ n.replacing = (e.kind # "CellEnd")
    <3>1. PICK x \in BOOLEAN : x = (e.kind # "CellEnd") OBVIOUS
    <3>2. n = [p EXCEPT !.replacing = x] BY <3>1
    <3>3. Keeps(p, [p EXCEPT !.replacing = x]) /\ [p EXCEPT !.replacing = x].replacing = x
      BY PatchReplacing
    <3> QED BY <3>1, <3>2, <3>3, Zenon
  <2>2. Upserting(p, targets, e) = n BY <1>2 DEF Upserting
  <2> HIDE DEF n
  <2> QED BY <1>2, <2>1, <2>2, DroppingFollows DEF Keeps
<1>3. CASE ~p.replacing
  <2>1. Upserting(p, targets, e) =
           CASE e.kind = "WorksheetStart" -> UpsertWorksheetStart(p, pending, e)
             [] e.kind = "WorksheetEnd" -> UpsertWorksheetEnd(p, pending, e)
             [] e.kind = "SheetDataStart" -> UpsertDataStart(p, pending, e)
             [] e.kind = "SheetDataEnd" -> UpsertDataEnd(p, pending, e)
             [] e.kind = "RowStart" -> UpsertRowStart(p, pending, e)
             [] e.kind = "RowEnd" -> UpsertRowEnd(p, pending, e)
             [] e.kind = "CellStart" -> UpsertCellStart(p, pending, e)
             [] OTHER -> Does(p, PassThrough(e))
    BY <1>3 DEF Upserting, pending
  <2> QED BY <1>1, <1>3, <2>1, WorksheetStartFollows, WorksheetEndFollows, DataStartFollows,
             DataEndFollows, RowStartFollows, RowEndFollows, CellStartFollows, PassingFollows
<1> QED BY <1>2, <1>3 DEF IsPatch

LEMMA ReplacingFollows ==
    ASSUME NEW p, IsPatch(p), NEW targets, NEW e
    PROVE  Follows(p, Replacing(p, targets, e), e)
<1> DEFINE met == [p EXCEPT !.tail = @ \/ (e.kind = "CellStart" /\ EndsSearch(p, targets, e))]
           hit == e.kind = "CellStart" /\ ~EndsSearch(p, targets, e) /\ e.ref \in targets
           cell == [Does(p, <<Action("cell", e)>>) EXCEPT
                       !.matched = @ \cup {e.ref}, !.replacing = TRUE]
           dropped == [met EXCEPT !.replacing = e.kind # "CellEnd"]
           plain == Does(met, PassThrough(e))
<1>1. Replacing(p, targets, e) = IF hit THEN cell ELSE IF p.replacing THEN dropped ELSE plain
  BY DEF Replacing
<1>2. Keeps(p, met) /\ met.replacing = p.replacing
  BY PatchMarked
<1> HIDE DEF met
<1>3. CASE hit
  <2>1. CASE ~p.replacing
    <3>1. AllMade(<< >>) /\ Adds(p, p, << >>) BY EmptyList, NoneEmitted DEF AllMade, Adds
    <3>2. Follows(p, cell, e) BY <1>3, <2>1, <3>1, CellFollows
    <3> QED BY <1>1, <1>3, <3>2
  <2>2. CASE p.replacing
    <3> DEFINE q == <<Action("cell", e)>>
               c == Does(p, q)
    <3>1. IsList(q) /\ AllEmitted(q, e)
      <4>1. Emitted(Action("cell", e), e) BY <1>3 DEF Emitted
      <4> QED BY <4>1, SingleList DEF AllEmitted
    <3>2. Adds(p, c, q) BY <3>1, PatchAdds
    <3>3. Keeps(c, cell) /\ cell.replacing BY <3>2, PatchMarked DEF Adds
    <3> HIDE DEF q, c, cell
    <3>4. Follows(p, cell, e)
      <4>1. e.kind = "CellStart" BY <1>3
      <4>2. cell.actions = p.actions \o q /\ IsPatch(cell) BY <3>2, <3>3 DEF Adds, Keeps
      <4> QED BY <2>2, <3>1, <3>3, <4>1, <4>2 DEF Follows
    <3> QED BY <1>1, <1>3, <3>4
  <2> QED BY <2>1, <2>2 DEF IsPatch
<1>4. CASE ~hit /\ p.replacing
  <2>1. Keeps(met, dropped) /\ dropped.replacing = (e.kind # "CellEnd")
    <3>1. PICK x \in BOOLEAN : x = (e.kind # "CellEnd") OBVIOUS
    <3>2. dropped = [met EXCEPT !.replacing = x] BY <3>1
    <3>3. Keeps(met, [met EXCEPT !.replacing = x]) /\ [met EXCEPT !.replacing = x].replacing = x
      BY <1>2, PatchReplacing DEF Keeps
    <3> QED BY <3>1, <3>2, <3>3, Zenon
  <2> HIDE DEF dropped, hit
  <2>2. Follows(p, dropped, e) BY <1>2, <1>4, <2>1, DroppingFollows DEF Keeps
  <2> QED BY <1>1, <1>4, <2>2
<1>5. CASE ~hit /\ ~p.replacing
  <2>1. IsPatch(met) /\ ~met.replacing BY <1>2, <1>5 DEF Keeps
  <2>2. Follows(met, plain, e) BY <2>1, PassingFollows
  <2>3. AllMade(<< >>) /\ p.actions \o << >> = p.actions
    BY EmptyList, NoneEmitted DEF AllMade
  <2>4. Adds(p, met, << >>) BY <1>2, <2>3 DEF Adds, Keeps
  <2> HIDE DEF plain, hit
  <2>5. Follows(p, plain, e) BY <1>5, <2>2, <2>3, <2>4, FollowingAdded
  <2> QED BY <1>1, <1>5, <2>5
<1> QED BY <1>3, <1>4, <1>5 DEF IsPatch

LEMMA ConsumedFollows ==
    ASSUME NEW p, IsPatch(p), NEW upsert, NEW targets, Selectors(targets), NEW e
    PROVE  Follows(p, Consumed(p, upsert, targets, e), e)
BY UpsertingFollows, ReplacingFollows DEF Consumed

-----------------------------------------------------------------------------
(* What the transformer makes of one piece.                                *)

Opens(piece, name) == piece.name = name /\ piece.form \in {"open", "self"}

\* What an action is, for the cells.
Origin(a, at, piece) ==
    \/ a.item = "copy" /\ a.at = at /\ a.ref = piece.ref
    \/ a.item \in {"opened", "closed"} /\ a.at = at /\ piece.name # "c"
    \/ a.item = "new" /\ a.name # "c"
    \/ a.item \in {"cell", "insert"} /\ a.kind = "CellStart"
       /\ (a.ref = piece.ref \/ a.ref \in Refs)

LEMMA EmittedOrigin ==
    ASSUME NEW at, NEW piece, NEW e, Reports(e, at, piece), NEW a, Emitted(a, e)
    PROVE  Origin(a, at, piece) /\ (a.item = "copy" => a.kind = e.kind)
<1>1. e.at = at /\ e.name = piece.name /\ e.ref = piece.ref
  BY DEF Reports, Event
<1>2. CASE a = Action("copy", e)
  BY <1>1, <1>2 DEF Origin, Action
<1>3. CASE a = Action("cell", e) /\ e.kind = "CellStart"
  BY <1>1, <1>3 DEF Origin, Action
<1>4. CASE a.item \in {"opened", "closed"} /\ a.at = e.at /\ a.name = e.name /\ Widened(e)
  BY <1>1, <1>4 DEF Origin, Widened, Reports
<1>5. CASE Made(a)
  BY <1>5 DEF Made, Origin
<1> QED BY <1>2, <1>3, <1>4, <1>5 DEF Emitted

\* A cell is never written without an action that starts a cell.
Told(a, actions, at, piece) ==
    /\ Origin(a, at, piece)
    /\ a.item = "copy" /\ IsCell(piece) =>
          \E b \in ToSet(actions) : b.kind = "CellStart" /\ b.ref = piece.ref

\* Patch n is patch p with what becomes of one piece.
TakesPiece(p, n, at, piece) ==
    /\ IsPatch(n)
    /\ n.replacing => p.replacing \/ Opens(piece, "c")
    /\ \A a \in ToSet(n.actions) : Told(a, n.actions, at, piece)
    /\ Opens(piece, "worksheet") /\ ~p.replacing =>
          \E a \in ToSet(n.actions) : a.kind = "WorksheetStart"

LEMMA IdlePatch ==
    ASSUME NEW p, IsPatch(p)
    PROVE  LET idle == [p EXCEPT !.actions = << >>]
           IN  IsPatch(idle) /\ idle.actions = << >> /\ idle.replacing = p.replacing
<1> DEFINE idle == [p EXCEPT !.actions = << >>]
<1>1. {"replacing", "actions"} \subseteq DOMAIN p BY DEF IsPatch, PatchFields
<1>2. DOMAIN idle = DOMAIN p /\ idle.actions = << >> /\ idle.replacing = p.replacing
  BY <1>1
<1> HIDE DEF idle
<1>3. IsPatch(idle) BY <1>2, EmptyList DEF IsPatch
<1> QED BY <1>2, <1>3 DEF idle

\* What follows an idle patch is all an event does.
LEMMA AfterIdle ==
    ASSUME NEW p, IsPatch(p), p.actions = << >>, NEW n, NEW e, Follows(p, n, e)
    PROVE  AllEmitted(n.actions, e)
<1>1. PICK q : AllEmitted(q, e) /\ n.actions = p.actions \o q BY DEF Follows
<1>2. << >> \o q = q
  <2> DEFINE S == {q[i] : i \in 1 .. Len(q)}
  <2>1. \A i \in 1 .. Len(q) : q[i] \in S OBVIOUS
  <2> HIDE DEF S
  <2>2. q \in Seq(S) BY <1>1, <2>1, ListsAre DEF AllEmitted
  <2> QED BY <2>2, ConcatEmptySeq
<1> QED BY <1>1, <1>2

LEMMA OneEventTaken ==
    ASSUME NEW p, IsPatch(p), NEW at, NEW piece, NEW e, Reports(e, at, piece),
           NEW idle, IsPatch(idle), idle.actions = << >>, idle.replacing = p.replacing,
           NEW n, Follows(idle, n, e), ~n.refused,
           IsCell(piece) => e.kind = "CellStart",
           Opens(piece, "worksheet") => e.kind = "WorksheetStart"
    PROVE  TakesPiece(p, n, at, piece)
<1>1. AllEmitted(n.actions, e) BY AfterIdle
<1>2. ASSUME NEW a \in ToSet(n.actions) PROVE Told(a, n.actions, at, piece)
  <2>1. Origin(a, at, piece) /\ (a.item = "copy" => a.kind = e.kind)
    BY <1>1, EmittedOrigin DEF AllEmitted
  <2>2. ASSUME a.item = "copy", IsCell(piece) PROVE a.kind = "CellStart" /\ a.ref = piece.ref
    BY <2>1, <2>2 DEF Origin
  <2> QED BY <2>1, <2>2 DEF Told
<1>3. IsPatch(n) /\ (n.replacing => p.replacing \/ e.kind = "CellStart") BY DEF Follows
<1>4. e.kind = "CellStart" => Opens(piece, "c") BY DEF Reports, Opens
<1>5. ASSUME Opens(piece, "worksheet"), ~p.replacing
      PROVE  \E a \in ToSet(n.actions) : a.kind = "WorksheetStart"
  <2>1. PICK q : /\ AllEmitted(q, e) /\ n.actions = idle.actions \o q
                 /\ \E a \in ToSet(q) : a.kind = "WorksheetStart"
    BY <1>5 DEF Follows
  <2>2. IsList(<< >>) /\ IsList(q) BY <2>1, EmptyList DEF AllEmitted
  <2>3. ToSet(<< >> \o q) = ToSet(<< >>) \cup ToSet(q) BY <2>2, ListJoined
  <2> QED BY <2>1, <2>3
<1> QED BY <1>2, <1>3, <1>4, <1>5 DEF TakesPiece

LEMMA TwoEventsTaken ==
    ASSUME NEW p, IsPatch(p), NEW at, NEW piece,
           NEW e, Reports(e, at, piece), NEW f, Reports(f, at, piece),
           NEW idle, IsPatch(idle), idle.actions = << >>, idle.replacing = p.replacing,
           NEW m, Follows(idle, m, e), ~m.refused, NEW n, Follows(m, n, f),
           IsCell(piece) => e.kind = "CellStart" /\ f.kind = "CellEnd",
           Opens(piece, "worksheet") => e.kind = "WorksheetStart"
    PROVE  TakesPiece(p, n, at, piece)
<1>1. AllEmitted(m.actions, e) BY AfterIdle
<1>2. PICK q : /\ AllEmitted(q, f) /\ n.actions = m.actions \o q
               /\ m.replacing /\ f.kind = "CellEnd" => ToSet(q) = {}
  BY DEF Follows
<1>3. ToSet(n.actions) = ToSet(m.actions) \cup ToSet(q)
  BY <1>1, <1>2, ListJoined DEF AllEmitted
<1>4. PICK r : /\ AllEmitted(r, e) /\ m.actions = idle.actions \o r
               /\ e.kind = "CellStart" /\ ~m.replacing =>
                     \E a \in ToSet(r) : a.kind = "CellStart" /\ a.ref = e.ref
               /\ e.kind = "WorksheetStart" /\ ~p.replacing =>
                     \E a \in ToSet(r) : a.kind = "WorksheetStart"
  BY DEF Follows
<1>5. ToSet(r) \subseteq ToSet(m.actions)
  <2>1. IsList(<< >>) /\ IsList(r) BY <1>4, EmptyList DEF AllEmitted
  <2>2. ToSet(<< >> \o r) = ToSet(<< >>) \cup ToSet(r) BY <2>1, ListJoined
  <2> QED BY <1>4, <2>2
<1>6. e.ref = piece.ref BY DEF Reports, Event
<1>7. ASSUME NEW a \in ToSet(n.actions) PROVE Told(a, n.actions, at, piece)
  <2>1. CASE a \in ToSet(m.actions)
    <3>1. Origin(a, at, piece) /\ (a.item = "copy" => a.kind = e.kind)
      BY <1>1, <2>1, EmittedOrigin DEF AllEmitted
    <3>2. ASSUME a.item = "copy", IsCell(piece) PROVE a.kind = "CellStart" /\ a.ref = piece.ref
      BY <3>1, <3>2 DEF Origin
    <3> QED BY <3>1, <3>2 DEF Told
  <2>2. CASE a \in ToSet(q)
    <3>1. Origin(a, at, piece) BY <1>2, <2>2, EmittedOrigin DEF AllEmitted
    <3>2. ASSUME IsCell(piece)
          PROVE  \E b \in ToSet(n.actions) : b.kind = "CellStart" /\ b.ref = piece.ref
      <4>1. ~m.replacing BY <1>2, <2>2, <3>2
      <4> QED BY <1>3, <1>4, <1>5, <1>6, <3>2, <4>1
    <3> QED BY <3>1, <3>2 DEF Told
  <2> QED BY <1>3, <2>1, <2>2
<1>8. /\ IsPatch(n) /\ (n.replacing => m.replacing \/ f.kind = "CellStart")
      /\ (m.replacing => p.replacing \/ e.kind = "CellStart")
  BY DEF Follows
<1>9. e.kind = "CellStart" \/ f.kind = "CellStart" => Opens(piece, "c") BY DEF Reports, Opens
<1>10. Opens(piece, "worksheet") /\ ~p.replacing =>
          \E a \in ToSet(n.actions) : a.kind = "WorksheetStart"
  BY <1>3, <1>4, <1>5
<1> QED BY <1>7, <1>8, <1>9, <1>10 DEF TakesPiece

LEMMA TransformedTakes ==
    ASSUME NEW p, IsPatch(p), NEW upsert, NEW targets, Selectors(targets), NEW ctx, NEW at,
           NEW piece, ~Transformed(p, upsert, targets, Events(ctx, at, piece)).refused
    PROVE  TakesPiece(p, Transformed(p, upsert, targets, Events(ctx, at, piece)), at, piece)
<1> DEFINE events == Events(ctx, at, piece)
           n == Transformed(p, upsert, targets, events)
           idle == [p EXCEPT !.actions = << >>]
           first == Consumed(idle, upsert, targets, events[1])
           second == Consumed(first, upsert, targets, events[2])
<1>1. IsPatch(idle) /\ idle.actions = << >> /\ idle.replacing = p.replacing
  BY IdlePatch
<1>2. n = IF events = << >> THEN idle
          ELSE IF Len(events) = 1 \/ first.refused THEN first ELSE second
  BY DEF Transformed
<1> HIDE DEF idle
<1>3. Follows(idle, first, events[1]) BY <1>1, ConsumedFollows
<1>4. IsPatch(first) BY <1>3 DEF Follows
<1> HIDE DEF first
<1>5. Follows(first, second, events[2]) BY <1>4, ConsumedFollows
<1> HIDE DEF second, n, events
<1>6. /\ \/ events = << >>
         \/ Len(events) = 1 /\ Reports(events[1], at, piece)
         \/ Len(events) = 2 /\ Reports(events[1], at, piece) /\ Reports(events[2], at, piece)
      /\ piece.name = "c" /\ piece.form = "open" =>
            Len(events) = 1 /\ events[1].kind = "CellStart"
      /\ piece.name = "c" /\ piece.form = "self" =>
            Len(events) = 2 /\ events[1].kind = "CellStart" /\ events[2].kind = "CellEnd"
      /\ Opens(piece, "worksheet") => events # << >> /\ events[1].kind = "WorksheetStart"
  BY EventsReport DEF events, Opens
<1>7. ~n.refused BY DEF n, events
<1>8. CASE events = << >>
  <2>1. n = idle BY <1>2, <1>8
  <2>2. ToSet(n.actions) = {} BY <1>1, <2>1, EmptyList
  <2> QED BY <1>1, <1>6, <1>8, <2>1, <2>2 DEF TakesPiece, n, events
<1>9. CASE Len(events) = 1 /\ events # << >>
  <2>1. n = first /\ Reports(events[1], at, piece) BY <1>2, <1>6, <1>9
  <2>2. IsCell(piece) => events[1].kind = "CellStart" BY <1>6 DEF IsCell
  <2>3. TakesPiece(p, first, at, piece)
    BY <1>1, <1>3, <1>6, <1>7, <2>1, <2>2, OneEventTaken
  <2> QED BY <2>1, <2>3 DEF n, events
<1>10. CASE Len(events) = 2 /\ events # << >>
  <2>1. ~first.refused /\ n = second BY <1>2, <1>7, <1>10
  <2>2. Reports(events[1], at, piece) /\ Reports(events[2], at, piece) BY <1>6, <1>10
  <2>3. IsCell(piece) => events[1].kind = "CellStart" /\ events[2].kind = "CellEnd"
    BY <1>6, <1>10 DEF IsCell
  <2>4. TakesPiece(p, second, at, piece)
    BY <1>1, <1>3, <1>5, <1>6, <2>1, <2>2, <2>3, TwoEventsTaken
  <2> QED BY <2>1, <2>4 DEF n, events
<1> QED BY <1>6, <1>8, <1>9, <1>10

-----------------------------------------------------------------------------
(* Where the reader is.                                                    *)

ContextFields == {"opened", "closed", "seenData", "inData", "inRow", "inCell", "value"}
IsContext(ctx) == DOMAIN ctx = ContextFields /\ ctx.opened \in BOOLEAN

LEMMA ContextStep ==
    ASSUME NEW ctx, IsContext(ctx), NEW piece
    PROVE  /\ IsContext(After(ctx, piece))
           /\ ctx.opened => After(ctx, piece).opened
           /\ After(ctx, piece).opened => ctx.opened \/ Opens(piece, "worksheet")
<1> DEFINE n == After(ctx, piece)
<1>1. ASSUME NEW name PROVE AfterClosing(ctx, name).opened = ctx.opened
                            /\ DOMAIN AfterClosing(ctx, name) = DOMAIN ctx
  BY DEF AfterClosing, IsContext, ContextFields
<1>2. ASSUME NEW name, NEW self \in BOOLEAN, NEW outer \in BOOLEAN, outer = ~self
      PROVE  /\ AfterOpening(ctx, name, self).opened = (IF name = "worksheet" THEN TRUE
                                                        ELSE ctx.opened)
             /\ DOMAIN AfterOpening(ctx, name, self) = DOMAIN ctx
  <2> DEFINE m == AfterOpening(ctx, name, self)
  <2>1. PICK w, d, r, c, v, other :
           /\ w = [ctx EXCEPT !.opened = TRUE, !.closed = self]
           /\ d = [ctx EXCEPT !.seenData = TRUE, !.inData = outer]
           /\ r = [ctx EXCEPT !.inRow = outer]
           /\ c = [ctx EXCEPT !.inCell = outer]
           /\ v = [ctx EXCEPT !.value = name]
           /\ other = (IsValueName(name) /\ ctx.inCell /\ outer)
    OBVIOUS
  <2>2. m = CASE name = "worksheet" -> w [] name = "sheetData" -> d [] name = "row" -> r
              [] name = "c" -> c [] other -> v [] OTHER -> ctx
    BY <1>2, <2>1 DEF AfterOpening
  <2> HIDE DEF m
  <2>3. /\ w.opened = TRUE /\ DOMAIN w = DOMAIN ctx
        /\ \A x \in {d, r, c, v} : x.opened = ctx.opened /\ DOMAIN x = DOMAIN ctx
    BY <2>1 DEF IsContext, ContextFields
  <2>4. CASE name = "worksheet"
    <3>1. m = w
      <4>1. name # "sheetData" /\ name # "row" /\ name # "c" BY <2>4
      <4>2. ~other BY <2>1, <2>4 DEF IsValueName
      <4> QED BY <2>2, <2>4, <4>1, <4>2
    <3> QED BY <2>3, <2>4, <3>1 DEF m
  <2>5. CASE name # "worksheet"
    <3>1. m \in {d, r, c, v, ctx} BY <2>2, <2>5
    <3> QED BY <2>3, <2>5, <3>1 DEF m
  <2> QED BY <2>4, <2>5
<1>3. CASE piece.form = "close"
  <2>1. n = AfterClosing(ctx, piece.name) BY <1>3 DEF After
  <2> HIDE DEF n
  <2> QED BY <1>1, <2>1 DEF IsContext, n
<1>4. CASE piece.form \in {"open", "self"}
  <2>1. n = AfterOpening(ctx, piece.name, piece.form = "self") BY <1>4 DEF After
  <2>2. n.opened = (IF piece.name = "worksheet" THEN TRUE ELSE ctx.opened)
        /\ DOMAIN n = DOMAIN ctx
    <3>1. PICK self \in BOOLEAN, outer \in BOOLEAN : /\ self = (piece.form = "self")
                                                    /\ outer = ~self
      OBVIOUS
    <3>2. n = AfterOpening(ctx, piece.name, self) BY <2>1, <3>1
    <3> QED BY <1>2, <3>1, <3>2
  <2> HIDE DEF n
  <2> QED BY <1>4, <2>2 DEF IsContext, Opens, n
<1>5. CASE piece.form \notin {"close", "open", "self"}
  BY <1>5 DEF After
<1> QED BY <1>3, <1>4, <1>5

\* A cell is only read inside the worksheet.
LEMMA CellsAreInside ==
    ASSUME NEW ctx, IsContext(ctx), NEW piece, Opens(piece, "c"), ~Refuses(ctx, piece)
    PROVE  ctx.opened
BY DEF Opens, Refuses, Outside

-----------------------------------------------------------------------------
(* One reading of the worksheet, piece by piece.                           *)

\* What the transformer and the reader are behind the first n pieces.
Run(P, C, n) ==
    /\ P[0] = Idle /\ C[0] = Outset
    /\ \A i \in 0 .. n : IsPatch(P[i]) /\ IsContext(C[i])
    /\ \A i \in 0 .. n : P[i].replacing => C[i].opened
    /\ \A i \in 1 .. n :
          /\ P[i] = Transformed(P[i - 1], request.upsert, wanted,
                                Events(C[i - 1], i, source[i]))
          /\ C[i] = After(C[i - 1], source[i])
          /\ TakesPiece(P[i - 1], P[i], i, source[i])

LEMMA RunStarts ==
    LET P == [i \in 0 .. 0 |-> Idle]
        C == [i \in 0 .. 0 |-> Outset]
    IN  Run(P, C, 0) /\ P[0] = Idle /\ C[0] = Outset
<1> DEFINE P == [i \in 0 .. 0 |-> Idle]
           C == [i \in 0 .. 0 |-> Outset]
<1>1. IsPatch(Idle) /\ ~Idle.replacing
  BY EmptyList DEF IsPatch, Idle, PatchFields
<1>2. IsContext(Outset)
  BY DEF IsContext, Outset, ContextFields
<1>3. P[0] = Idle /\ C[0] = Outset OBVIOUS
<1>4. /\ \A i \in 0 .. 0 : i = 0
      /\ \A i \in 1 .. 0 : FALSE
  OBVIOUS
<1> HIDE DEF P, C
<1>5. Run(P, C, 0) BY <1>1, <1>2, <1>3, <1>4 DEF Run
<1> QED BY <1>3, <1>5 DEF P, C

LEMMA RunGoesOn ==
    ASSUME Selectors(wanted), NEW P, NEW C, NEW n \in Nat, Run(P, C, n), NEW next,
           next = Transformed(P[n], request.upsert, wanted,
                              Events(C[n], n + 1, source[n + 1])),
           ~next.refused, ~Refuses(C[n], source[n + 1])
    PROVE  \E Q, D : /\ Run(Q, D, n + 1) /\ Q[n + 1] = next
                     /\ D[n + 1] = After(C[n], source[n + 1])
                     /\ \A i \in 0 .. n : Q[i] = P[i] /\ D[i] = C[i]
<1> DEFINE piece == source[n + 1]
           ctx == After(C[n], piece)
           Q == [i \in 0 .. n + 1 |-> IF i = n + 1 THEN next ELSE P[i]]
           D == [i \in 0 .. n + 1 |-> IF i = n + 1 THEN ctx ELSE C[i]]
<1>1. n \in 0 .. n /\ n + 1 \in 0 .. n + 1 /\ 0 \in 0 .. n OBVIOUS
<1>2. IsPatch(P[n]) /\ IsContext(C[n]) /\ (P[n].replacing => C[n].opened)
  BY <1>1 DEF Run
<1>3. TakesPiece(P[n], next, n + 1, piece) BY <1>2, TransformedTakes
<1>4. IsPatch(next) /\ (next.replacing => P[n].replacing \/ Opens(piece, "c"))
  BY <1>3 DEF TakesPiece
<1>5. IsContext(ctx) /\ (C[n].opened => ctx.opened) BY <1>2, ContextStep
<1>6. next.replacing => ctx.opened
  <2>1. Opens(piece, "c") => C[n].opened BY <1>2, CellsAreInside
  <2> QED BY <1>2, <1>4, <1>5, <2>1
<1> HIDE DEF ctx, piece
<1>7. /\ Q[n + 1] = next /\ D[n + 1] = ctx
      /\ \A i \in 0 .. n : Q[i] = P[i] /\ D[i] = C[i]
  OBVIOUS
<1>8. \A i \in 0 .. n + 1 : i \in 0 .. n \/ i = n + 1 OBVIOUS
<1>9. \A i \in 1 .. n + 1 : (i \in 1 .. n /\ i \in 0 .. n /\ i - 1 \in 0 .. n)
                            \/ (i = n + 1 /\ i - 1 = n)
  OBVIOUS
<1> HIDE DEF Q, D
<1>10. Q[0] = Idle /\ D[0] = Outset BY <1>1, <1>7 DEF Run
<1>11. \A i \in 0 .. n + 1 : /\ IsPatch(Q[i]) /\ IsContext(D[i])
                             /\ Q[i].replacing => D[i].opened
  BY <1>4, <1>5, <1>6, <1>7, <1>8 DEF Run
<1>12. ASSUME NEW i \in 1 .. n + 1
       PROVE  /\ Q[i] = Transformed(Q[i - 1], request.upsert, wanted,
                                    Events(D[i - 1], i, source[i]))
              /\ D[i] = After(D[i - 1], source[i])
              /\ TakesPiece(Q[i - 1], Q[i], i, source[i])
  <2>1. CASE i = n + 1
    <3>1. i - 1 = n /\ Q[i] = next /\ D[i] = ctx /\ Q[n] = P[n] /\ D[n] = C[n]
          /\ source[i] = piece
      BY <1>1, <1>7, <1>9, <2>1 DEF piece
    <3> QED BY <1>3, <2>1, <3>1 DEF ctx, piece
  <2>2. CASE i # n + 1
    <3>1. i \in 1 .. n /\ i \in 0 .. n /\ i - 1 \in 0 .. n BY <1>9, <2>2
    <3>2. Q[i] = P[i] /\ D[i] = C[i] /\ Q[i - 1] = P[i - 1] /\ D[i - 1] = C[i - 1]
      BY <1>7, <3>1
    <3> QED BY <3>1, <3>2 DEF Run
  <2> QED BY <2>1, <2>2
<1>13. Run(Q, D, n + 1) BY <1>10, <1>11, <1>12 DEF Run
<1> QED BY <1>7, <1>13 DEF ctx, piece

-----------------------------------------------------------------------------
(* What the first pass learns, and what the second one writes.             *)

OpensDimension(actions) == \E a \in ToSet(actions) : IsDimension(a) /\ ~a.closing
HasDimension == \E x \in ToSet(output.items) : x.item = "dimension"

\* What the first pass knows of the first n pieces.
Learnt(P, n) ==
    /\ \A i \in 1 .. n : \A a \in ToSet(P[i].actions) :
          a.kind = "CellStart" /\ Readable(a.ref) => Spot(a.ref) \in analysis.cells
    /\ analysis.dimension = "none" <=> ~\E i \in 1 .. n : OpensDimension(P[i].actions)

CellsTold ==
    \A x \in ToSet(output.items) :
        IsCell(PieceOf(x)) /\ Readable(x.ref) =>
            Spot(x.ref) \in analysis.cells /\ x.ref \in Refs

\* What the second pass has written of the first n pieces.
WrittenSoFar(P, C, n) ==
    /\ output = [items |-> output.items, skipping |-> output.skipping]
    /\ IsList(output.items) /\ output.skipping \in BOOLEAN
    /\ output.skipping => HasDimension
    /\ analysis.dimension = "none" => ~output.skipping
    /\ analysis.dimension = "none" /\ C[n].opened => HasDimension
    /\ (\E i \in 1 .. n : OpensDimension(P[i].actions)) => HasDimension
    /\ CellsTold

Analyzing(P, C) ==
    /\ Run(P, C, scan.at) /\ patch = P[scan.at] /\ scan.ctx = C[scan.at]
    /\ Learnt(P, scan.at)

Writing(P, C) ==
    /\ Run(P, C, Len(source)) /\ patch = P[scan.at] /\ scan.ctx = C[scan.at]
    /\ Learnt(P, Len(source))
    /\ WrittenSoFar(P, C, scan.at)

CoverInv ==
    /\ pass \in Passes => Selectors(wanted)
    /\ pass \in {"start", "index", "analyze"} => output = Blank
    /\ pass \in {"start", "index"} => analysis = NoAnalysis
    /\ pass = "analyze" => \E P, C : Analyzing(P, C)
    /\ pass = "write" => \E P, C : Writing(P, C)
    /\ DimensionCoversCells

LEMMA TargetsAreSelectors ==
    ASSUME request \in Requests, ~PlanRefuses(request.targets, MaxPayload)
    PROVE  Selectors(wanted)
<1> DEFINE targets == request.targets
           N == Len(targets)
<1>1. targets \in Seq([ref : Refs, payload : Markup])
  BY RequestsAssumption
<1>2. N \in Nat /\ DOMAIN targets = 1 .. N /\ \A i \in 1 .. N : targets[i].ref \in Refs
  <2>1. PICK S : S = [ref : Refs, payload : Markup] OBVIOUS
  <2>2. targets \in Seq(S) BY <1>1, <2>1
  <2>3. N \in Nat /\ DOMAIN targets = 1 .. N /\ \A i \in 1 .. N : targets[i] \in S BY <2>2
  <2>4. \A t \in S : t.ref \in Refs BY <2>1
  <2> QED BY <2>3, <2>4
<1>3. \A i, j \in 1 .. N : j \in 1 .. i - 1 => Spot(targets[j].ref) # Spot(targets[i].ref)
  BY <1>2 DEF PlanRefuses
<1> HIDE DEF targets, N
<1> DEFINE f == [i \in 1 .. N |-> targets[i].ref]
<1>4. wanted = {targets[i].ref : i \in 1 .. N} BY <1>2 DEF wanted, Wanted, targets
<1>5. IsFiniteSet(wanted)
  <2>1. f \in Surjection(1 .. N, wanted) BY <1>4 DEF Surjection
  <2>2. IsFiniteSet(1 .. N) BY <1>2, FS_Interval
  <2> HIDE DEF f
  <2> QED BY <2>1, <2>2, FS_Surjection
<1>6. ASSUME NEW a \in wanted, NEW b \in wanted, Spot(a) = Spot(b) PROVE a = b
  <2>1. PICK i \in 1 .. N, j \in 1 .. N : a = targets[i].ref /\ b = targets[j].ref
    BY <1>4
  <2>2. i = j \/ j \in 1 .. i - 1 \/ i \in 1 .. j - 1 BY <1>2
  <2> QED BY <1>3, <1>6, <2>1, <2>2
<1> QED BY <1>2, <1>4, <1>5, <1>6 DEF Selectors

\* A step that neither passes a piece nor writes.
LEMMA CoverKept ==
    ASSUME CoverInv, UNCHANGED <<request, pass, patch, analysis, output>>,
           scan'.at = scan.at, scan'.ctx = scan.ctx
    PROVE  CoverInv'
<1>1. source' = source /\ wanted' = wanted BY DEF source, wanted
<1>2. ASSUME NEW x PROVE PieceOf(x)' = PieceOf(x) BY <1>1 DEF PieceOf
<1>3. DimensionCoversCells' BY <1>2 DEF CoverInv, DimensionCoversCells
<1>4. CellsTold' <=> CellsTold BY <1>2 DEF CellsTold
<1>5. HasDimension' <=> HasDimension BY DEF HasDimension
<1>6. ASSUME NEW P, NEW C, NEW n
      PROVE  /\ Run(P, C, n)' <=> Run(P, C, n)
             /\ Learnt(P, n)' <=> Learnt(P, n)
             /\ WrittenSoFar(P, C, n)' <=> WrittenSoFar(P, C, n)
  BY <1>1, <1>4, <1>5 DEF Run, Learnt, WrittenSoFar
<1>7. ASSUME NEW P, NEW C
      PROVE  (Analyzing(P, C) => Analyzing(P, C)') /\ (Writing(P, C) => Writing(P, C)')
  BY <1>1, <1>6 DEF Analyzing, Writing
<1>8. Selectors(wanted') <=> Selectors(wanted) BY <1>1
<1> QED BY <1>3, <1>7, <1>8 DEF CoverInv

\* A step that ends the call without a streamed worksheet.
LEMMA CoverEnded ==
    ASSUME CoverInv, pass' \in {"refused", "failed", "rejected", "indexed"}
    PROVE  CoverInv'
BY DEF CoverInv, DimensionCoversCells, Passes

LEMMA CoverAnalysisEntered ==
    ASSUME request \in Requests, Selectors(wanted), UNCHANGED <<request, analysis, output>>,
           analysis = NoAnalysis, output = Blank, Enter("analyze")
    PROVE  CoverInv'
<1>1. pass' = "analyze" /\ scan' = Fresh /\ patch' = Idle BY DEF Enter
<1>2. wanted' = wanted /\ source' = source BY DEF wanted, source
<1>3. PICK P, C : Run(P, C, 0) /\ P[0] = Idle /\ C[0] = Outset
  BY RunStarts
<1>4. Run(P, C, 0)' BY <1>2, <1>3 DEF Run
<1>5. analysis'.cells = {} /\ analysis'.dimension = "none" BY DEF NoAnalysis
<1>6. \A i \in 1 .. 0 : FALSE OBVIOUS
<1>7. Learnt(P, 0)' BY <1>5, <1>6 DEF Learnt
<1>8. scan'.at = 0 /\ scan'.ctx = Outset BY <1>1 DEF Fresh
<1>9. Analyzing(P, C)' BY <1>1, <1>3, <1>4, <1>7, <1>8 DEF Analyzing
<1> QED BY <1>1, <1>2, <1>9 DEF CoverInv, DimensionCoversCells

LEMMA CoverFails ==
    ASSUME WindowInv, CoverInv, Fail, pass \in Passes
    PROVE  CoverInv'
<1>1. CASE pass = "index"
  <2>1. UNCHANGED <<request, analysis, output>> /\ Enter("analyze") BY <1>1 DEF Fail
  <2> QED BY <1>1, <2>1, CoverAnalysisEntered DEF CoverInv, WindowInv
<1>2. CASE pass # "index"
  <2>1. pass' = "failed" BY <1>2 DEF Fail, End
  <2> QED BY <2>1, CoverEnded
<1> QED BY <1>1, <1>2

LEMMA CoverInit == Init => CoverInv
BY DEF Init, CoverInv, DimensionCoversCells, Passes

\* The first pass learns of a piece what the run does with it.
LEMMA LearningGoesOn ==
    ASSUME NEW P, NEW n \in Nat, Learnt(P, n), NEW Q,
           \A i \in 1 .. n : Q[i] = P[i],
           analysis' = Analysed(Q[n + 1].actions)
    PROVE  Learnt(Q, n + 1)'
<1> DEFINE actions == Q[n + 1].actions
<1>1. /\ analysis'.cells = analysis.cells
            \cup {Spot(a.ref) : a \in {c \in CellActions(actions) : Readable(c.ref)}}
      /\ analysis'.dimension = DimensionAfter(analysis.dimension, actions)
  BY DEF Analysed
<1> HIDE DEF actions
<1>2. \A i \in 1 .. n + 1 : i \in 1 .. n \/ i = n + 1 OBVIOUS
<1>3. n + 1 \in 1 .. n + 1 /\ \A i \in 1 .. n : i \in 1 .. n + 1 OBVIOUS
<1>4. ASSUME NEW i \in 1 .. n + 1, NEW a \in ToSet(Q[i].actions), a.kind = "CellStart",
             Readable(a.ref)
      PROVE  Spot(a.ref) \in analysis'.cells
  <2>1. CASE i = n + 1
    <3>1. a \in {c \in CellActions(actions) : Readable(c.ref)}
      BY <1>4, <2>1 DEF CellActions, actions
    <3> QED BY <1>1, <3>1
  <2>2. CASE i # n + 1
    <3>1. i \in 1 .. n /\ Q[i] = P[i] BY <1>2, <2>2
    <3>2. Spot(a.ref) \in analysis.cells BY <1>4, <3>1 DEF Learnt
    <3> QED BY <1>1, <3>2
  <2> QED BY <2>1, <2>2
<1>5. DimensionAfter(analysis.dimension, actions) = "none"
         <=> analysis.dimension = "none" /\ ~OpensDimension(actions)
  <2> DEFINE d == analysis.dimension
             n1 == DimensionAfter(d, actions)
  <2>1. CASE d = "none" /\ OpensDimension(actions)
    <3>1. \E a \in ToSet(actions) : IsDimension(a) /\ ~a.closing /\ d = "none"
      BY <2>1 DEF OpensDimension
    <3>2. ~\E a \in ToSet(actions) : IsDimension(a) /\ a.closing /\ d = "open" BY <2>1
    <3>3. n1 = IF \E a \in ToSet(actions) : IsDimension(a) /\ a.self THEN "closed" ELSE "open"
      BY <3>1, <3>2 DEF DimensionAfter
    <3> QED BY <2>1, <3>3
  <2>2. CASE ~(d = "none" /\ OpensDimension(actions))
    <3>1. ~\E a \in ToSet(actions) : IsDimension(a) /\ ~a.closing /\ d = "none"
      BY <2>2 DEF OpensDimension
    <3>2. n1 = IF \E a \in ToSet(actions) : IsDimension(a) /\ a.closing /\ d = "open"
               THEN "closed" ELSE d
      BY <3>1 DEF DimensionAfter
    <3> QED BY <2>2, <3>2
  <2> QED BY <2>1, <2>2
<1>6. (\E i \in 1 .. n + 1 : OpensDimension(Q[i].actions))
         <=> (\E i \in 1 .. n : OpensDimension(P[i].actions)) \/ OpensDimension(actions)
  BY <1>2, <1>3 DEF actions
<1>7. analysis'.dimension = "none" <=> ~\E i \in 1 .. n + 1 : OpensDimension(Q[i].actions)
  BY <1>1, <1>5, <1>6 DEF Learnt
<1> QED BY <1>4, <1>7 DEF Learnt

LEMMA CoverAnalyzes ==
    ASSUME WindowInv, CoverInv, pass = "analyze", TransformPiece, ~Fail
    PROVE  CoverInv'
<1>1. PICK n \in Nat : n = scan.at BY SourceType DEF WindowInv
<1> DEFINE k == scan.at + 1
<1>2. PICK piece, next :
         /\ piece = source[k]
         /\ next = Transformed(patch, request.upsert, wanted, Events(scan.ctx, k, piece))
  OBVIOUS
<1>3. /\ patch' = next /\ scan' = Passed /\ analysis' = Analysed(next.actions)
      /\ UNCHANGED <<request, pass, output>> /\ ~next.refused /\ ~Refuses(scan.ctx, piece)
  BY <1>2 DEF TransformPiece
<1>4. PICK P, C : Analyzing(P, C) BY DEF CoverInv
<1>5. /\ Run(P, C, n) /\ patch = P[n] /\ scan.ctx = C[n] /\ Learnt(P, n)
      /\ n \in Nat /\ Selectors(wanted)
  BY <1>1, <1>4 DEF Analyzing, CoverInv, Passes
<1>6. PICK Q, D : /\ Run(Q, D, n + 1) /\ Q[n + 1] = next
                  /\ D[n + 1] = After(C[n], piece)
                  /\ \A i \in 0 .. n : Q[i] = P[i] /\ D[i] = C[i]
  <2>1. next = Transformed(P[n], request.upsert, wanted, Events(C[n], n + 1, piece))
    BY <1>1, <1>2, <1>5
  <2> QED BY <1>1, <1>3, <1>2, <1>5, <2>1, RunGoesOn
<1>7. scan'.at = n + 1 /\ scan'.ctx = After(scan.ctx, piece)
  BY <1>1, <1>2, <1>3 DEF Passed, WindowInv
<1>8. source' = source /\ wanted' = wanted BY <1>3 DEF source, wanted
<1>9. Run(Q, D, n + 1)' BY <1>3, <1>6, <1>8 DEF Run
<1>10. Learnt(Q, n + 1)'
  <2>1. \A i \in 1 .. n : i \in 0 .. n BY <1>5
  <2>2. \A i \in 1 .. n : Q[i] = P[i] BY <1>6, <2>1
  <2> QED BY <1>3, <1>5, <1>6, <2>2, LearningGoesOn
<1>11. Analyzing(Q, D)' BY <1>3, <1>5, <1>6, <1>7, <1>9, <1>10 DEF Analyzing
<1>12. pass' = "analyze" /\ output' = Blank BY <1>3 DEF CoverInv
<1> QED BY <1>5, <1>8, <1>11, <1>12 DEF CoverInv, DimensionCoversCells

-----------------------------------------------------------------------------
(* What the second pass writes of a piece.                                 *)

LEMMA WrittenList ==
    ASSUME NEW a
    PROVE  /\ IsList(WrittenAs(a)) /\ ToSet(WrittenAs(a)) \subseteq {a, Dimension}
           /\ a.kind = "WorksheetStart" /\ analysis.dimension = "none" =>
                 Dimension \in ToSet(WrittenAs(a))
           /\ IsDimension(a) /\ ~a.closing => Dimension \in ToSet(WrittenAs(a))
<1>1. CASE a.kind = "WorksheetStart" /\ analysis.dimension = "none"
  <2>1. ~IsDimension(a) BY <1>1 DEF IsDimension
  <2>2. WrittenAs(a) = <<a, Dimension>> BY <1>1, <2>1 DEF WrittenAs
  <2>3. IsList(<<a, Dimension>>) /\ ToSet(<<a, Dimension>>) = {a, Dimension}
    BY DEF IsList, ToSet
  <2> QED BY <2>2, <2>3
<1>2. CASE ~(a.kind = "WorksheetStart" /\ analysis.dimension = "none")
           /\ IsDimension(a) /\ ~a.closing
  <2>1. WrittenAs(a) = <<Dimension>> BY <1>2 DEF WrittenAs
  <2> QED BY <1>2, <2>1, SingleList
<1>3. CASE ~(a.kind = "WorksheetStart" /\ analysis.dimension = "none")
           /\ ~(IsDimension(a) /\ ~a.closing)
  <2>1. WrittenAs(a) = <<a>> BY <1>3 DEF WrittenAs
  <2> QED BY <1>3, <2>1, SingleList
<1> QED BY <1>1, <1>2, <1>3

LEMMA WrittenItems ==
    ASSUME NEW actions, IsList(actions)
    PROVE  LET q == FlattenSeq([i \in DOMAIN actions |-> WrittenAs(actions[i])])
           IN  /\ IsList(q) /\ ToSet(q) \subseteq ToSet(actions) \cup {Dimension}
               /\ OpensDimension(actions) => Dimension \in ToSet(q)
               /\ analysis.dimension = "none"
                  /\ (\E a \in ToSet(actions) : a.kind = "WorksheetStart") =>
                        Dimension \in ToSet(q)
<1>1. PICK n \in Nat : n = Len(actions) BY DEF IsList
<1>2. DOMAIN actions = 1 .. n /\ ToSet(actions) = {actions[i] : i \in 1 .. n}
  <2>1. actions = [i \in 1 .. n |-> actions[i]] BY <1>1 DEF IsList
  <2>2. DOMAIN actions = 1 .. n BY <2>1
  <2> QED BY <2>2 DEF ToSet
<1> DEFINE ss == [i \in 1 .. n |-> WrittenAs(actions[i])]
<1>3. IsList(ss) /\ Len(ss) = n BY DEF IsList
<1>4. \A i \in 1 .. n : ss[i] = WrittenAs(actions[i]) OBVIOUS
<1> HIDE DEF ss
<1>5. \A i \in 1 .. Len(ss) : IsList(ss[i]) BY <1>3, <1>4, WrittenList
<1>6. IsList(FlattenSeq(ss))
      /\ ToSet(FlattenSeq(ss)) = UNION {ToSet(ss[i]) : i \in 1 .. n}
  BY <1>3, <1>5, ListFlattened
<1>7. ASSUME NEW x \in ToSet(FlattenSeq(ss)) PROVE x \in ToSet(actions) \cup {Dimension}
  <2>1. PICK i \in 1 .. n : x \in ToSet(WrittenAs(actions[i])) BY <1>4, <1>6
  <2>2. x \in {actions[i], Dimension} BY <2>1, WrittenList
  <2> QED BY <1>2, <2>2
<1>8. ASSUME NEW a \in ToSet(actions), Dimension \in ToSet(WrittenAs(a))
      PROVE  Dimension \in ToSet(FlattenSeq(ss))
  <2>1. PICK i \in 1 .. n : a = actions[i] BY <1>2
  <2>2. Dimension \in ToSet(ss[i]) BY <1>4, <1>8, <2>1
  <2> QED BY <1>6, <2>2
<1>9. OpensDimension(actions) => Dimension \in ToSet(FlattenSeq(ss))
  BY <1>8, WrittenList DEF OpensDimension
<1>10. analysis.dimension = "none" /\ (\E a \in ToSet(actions) : a.kind = "WorksheetStart") =>
          Dimension \in ToSet(FlattenSeq(ss))
  BY <1>8, WrittenList
<1> QED BY <1>2, <1>6, <1>7, <1>9, <1>10 DEF ss

\* Every cell written was counted.
LEMMA CellCounted ==
    ASSUME NEW actions, NEW at,
           source[at] \in [form : Forms, name : STRING, ref : Refs, bytes : Nat],
           NEW a, Told(a, actions, at, source[at]), a \in ToSet(actions),
           \A b \in ToSet(actions) :
              b.kind = "CellStart" /\ Readable(b.ref) => Spot(b.ref) \in analysis.cells,
           IsCell(PieceOf(a)), Readable(a.ref)
    PROVE  Spot(a.ref) \in analysis.cells /\ a.ref \in Refs
<1> DEFINE piece == source[at]
<1>1. piece.ref \in Refs OBVIOUS
<1>2. CASE a.item = "copy" /\ a.at = at /\ a.ref = piece.ref
  <2>1. PieceOf(a) = piece BY <1>2 DEF PieceOf
  <2>2. PICK b \in ToSet(actions) : b.kind = "CellStart" /\ b.ref = piece.ref
    BY <1>2, <2>1 DEF Told
  <2> QED BY <1>1, <1>2, <2>2
<1>3. CASE a.item \in {"opened", "closed"} /\ a.at = at /\ piece.name # "c"
  <2>1. PieceOf(a) = [piece EXCEPT !.form = "open"] \/ PieceOf(a) = [piece EXCEPT !.form = "close"]
    BY <1>3 DEF PieceOf
  <2>2. PieceOf(a).name = piece.name BY <2>1
  <2> QED BY <1>3, <2>2 DEF IsCell
<1>4. CASE a.item = "new" /\ a.name # "c"
  <2>1. PieceOf(a).name = a.name BY <1>4 DEF PieceOf, Piece
  <2> QED BY <1>4, <2>1 DEF IsCell
<1>5. CASE a.item \in {"cell", "insert"} /\ a.kind = "CellStart"
           /\ (a.ref = piece.ref \/ a.ref \in Refs)
  BY <1>1, <1>5
<1> QED BY <1>2, <1>3, <1>4, <1>5 DEF Told, Origin

LEMMA WritingGoesOn ==
    ASSUME request \in Requests, NEW P, NEW C, NEW n \in 0 .. Len(source) - 1,
           Run(P, C, Len(source)), Learnt(P, Len(source)), WrittenSoFar(P, C, n),
           UNCHANGED <<request, analysis>>, output' = Written(P[n + 1].actions)
    PROVE  WrittenSoFar(P, C, n + 1)'
<1> DEFINE actions == P[n + 1].actions
           k == n + 1
<1>1. /\ k \in 1 .. Len(source) /\ k - 1 = n /\ k \in 0 .. Len(source)
      /\ n \in 0 .. Len(source)
  BY SourceType
<1>2. PICK piece : piece = source[k] OBVIOUS
<1>3. piece \in [form : Forms, name : STRING, ref : Refs, bytes : Nat]
  <2>1. PICK S : S = [form : Forms, name : STRING, ref : Refs, bytes : Nat] OBVIOUS
  <2>2. source \in Seq(S) BY <2>1, SourceType DEF Markup
  <2>3. source[k] \in S BY <1>1, <2>2
  <2> QED BY <1>2, <2>1, <2>3
<1>4. /\ TakesPiece(P[n], P[k], k, piece) /\ C[k] = After(C[n], piece)
      /\ IsContext(C[n]) /\ (P[n].replacing => C[n].opened)
  BY <1>1, <1>2 DEF Run
<1>5. IsList(actions) BY <1>4 DEF TakesPiece, IsPatch
<1>6. \A b \in ToSet(actions) :
         b.kind = "CellStart" /\ Readable(b.ref) => Spot(b.ref) \in analysis.cells
  BY <1>1 DEF Learnt
<1>7. analysis.dimension = "none" => \A i \in 1 .. Len(source) : ~OpensDimension(P[i].actions)
  BY DEF Learnt
<1>8. \A a \in ToSet(actions) : Told(a, actions, k, piece) BY <1>4 DEF TakesPiece
<1>9. /\ C[k].opened => C[n].opened \/ Opens(piece, "worksheet")
      /\ C[k].opened /\ ~C[n].opened => \E a \in ToSet(actions) : a.kind = "WorksheetStart"
  <2>1. C[k].opened => C[n].opened \/ Opens(piece, "worksheet") BY <1>4, ContextStep
  <2> QED BY <1>4, <2>1 DEF TakesPiece
<1>10. source' = source BY DEF source
<1>11. ASSUME NEW x PROVE PieceOf(x)' = PieceOf(x) BY <1>10 DEF PieceOf
<1>12. \A i \in 1 .. k : i \in 1 .. n \/ i = k BY <1>1
<1>13. analysis.dimension = "none" => ~OpensDimension(actions) BY <1>1, <1>7
<1>14. output' = Written(actions) OBVIOUS
<1> HIDE DEF actions, k
<1>15. CASE output.skipping
  <2>1. PICK skip \in BOOLEAN :
           skip = ~\E a \in ToSet(actions) : IsDimension(a) /\ a.closing
    OBVIOUS
  <2>2. output' = [output EXCEPT !.skipping = skip] BY <1>14, <1>15, <2>1 DEF Written
  <2>3. /\ output' = [items |-> output'.items, skipping |-> output'.skipping]
        /\ output'.items = output.items /\ output'.skipping \in BOOLEAN
    BY <2>2 DEF WrittenSoFar
  <2>4. HasDimension' /\ analysis'.dimension # "none"
    BY <1>15, <2>3 DEF WrittenSoFar, HasDimension
  <2>5. CellsTold' BY <1>11, <2>3 DEF CellsTold, WrittenSoFar
  <2> QED BY <2>3, <2>4, <2>5 DEF WrittenSoFar, k
<1>16. CASE ~output.skipping
  <2> DEFINE q == FlattenSeq([i \in DOMAIN actions |-> WrittenAs(actions[i])])
  <2>1. PICK skip \in BOOLEAN :
           skip = \E a \in ToSet(actions) : IsDimension(a) /\ ~a.closing /\ ~a.self
    OBVIOUS
  <2>2. output' = [items |-> output.items \o q, skipping |-> skip]
    BY <1>14, <1>16, <2>1 DEF Written
  <2>3. /\ IsList(q) /\ ToSet(q) \subseteq ToSet(actions) \cup {Dimension}
        /\ OpensDimension(actions) => Dimension \in ToSet(q)
        /\ analysis.dimension = "none"
           /\ (\E a \in ToSet(actions) : a.kind = "WorksheetStart") => Dimension \in ToSet(q)
    BY <1>5, WrittenItems
  <2> HIDE DEF q
  <2>4. /\ output' = [items |-> output'.items, skipping |-> output'.skipping]
        /\ output'.items = output.items \o q /\ output'.skipping = skip
    BY <2>2
  <2>5. IsList(output'.items) /\ ToSet(output'.items) = ToSet(output.items) \cup ToSet(q)
    <3>1. PICK items : items = output.items /\ IsList(items) BY DEF WrittenSoFar
    <3> QED BY <2>3, <2>4, <3>1, ListJoined
  <2>6. (HasDimension => HasDimension') /\ (Dimension \in ToSet(q) => HasDimension')
    <3>1. Dimension.item = "dimension" BY DEF Dimension, Synthetic
    <3> QED BY <2>5, <3>1 DEF HasDimension
  <2>7. skip => OpensDimension(actions) BY <2>1 DEF OpensDimension
  <2>8. analysis'.dimension = "none" /\ C[k].opened => HasDimension'
    BY <1>9, <2>3, <2>6 DEF WrittenSoFar
  <2>9. (\E i \in 1 .. k : OpensDimension(P[i].actions)) => HasDimension'
    <3>1. OpensDimension(P[k].actions) => HasDimension' BY <2>3, <2>6 DEF actions, k
    <3>2. (\E i \in 1 .. n : OpensDimension(P[i].actions)) => HasDimension'
      BY <2>6 DEF WrittenSoFar
    <3> QED BY <1>12, <3>1, <3>2
  <2>10. ASSUME NEW x \in ToSet(output'.items), IsCell(PieceOf(x)'), Readable(x.ref)
         PROVE  Spot(x.ref) \in analysis'.cells /\ x.ref \in Refs
    <3>0. IsCell(PieceOf(x)) BY <1>11, <2>10
    <3>1. CASE x \in ToSet(output.items)
      BY <2>10, <3>0, <3>1 DEF WrittenSoFar, CellsTold
    <3>2. CASE x = Dimension
      <4>1. PieceOf(x).name = "dimension"
        BY <3>2 DEF PieceOf, Dimension, Synthetic, Piece
      <4> QED BY <3>0, <4>1 DEF IsCell
    <3>3. CASE x \in ToSet(actions)
      <4>1. Told(x, actions, k, source[k])
            /\ source[k] \in [form : Forms, name : STRING, ref : Refs, bytes : Nat]
        BY <1>2, <1>3, <1>8, <3>3
      <4> QED BY <1>6, <2>10, <3>0, <3>3, <4>1, CellCounted
    <3> QED BY <2>3, <2>5, <3>1, <3>2, <3>3
  <2>11. CellsTold' BY <2>10 DEF CellsTold
  <2>12. /\ output'.skipping \in BOOLEAN /\ (output'.skipping => HasDimension')
         /\ analysis'.dimension = "none" => ~output'.skipping
    BY <1>13, <2>3, <2>4, <2>6, <2>7
  <2> QED BY <2>4, <2>5, <2>8, <2>9, <2>11, <2>12 DEF WrittenSoFar, k
<1> QED BY <1>15, <1>16 DEF WrittenSoFar

LEMMA CoverWrites ==
    ASSUME WindowInv, CoverInv, pass = "write", TransformPiece, ~Fail
    PROVE  CoverInv'
<1>1. PICK n \in 0 .. Len(source) : n = scan.at BY DEF WindowInv
<1>2. scan.at < Len(source) BY DEF TransformPiece, Starved
<1>3. n \in 0 .. Len(source) - 1 /\ n + 1 \in 1 .. Len(source) /\ (n + 1) - 1 = n
  BY <1>1, <1>2, SourceType DEF WindowInv
<1>4. PICK next : next = Transformed(patch, request.upsert, wanted,
                                     Events(scan.ctx, n + 1, source[n + 1]))
  OBVIOUS
<1>5. /\ patch' = next /\ scan' = Passed /\ output' = Written(next.actions)
      /\ UNCHANGED <<request, pass, analysis>>
  BY <1>1, <1>4 DEF TransformPiece
<1>6. PICK P, C : Writing(P, C) BY DEF CoverInv
<1>7. /\ Run(P, C, Len(source)) /\ patch = P[n] /\ scan.ctx = C[n]
      /\ Learnt(P, Len(source)) /\ WrittenSoFar(P, C, n)
  BY <1>1, <1>6 DEF Writing
<1>8. next = P[n + 1] /\ After(scan.ctx, source[n + 1]) = C[n + 1]
  BY <1>3, <1>4, <1>7 DEF Run
<1>9. scan'.at = n + 1 /\ scan'.ctx = C[n + 1]
  BY <1>1, <1>5, <1>8 DEF Passed, WindowInv
<1>10. source' = source /\ wanted' = wanted BY <1>5 DEF source, wanted
<1>11. WrittenSoFar(P, C, n + 1)'
  BY <1>3, <1>5, <1>7, <1>8, WritingGoesOn DEF WindowInv
<1>12. Run(P, C, Len(source))' /\ Learnt(P, Len(source))'
  BY <1>5, <1>7, <1>10 DEF Run, Learnt
<1>13. Writing(P, C)' BY <1>5, <1>8, <1>9, <1>10, <1>11, <1>12 DEF Writing
<1>14. pass' = "write" BY <1>5
<1> QED BY <1>10, <1>13, <1>14 DEF CoverInv, DimensionCoversCells, Passes

-----------------------------------------------------------------------------
(* The ends of the two passes.                                             *)

LEMMA CoverAnalysisEnds ==
    ASSUME WindowInv, CoverInv, EndAnalysis, ~Fail
    PROVE  CoverInv'
<1>1. /\ pass = "analyze" /\ scan.at = Len(source) /\ Enter("write")
      /\ UNCHANGED <<request, plan, analysis, output>>
  BY DEF EndAnalysis, Ended
<1>2. PICK P, C : Analyzing(P, C) BY <1>1 DEF CoverInv
<1>3. Run(P, C, Len(source)) /\ Learnt(P, Len(source)) BY <1>1, <1>2 DEF Analyzing
<1>4. source' = source /\ wanted' = wanted BY <1>1 DEF source, wanted
<1>5. Run(P, C, Len(source))' /\ Learnt(P, Len(source))'
  BY <1>1, <1>3, <1>4 DEF Run, Learnt
<1>6. /\ pass' = "write" /\ scan'.at = 0 /\ scan'.ctx = Outset /\ patch' = Idle
      /\ P[0] = Idle /\ C[0] = Outset
  BY <1>1, <1>3 DEF Enter, Fresh, Run
<1>7. output' = [items |-> << >>, skipping |-> FALSE] BY <1>1 DEF CoverInv, Blank
<1>8. output'.items = << >> /\ output'.skipping = FALSE BY <1>7
<1>9. ToSet(output'.items) = {} /\ IsList(output'.items) BY <1>8, EmptyList
<1>10. ~C[0].opened
  <2>1. ~Outset.opened BY DEF Outset
  <2> QED BY <1>6, <2>1
<1>11. ~\E i \in 1 .. 0 : OpensDimension(P[i].actions) OBVIOUS
<1>12. CellsTold' BY <1>9 DEF CellsTold
<1>13. WrittenSoFar(P, C, 0)'
  BY <1>7, <1>8, <1>9, <1>10, <1>11, <1>12 DEF WrittenSoFar
<1>14. Writing(P, C)' BY <1>4, <1>5, <1>6, <1>13 DEF Writing
<1> QED BY <1>1, <1>4, <1>6, <1>14 DEF CoverInv, DimensionCoversCells, Passes

LEMMA CoverWriteEnds ==
    ASSUME WindowInv, CoverInv, EndWrite, ~Fail
    PROVE  CoverInv'
<1>1. /\ pass = "write" /\ scan.at = Len(source) /\ ~RefusesEnd(scan.ctx)
      /\ End(IF request.linked = "fail" THEN "rejected" ELSE "streamed")
      /\ UNCHANGED <<request, plan, analysis, output>>
  BY DEF EndWrite, Ended
<1>2. CASE pass' = "rejected" BY <1>2, CoverEnded
<1>3. CASE pass' = "streamed"
  <2>1. PICK P, C : Writing(P, C) BY <1>1 DEF CoverInv
  <2>2. /\ Learnt(P, Len(source)) /\ WrittenSoFar(P, C, Len(source))
        /\ C[Len(source)].opened
    BY <1>1, <2>1 DEF Writing, RefusesEnd
  <2>3. HasDimension BY <2>2 DEF Learnt, WrittenSoFar
  <2>4. source' = source BY <1>1 DEF source
  <2>5. ASSUME NEW x PROVE PieceOf(x)' = PieceOf(x) BY <2>4 DEF PieceOf
  <2>6. PICK items : items = output.items /\ output'.items = items BY <1>1
  <2>7. \E i \in DOMAIN items : items[i].item = "dimension"
    BY <2>3, <2>6 DEF HasDimension, ToSet
  <2>8. ASSUME NEW i \in DOMAIN items, IsCell(PieceOf(items[i])), Readable(items[i].ref)
        PROVE  LET ref == items[i].ref
               IN  /\ \E s \in analysis.cells : s[1] <= ref.row
                   /\ \E s \in analysis.cells : s[1] >= ref.row
                   /\ \E s \in analysis.cells : s[2] <= ref.col
                   /\ \E s \in analysis.cells : s[2] >= ref.col
    <3>1. PICK ref : ref = items[i].ref OBVIOUS
    <3>2. items[i] \in ToSet(items) BY DEF ToSet
    <3>3. Spot(ref) \in analysis.cells /\ ref \in Refs
      BY <2>2, <2>6, <2>8, <3>1, <3>2 DEF WrittenSoFar, CellsTold
    <3>4. ref.row \in Nat /\ ref.col \in Nat /\ Spot(ref)[1] = ref.row /\ Spot(ref)[2] = ref.col
      BY <3>3 DEF Refs, Spot
    <3>5. /\ Spot(ref)[1] <= ref.row /\ Spot(ref)[1] >= ref.row
          /\ Spot(ref)[2] <= ref.col /\ Spot(ref)[2] >= ref.col
      BY <3>4
    <3> QED BY <3>1, <3>3, <3>5
  <2> DEFINE Covered ==
                /\ \E i \in DOMAIN output.items : output.items[i].item = "dimension"
                /\ \A i \in DOMAIN output.items :
                      LET item == output.items[i]
                      IN  (IsCell(PieceOf(item)) /\ Readable(item.ref)) =>
                            /\ \E s \in analysis.cells : s[1] <= item.ref.row
                            /\ \E s \in analysis.cells : s[1] >= item.ref.row
                            /\ \E s \in analysis.cells : s[2] <= item.ref.col
                            /\ \E s \in analysis.cells : s[2] >= item.ref.col
  <2>9. Covered BY <2>6, <2>7, <2>8
  <2>10. Covered' BY <1>1, <2>5, <2>9
  <2>11. DimensionCoversCells' BY <2>10 DEF DimensionCoversCells
  <2> QED BY <1>3, <2>11 DEF CoverInv, Passes
<1> QED BY <1>1, <1>2, <1>3 DEF End

LEMMA CoverStep == WindowInv /\ CoverInv /\ [Next]_vars => CoverInv'
<1> SUFFICES ASSUME WindowInv, CoverInv, [Next]_vars PROVE CoverInv'
  OBVIOUS
<1>1. CASE UNCHANGED vars \/ Done
  BY <1>1, CoverKept DEF vars, Done
<1>2. CASE Start
  <2>1. pass = "start" /\ UNCHANGED <<request, plan, analysis, output>> BY <1>2 DEF Start
  <2>2. CASE End("refused") BY <2>2, CoverEnded DEF End
  <2>3. CASE ~PlanRefuses(request.targets, MaxPayload)
             /\ Enter(IF Indexable THEN "index" ELSE "analyze")
    <3>1. Selectors(wanted) BY <2>3, TargetsAreSelectors DEF WindowInv
    <3>2. analysis = NoAnalysis /\ output = Blank BY <2>1 DEF CoverInv
    <3>3. CASE Enter("analyze")
      BY <2>1, <3>1, <3>2, <3>3, CoverAnalysisEntered DEF WindowInv
    <3>4. CASE Enter("index")
      <4>1. pass' = "index" /\ wanted' = wanted BY <2>1, <3>4 DEF Enter, wanted
      <4> QED BY <2>1, <3>1, <3>2, <4>1 DEF CoverInv, DimensionCoversCells
    <3> QED BY <2>3, <3>3, <3>4
  <2> QED BY <1>2, <2>2, <2>3 DEF Start
<1>3. CASE InflateFails
  BY <1>3, CoverEnded DEF InflateFails, End
<1>4. CASE ReadChunk
  <2>1. UNCHANGED <<request, pass, patch, analysis, output>> BY <1>4 DEF ReadChunk
  <2>2. scan'.at = scan.at /\ scan'.ctx = scan.ctx
    BY <1>4 DEF ReadChunk, WindowInv
  <2> QED BY <2>1, <2>2, CoverKept
<1>5. CASE ReadFails
  BY <1>5, CoverFails DEF ReadFails
<1>6. CASE Refill
  <2>1. UNCHANGED <<request, pass, patch, analysis, output>> BY <1>6 DEF Refill
  <2>2. scan'.at = scan.at /\ scan'.ctx = scan.ctx
    BY <1>6 DEF Refill, Filled, FilledInPlace, WindowInv
  <2> QED BY <2>1, <2>2, CoverKept
<1>7. CASE Overflow
  BY <1>7, CoverFails DEF Overflow
<1>8. CASE ScanPiece
  <2>1. pass = "index" BY <1>8 DEF ScanPiece
  <2>2. CASE Fail BY <2>1, <2>2, CoverFails DEF Passes
  <2>3. CASE UNCHANGED <<request, pass, patch, analysis, output>>
    <3>1. wanted' = wanted BY <2>3 DEF wanted
    <3> QED BY <2>1, <2>3, <3>1 DEF CoverInv, DimensionCoversCells
  <2> QED BY <1>8, <2>2, <2>3 DEF ScanPiece
<1>9. CASE TransformPiece
  <2>1. pass \in {"analyze", "write"} BY <1>9 DEF TransformPiece
  <2>2. CASE Fail BY <2>1, <2>2, CoverFails DEF Passes
  <2>3. CASE ~Fail BY <1>9, <2>1, <2>3, CoverAnalyzes, CoverWrites
  <2> QED BY <2>2, <2>3
<1>10. CASE EndPlan
  <2>1. CASE Fail BY <1>10, <2>1, CoverFails DEF EndPlan, Passes
  <2>2. CASE ~Fail BY <1>10, <2>2, CoverEnded DEF EndPlan, End
  <2> QED BY <2>1, <2>2
<1>11. CASE EndAnalysis
  <2>1. CASE Fail BY <1>11, <2>1, CoverFails DEF EndAnalysis, Passes
  <2>2. CASE ~Fail BY <1>11, <2>2, CoverAnalysisEnds
  <2> QED BY <2>1, <2>2
<1>12. CASE EndWrite
  <2>1. CASE Fail BY <1>12, <2>1, CoverFails DEF EndWrite, Passes
  <2>2. CASE ~Fail BY <1>12, <2>2, CoverWriteEnds
  <2> QED BY <2>1, <2>2
<1> QED BY <1>1, <1>2, <1>3, <1>4, <1>5, <1>6, <1>7, <1>8, <1>9, <1>10, <1>11, <1>12
        DEF Next, Step

(* The dimension of a streamed worksheet covers every cell of it, kept,    *)
(* replaced or inserted: the second pass repeats the run of the first one, *)
(* which counted every cell it will write, a replaced cell by the action   *)
(* that starts it (include_dimension_cell, src/package_editor.cpp:4000).   *)
THEOREM DimensionCoversEveryCell == Spec => []DimensionCoversCells
<1>1. CoverInv => DimensionCoversCells BY DEF CoverInv
<1> QED BY <1>1, CoverInit, CoverStep, WindowHolds, PTL DEF Spec

-----------------------------------------------------------------------------
(* Reading what is written.                                                *)

Context == [opened : BOOLEAN, closed : BOOLEAN, seenData : BOOLEAN, inData : BOOLEAN,
            inRow : BOOLEAN, inCell : BOOLEAN, value : {"", "v", "t", "f"}]

\* The reader goes from context c to context d over pieces.
Reads(c, pieces, d) ==
    /\ IsList(pieces)
    /\ \E k : /\ k[0] = c /\ k[Len(pieces)] = d
              /\ \A i \in 1 .. Len(pieces) :
                    ~Refuses(k[i - 1], pieces[i]) /\ k[i] = After(k[i - 1], pieces[i])

\* And over items of the output.
ReadsItems(c, items, d) ==
    /\ IsList(items)
    /\ \E k : /\ k[0] = c /\ k[Len(items)] = d
              /\ \A i \in 1 .. Len(items) : Reads(k[i - 1], PiecesOf(items[i]), k[i])

\* An action that does not open a dimension.
Quiet(x) == ~(IsDimension(x) /\ ~x.closing /\ ~x.self)

\* What one element of a list does to the reader.
Moves(level, c, x, d) ==
    CASE level = "piece" -> ~Refuses(c, x) /\ d = After(c, x)
      [] level = "item" -> Reads(c, PiecesOf(x), d)
      [] level = "action" -> ReadsItems(c, WrittenAs(x), d)
      [] OTHER -> Quiet(x) /\ ReadsItems(c, WrittenAs(x), d)

Path(level, c, q, d) ==
    /\ IsList(q)
    /\ \E k : /\ k[0] = c /\ k[Len(q)] = d
              /\ \A i \in 1 .. Len(q) : Moves(level, k[i - 1], q[i], k[i])

LEMMA PathsRead ==
    ASSUME NEW c, NEW q, NEW d
    PROVE  /\ Path("piece", c, q, d) <=> Reads(c, q, d)
           /\ Path("item", c, q, d) <=> ReadsItems(c, q, d)
           /\ \A x : Moves("item", c, x, d) <=> Path("piece", c, PiecesOf(x), d)
           /\ \A x : Moves("action", c, x, d) <=> Path("item", c, WrittenAs(x), d)
           /\ \A x : Moves("quiet", c, x, d) <=> Quiet(x) /\ Moves("action", c, x, d)
<1>1. ASSUME NEW e, NEW r, NEW f PROVE Path("piece", e, r, f) <=> Reads(e, r, f)
  BY DEF Path, Reads, Moves
<1>2. ASSUME NEW e, NEW r, NEW f PROVE Path("item", e, r, f) <=> ReadsItems(e, r, f)
  BY DEF Path, ReadsItems, Moves
<1> QED BY <1>1, <1>2 DEF Moves

LEMMA PathNone ==
    ASSUME NEW level, NEW c
    PROVE  Path(level, c, << >>, c)
<1> DEFINE k == [i \in {0} |-> c]
<1>1. k[0] = c /\ k[0] = c /\ \A i \in 1 .. 0 : FALSE OBVIOUS
<1>2. IsList(<< >>) /\ Len(<< >>) = 0 BY EmptyList
<1> HIDE DEF k
<1> QED BY <1>1, <1>2 DEF Path

LEMMA PathOne ==
    ASSUME NEW level, NEW c, NEW x, NEW d, Moves(level, c, x, d)
    PROVE  Path(level, c, <<x>>, d)
<1> DEFINE k == [i \in 0 .. 1 |-> IF i = 0 THEN c ELSE d]
           q == <<x>>
<1>1. k[0] = c /\ k[1] = d /\ \A i \in 1 .. 1 : i = 1 /\ i - 1 = 0 OBVIOUS
<1>2. IsList(q) /\ Len(q) = 1 /\ q[1] = x BY SingleList
<1> HIDE DEF k, q
<1>3. \A i \in 1 .. 1 : Moves(level, k[i - 1], q[i], k[i]) BY <1>1, <1>2
<1>4. Path(level, c, q, d) BY <1>1, <1>2, <1>3 DEF Path
<1> QED BY <1>4 DEF q

LEMMA PathJoined ==
    ASSUME NEW level, NEW c, NEW q, NEW d, NEW r, NEW e, Path(level, c, q, d),
           Path(level, d, r, e)
    PROVE  Path(level, c, q \o r, e)
<1>1. PICK k : /\ k[0] = c /\ k[Len(q)] = d
               /\ \A i \in 1 .. Len(q) : Moves(level, k[i - 1], q[i], k[i])
  BY DEF Path
<1>2. PICK l : /\ l[0] = d /\ l[Len(r)] = e
               /\ \A i \in 1 .. Len(r) : Moves(level, l[i - 1], r[i], l[i])
  BY DEF Path
<1>3. PICK n \in Nat, m \in Nat : n = Len(q) /\ m = Len(r) BY DEF Path, IsList
<1>4. PICK s : s = q \o r OBVIOUS
<1>5. /\ IsList(s) /\ Len(s) = n + m
      /\ \A i \in 1 .. n : s[i] = q[i]
      /\ \A i \in 1 .. m : s[n + i] = r[i]
  BY <1>3, <1>4, ListJoined DEF Path
<1> DEFINE h == [i \in 0 .. n + m |-> IF i <= n THEN k[i] ELSE l[i - n]]
<1>6. /\ \A i \in 0 .. n : h[i] = k[i]
      /\ \A i \in 0 .. m : h[n + i] = l[i]
  <2>1. \A i \in 0 .. n : h[i] = k[i] OBVIOUS
  <2>2. ASSUME NEW i \in 0 .. m PROVE h[n + i] = l[i]
    <3>1. CASE i = 0
      <4>1. h[n + i] = k[n] BY <3>1
      <4> QED BY <1>1, <1>2, <1>3, <3>1, <4>1
    <3>2. CASE i # 0
      <4>1. ~(n + i <= n) /\ (n + i) - n = i /\ n + i \in 0 .. n + m BY <3>2
      <4> QED BY <4>1
    <3> QED BY <3>1, <3>2
  <2> QED BY <2>1, <2>2
<1> HIDE DEF h
<1>7. h[0] = c /\ h[n + m] = e
  <2>1. 0 \in 0 .. n /\ m \in 0 .. m OBVIOUS
  <2> QED BY <1>1, <1>2, <1>3, <1>6, <2>1
<1>8. ASSUME NEW i \in 1 .. n + m PROVE Moves(level, h[i - 1], s[i], h[i])
  <2>1. CASE i <= n
    <3>1. i \in 1 .. n /\ i \in 0 .. n /\ i - 1 \in 0 .. n BY <2>1
    <3>2. h[i] = k[i] /\ h[i - 1] = k[i - 1] /\ s[i] = q[i] BY <1>5, <1>6, <3>1
    <3> QED BY <1>1, <1>3, <3>1, <3>2
  <2>2. CASE i > n
    <3>1. PICK j \in 1 .. m : i = n + j
      <4>1. i - n \in 1 .. m /\ i = n + (i - n) BY <2>2
      <4> QED BY <4>1
    <3>2. j \in 0 .. m /\ j - 1 \in 0 .. m /\ i - 1 = n + (j - 1) BY <3>1
    <3>3. h[i] = l[j] /\ h[i - 1] = l[j - 1] /\ s[i] = r[j] BY <1>5, <1>6, <3>1, <3>2
    <3> QED BY <1>2, <1>3, <3>3
  <2> QED BY <2>1, <2>2
<1>9. Path(level, c, s, e) BY <1>5, <1>7, <1>8 DEF Path
<1> QED BY <1>4, <1>9

LEMMA PathStays ==
    ASSUME NEW level, NEW c, NEW q, IsList(q), \A i \in 1 .. Len(q) : Moves(level, c, q[i], c)
    PROVE  Path(level, c, q, c)
<1>1. PICK n \in Nat : n = Len(q) BY DEF IsList
<1> DEFINE k == [i \in 0 .. n |-> c]
<1>2. /\ k[0] = c /\ k[n] = c
      /\ \A i \in 1 .. n : k[i - 1] = c /\ k[i] = c
  OBVIOUS
<1> HIDE DEF k
<1>3. \A i \in 1 .. n : Moves(level, k[i - 1], q[i], k[i]) BY <1>1, <1>2
<1> QED BY <1>1, <1>2, <1>3 DEF Path

\* A path over lists is one over their elements.
LEMMA PathFlattened ==
    ASSUME NEW level, NEW ss, IsList(ss), NEW k,
           \A i \in 1 .. Len(ss) : Path(level, k[i - 1], ss[i], k[i])
    PROVE  Path(level, k[0], FlattenSeq(ss), k[Len(ss)])
<1>1. PICK n \in Nat : n = Len(ss) BY DEF IsList
<1>2. PICK S : S = UNION {ToSet(ss[i]) : i \in 1 .. n} OBVIOUS
<1>3. ss \in Seq(Seq(S))
  <2>1. ASSUME NEW i \in 1 .. n PROVE ss[i] \in Seq(S)
    <3>1. PICK q : q = ss[i] /\ IsList(q) BY <1>1 DEF Path
    <3>2. \A j \in 1 .. Len(q) : q[j] \in ToSet(q) BY <3>1 DEF IsList, ToSet
    <3>3. ToSet(q) \subseteq S BY <1>2, <3>1
    <3>4. \A j \in 1 .. Len(q) : q[j] \in S BY <3>2, <3>3
    <3> QED BY <3>1, <3>4, ListsAre
  <2> QED BY <1>1, <2>1, ListsAre
<1>4. PICK g : Joining(g, ss, S) BY <1>3, JoiningExists
<1>5. g[0] = << >> /\ \A i \in 1 .. n : g[i] = g[i - 1] \o ss[i]
  BY <1>1, <1>3, <1>4, JoiningStep
<1>6. FlattenSeq(ss) = g[n] BY <1>1, <1>3, <1>4, JoiningFlattens
<1> DEFINE Good == {i \in 0 .. n : Path(level, k[0], g[i], k[i])}
<1>7. 0 \in Good BY <1>5, PathNone
<1>8. ASSUME NEW i \in 0 .. n - 1, i \in Good PROVE i + 1 \in Good
  <2>1. i + 1 \in 1 .. n /\ (i + 1) - 1 = i /\ i + 1 \in 0 .. n OBVIOUS
  <2>2. Path(level, k[i], ss[i + 1], k[i + 1]) BY <1>1, <2>1
  <2>3. g[i + 1] = g[i] \o ss[i + 1] BY <1>5, <2>1
  <2>4. Path(level, k[0], g[i], k[i]) BY <1>8
  <2>5. Path(level, k[0], g[i + 1], k[i + 1]) BY <2>2, <2>3, <2>4, PathJoined
  <2> QED BY <2>1, <2>5
<1>9. Good = 0 .. n
  <2>1. Good \in SUBSET (0 .. n) OBVIOUS
  <2> HIDE DEF Good
  <2> QED BY <1>7, <1>8, <2>1, UpToBound
<1>10. n \in Good BY <1>9
<1> QED BY <1>1, <1>6, <1>10

\* A path over two lists passes a context between them.
LEMMA PathSplit ==
    ASSUME NEW level, NEW c, NEW q, NEW r, NEW e, IsList(q), IsList(r), Path(level, c, q \o r, e)
    PROVE  \E d : Path(level, c, q, d) /\ Path(level, d, r, e)
<1>1. PICK n \in Nat, m \in Nat : n = Len(q) /\ m = Len(r) BY DEF IsList
<1>2. PICK s : s = q \o r OBVIOUS
<1>3. /\ IsList(s) /\ Len(s) = n + m
      /\ \A i \in 1 .. n : s[i] = q[i]
      /\ \A i \in 1 .. m : s[n + i] = r[i]
  BY <1>1, <1>2, ListJoined
<1>4. PICK k : /\ k[0] = c /\ k[n + m] = e
               /\ \A i \in 1 .. n + m : Moves(level, k[i - 1], s[i], k[i])
  BY <1>2, <1>3 DEF Path
<1>5. Path(level, c, q, k[n])
  <2>1. \A i \in 1 .. n : i \in 1 .. n + m OBVIOUS
  <2>2. \A i \in 1 .. n : Moves(level, k[i - 1], q[i], k[i]) BY <1>3, <1>4, <2>1
  <2> QED BY <1>1, <1>4, <2>2 DEF Path
<1>6. Path(level, k[n], r, e)
  <2> DEFINE l == [i \in 0 .. m |-> k[n + i]]
  <2>1. l[0] = k[n] /\ l[m] = e BY <1>4
  <2>2. ASSUME NEW i \in 1 .. m PROVE Moves(level, l[i - 1], r[i], l[i])
    <3>1. n + i \in 1 .. n + m /\ (n + i) - 1 = n + (i - 1) /\ i \in 0 .. m
          /\ i - 1 \in 0 .. m
      OBVIOUS
    <3>2. l[i] = k[n + i] /\ l[i - 1] = k[n + (i - 1)] BY <3>1
    <3> HIDE DEF l
    <3> QED BY <1>3, <1>4, <3>1, <3>2
  <2> HIDE DEF l
  <2> QED BY <1>1, <2>1, <2>2 DEF Path
<1> QED BY <1>5, <1>6

-----------------------------------------------------------------------------
(* Where the reader can be.                                                *)

InRowContext == [opened |-> TRUE, closed |-> FALSE, seenData |-> TRUE, inData |-> TRUE,
                 inRow |-> TRUE, inCell |-> FALSE, value |-> ""]
InDataContext == [opened |-> TRUE, closed |-> FALSE, seenData |-> TRUE, inData |-> TRUE,
                  inRow |-> FALSE, inCell |-> FALSE, value |-> ""]

\* What contains what.
Legal(c) ==
    /\ c \in Context
    /\ c.value # "" => c.inCell
    /\ c.inCell => c.inRow
    /\ c.inRow => c.inData
    /\ c.inData => c.opened /\ ~c.closed /\ c.seenData
    /\ c.seenData => c.opened

\* The worksheet is over.
Over(c) == c \in Context /\ c.opened /\ c.closed /\ ~RefusesEnd(c)

LEMMA ContextsEqual ==
    ASSUME NEW c \in Context, NEW d \in Context, c.opened = d.opened, c.closed = d.closed,
           c.seenData = d.seenData, c.inData = d.inData, c.inRow = d.inRow,
           c.inCell = d.inCell, c.value = d.value
    PROVE  c = d
<1>1. ASSUME NEW e \in Context
      PROVE  e = [opened |-> e.opened, closed |-> e.closed, seenData |-> e.seenData,
                  inData |-> e.inData, inRow |-> e.inRow, inCell |-> e.inCell,
                  value |-> e.value]
  BY DEF Context
<1> QED BY <1>1

LEMMA PlacesLegal ==
    /\ Legal(Outset) /\ Legal(InRowContext) /\ Legal(InDataContext)
    /\ InDataContext.opened /\ ~InDataContext.closed /\ InDataContext.seenData
    /\ InDataContext.inData /\ ~InDataContext.inRow /\ ~InDataContext.inCell
    /\ InDataContext.value = ""
<1>1. Outset \in Context /\ InRowContext \in Context /\ InDataContext \in Context
  BY DEF Outset, Context, InRowContext, InDataContext
<1> QED BY <1>1 DEF Legal, Outset, InRowContext, InDataContext

LEMMA LegalPlaces ==
    ASSUME NEW c, Legal(c), c.inData, ~c.inCell
    PROVE  c = IF c.inRow THEN InRowContext ELSE InDataContext
<1>1. c \in Context /\ c.opened /\ ~c.closed /\ c.seenData /\ c.value = "" BY DEF Legal
<1>3. CASE c.inRow BY <1>1, <1>3 DEF Context, InRowContext
<1>4. CASE ~c.inRow BY <1>1, <1>4 DEF Context, InDataContext
<1> QED BY <1>3, <1>4

\* What an opening tag that is accepted was opened in.
LEMMA OpeningPlaces ==
    ASSUME NEW c \in Context, NEW name, ~RefusesOpening(c, name)
    PROVE  /\ name = "worksheet" => ~c.opened
           /\ name = "sheetData" => ~c.seenData /\ ~c.inData
           /\ name = "row" => c.inData /\ ~c.inRow /\ ~c.inCell
           /\ name = "c" => c.inRow /\ ~c.inCell
<1> USE DEF RefusesOpening, IsValueName, Context
<1>1. name = "worksheet" => ~c.opened OBVIOUS
<1>2. name = "sheetData" => ~c.seenData /\ ~c.inData OBVIOUS
<1>3. name = "row" => c.inData /\ ~c.inRow /\ ~c.inCell OBVIOUS
<1>4. name = "c" => c.inRow /\ ~c.inCell OBVIOUS
<1> QED BY <1>1, <1>2, <1>3, <1>4

\* What accepted tags do.
LEMMA TagEffect ==
    ASSUME NEW c, Legal(c), NEW x, IsTag(x), ~Refuses(c, x)
    PROVE  LET n == After(c, x)
               out == x.form # "self"
           IN  /\ x.name = "worksheet" /\ x.form # "close" =>
                     ~c.opened /\ ~c.closed /\ n = [c EXCEPT !.opened = TRUE, !.closed = ~out]
               /\ x.name = "worksheet" /\ x.form = "close" =>
                     /\ ~c.inData /\ ~c.inRow /\ ~c.inCell /\ ~c.closed
                     /\ n = [c EXCEPT !.closed = TRUE]
               /\ x.name # "worksheet" => c.opened /\ ~c.closed
               /\ x.name = "sheetData" /\ x.form # "close" =>
                     ~c.seenData /\ ~c.inData /\ n = [c EXCEPT !.seenData = TRUE, !.inData = out]
               /\ x.name = "sheetData" /\ x.form = "close" =>
                     c.inData /\ ~c.inRow /\ ~c.inCell /\ n = [c EXCEPT !.inData = FALSE]
               /\ x.name = "row" /\ x.form # "close" =>
                     c.inData /\ ~c.inRow /\ ~c.inCell /\ n = [c EXCEPT !.inRow = out]
               /\ x.name = "row" /\ x.form = "close" =>
                     c.inRow /\ ~c.inCell /\ n = [c EXCEPT !.inRow = FALSE]
               /\ x.name = "c" /\ x.form # "close" =>
                     c.inRow /\ ~c.inCell /\ n = [c EXCEPT !.inCell = out]
               /\ x.name = "c" /\ x.form = "close" =>
                     c.inCell /\ c.value = "" /\ n = [c EXCEPT !.inCell = FALSE]
               /\ x.name \notin Boundary /\ ~(IsValueName(x.name) /\ c.inCell) => n = c
               /\ IsValueName(x.name) /\ c.inCell =>
                     \/ n = c
                     \/ n = [c EXCEPT !.value = x.name]
                     \/ n = [c EXCEPT !.value = ""]
<1> DEFINE n == After(c, x)
           out == x.form # "self"
<1>1. c \in Context BY DEF Legal
<1>2. CASE x.form = "close"
  <2>1. n = AfterClosing(c, x.name) /\ ~RefusesClosing(c, x.name) BY <1>2 DEF After, Refuses
  <2>2. IF x.name = "worksheet" THEN ~c.closed ELSE ~Outside(c) BY <1>2 DEF Refuses
  <2> HIDE DEF n
  <2>3. CASE x.name = "worksheet"
    BY <1>2, <2>1, <2>2, <2>3 DEF AfterClosing, RefusesClosing, IsValueName, Boundary, n
  <2>4. CASE x.name = "sheetData"
    BY <1>2, <2>1, <2>2, <2>4 DEF AfterClosing, RefusesClosing, IsValueName, Boundary, n, Outside
  <2>5. CASE x.name = "row"
    BY <1>2, <2>1, <2>2, <2>5 DEF AfterClosing, RefusesClosing, IsValueName, Boundary, n, Outside
  <2>6. CASE x.name = "c"
    BY <1>2, <2>1, <2>2, <2>6 DEF AfterClosing, RefusesClosing, IsValueName, Boundary, n, Outside
  <2>7. CASE x.name \notin Boundary
    BY <1>2, <2>1, <2>2, <2>7 DEF AfterClosing, IsValueName, Boundary, n, Outside
  <2> QED BY <2>3, <2>4, <2>5, <2>6, <2>7 DEF Boundary
<1>3. CASE x.form \in {"open", "self"}
  <2>0. PICK self \in BOOLEAN, outer \in BOOLEAN : self = (x.form = "self") /\ outer = ~self
    OBVIOUS
  <2>1. n = AfterOpening(c, x.name, self) /\ ~RefusesOpening(c, x.name)
    BY <1>3, <2>0 DEF After, Refuses
  <2>2. IF x.name = "worksheet" THEN ~c.closed ELSE ~Outside(c) BY <1>3 DEF Refuses
  <2>3. outer = out /\ x.form # "close" BY <1>3, <2>0
  <2>4. n = CASE x.name = "worksheet" -> [c EXCEPT !.opened = TRUE, !.closed = self]
              [] x.name = "sheetData" -> [c EXCEPT !.seenData = TRUE, !.inData = outer]
              [] x.name = "row" -> [c EXCEPT !.inRow = outer]
              [] x.name = "c" -> [c EXCEPT !.inCell = outer]
              [] IsValueName(x.name) /\ c.inCell /\ outer -> [c EXCEPT !.value = x.name]
              [] OTHER -> c
    BY <2>0, <2>1 DEF AfterOpening
  <2> HIDE DEF n, out
  <2>5. CASE x.name = "worksheet"
    <3>1. ~c.opened BY <1>1, <2>1, <2>5, OpeningPlaces
    <3>2. n = [c EXCEPT !.opened = TRUE, !.closed = self] BY <2>4, <2>5 DEF IsValueName
    <3>3. self = ~out
      <4>1. CASE x.form = "self" BY <2>0, <4>1 DEF out
      <4>2. CASE x.form # "self" BY <2>0, <4>2 DEF out
      <4> QED BY <4>1, <4>2
    <3>4. n = [c EXCEPT !.opened = TRUE, !.closed = ~out] BY <3>2, <3>3
    <3> QED BY <2>2, <2>3, <2>5, <3>1, <3>4 DEF IsValueName, Boundary, n, out
  <2>6. CASE x.name = "sheetData"
    <3>1. ~c.seenData /\ ~c.inData BY <1>1, <2>1, <2>6, OpeningPlaces
    <3>2. n = [c EXCEPT !.seenData = TRUE, !.inData = out] BY <2>3, <2>4, <2>6 DEF IsValueName
    <3> QED BY <2>2, <2>3, <2>6, <3>1, <3>2 DEF IsValueName, Boundary, n, out, Outside
  <2>7. CASE x.name = "row"
    <3>1. c.inData /\ ~c.inRow /\ ~c.inCell BY <1>1, <2>1, <2>7, OpeningPlaces
    <3>2. n = [c EXCEPT !.inRow = out] BY <2>3, <2>4, <2>7 DEF IsValueName
    <3> QED BY <2>2, <2>3, <2>7, <3>1, <3>2 DEF IsValueName, Boundary, n, out, Outside
  <2>8. CASE x.name = "c"
    <3>1. c.inRow /\ ~c.inCell BY <1>1, <2>1, <2>8, OpeningPlaces
    <3>2. n = [c EXCEPT !.inCell = out] BY <2>3, <2>4, <2>8 DEF IsValueName
    <3> QED BY <2>2, <2>3, <2>8, <3>1, <3>2 DEF IsValueName, Boundary, n, out, Outside
  <2>9. CASE x.name \notin Boundary
    <3>1. n = IF IsValueName(x.name) /\ c.inCell /\ outer THEN [c EXCEPT !.value = x.name] ELSE c
      BY <2>4, <2>9 DEF Boundary
    <3> QED BY <2>2, <2>9, <3>1 DEF Boundary, n, Outside
  <2> QED BY <2>5, <2>6, <2>7, <2>8, <2>9 DEF Boundary
<1> QED BY <1>2, <1>3 DEF IsTag

LEMMA OtherEffect ==
    ASSUME NEW c, NEW x, ~IsTag(x)
    PROVE  After(c, x) = c
BY DEF After, IsTag

LEMMA LegalStep ==
    ASSUME NEW c, Legal(c), NEW x, ~Refuses(c, x)
    PROVE  Legal(After(c, x))
<1> DEFINE n == After(c, x)
<1>1. CASE ~IsTag(x) BY <1>1, OtherEffect
<1>2. CASE IsTag(x)
  <2> DEFINE out == x.form # "self"
  <2>0. c \in Context /\ out \in BOOLEAN /\ (~out) \in BOOLEAN BY DEF Legal
  <2> HIDE DEF n, out
  <2>1. CASE x.name = "worksheet" /\ x.form # "close"
    <3>1. ~c.opened /\ ~c.closed /\ n = [c EXCEPT !.opened = TRUE, !.closed = ~out]
      BY <1>2, <2>1, TagEffect DEF n, out
    <3> QED BY <2>0, <3>1 DEF Legal, Context, n
  <2>2. CASE x.name = "worksheet" /\ x.form = "close"
    <3>1. ~c.inData /\ ~c.inRow /\ ~c.inCell /\ n = [c EXCEPT !.closed = TRUE]
      BY <1>2, <2>2, TagEffect DEF n
    <3> QED BY <2>0, <3>1 DEF Legal, Context, n
  <2>3. CASE x.name = "sheetData" /\ x.form # "close"
    <3>1. /\ ~c.seenData /\ ~c.inData /\ n = [c EXCEPT !.seenData = TRUE, !.inData = out]
          /\ c.opened /\ ~c.closed
      BY <1>2, <2>3, TagEffect DEF n, out
    <3> QED BY <2>0, <3>1 DEF Legal, Context, n
  <2>4. CASE x.name = "sheetData" /\ x.form = "close"
    <3>1. c.inData /\ ~c.inRow /\ ~c.inCell /\ n = [c EXCEPT !.inData = FALSE]
      BY <1>2, <2>4, TagEffect DEF n
    <3> QED BY <2>0, <3>1 DEF Legal, Context, n
  <2>5. CASE x.name = "row" /\ x.form # "close"
    <3>1. c.inData /\ ~c.inRow /\ ~c.inCell /\ n = [c EXCEPT !.inRow = out]
      BY <1>2, <2>5, TagEffect DEF n, out
    <3> QED BY <2>0, <3>1 DEF Legal, Context, n
  <2>6. CASE x.name = "row" /\ x.form = "close"
    <3>1. c.inRow /\ ~c.inCell /\ n = [c EXCEPT !.inRow = FALSE]
      BY <1>2, <2>6, TagEffect DEF n
    <3> QED BY <2>0, <3>1 DEF Legal, Context, n
  <2>7. CASE x.name = "c" /\ x.form # "close"
    <3>1. c.inRow /\ ~c.inCell /\ n = [c EXCEPT !.inCell = out]
      BY <1>2, <2>7, TagEffect DEF n, out
    <3> QED BY <2>0, <3>1 DEF Legal, Context, n
  <2>8. CASE x.name = "c" /\ x.form = "close"
    <3>1. c.inCell /\ c.value = "" /\ n = [c EXCEPT !.inCell = FALSE]
      BY <1>2, <2>8, TagEffect DEF n
    <3> QED BY <2>0, <3>1 DEF Legal, Context, n
  <2>9. CASE x.name \notin Boundary
    <3>1. n = c \/ (c.inCell /\ IsValueName(x.name) /\ n = [c EXCEPT !.value = x.name])
          \/ (c.inCell /\ n = [c EXCEPT !.value = ""])
      BY <1>2, <2>9, TagEffect DEF n
    <3> QED BY <2>0, <3>1 DEF Legal, Context, n, IsValueName
  <2> QED BY <2>1, <2>2, <2>3, <2>4, <2>5, <2>6, <2>7, <2>8, <2>9 DEF Boundary
<1> QED BY <1>1, <1>2

\* The reader always arrives somewhere.
LEMMA AfterType ==
    ASSUME NEW c \in Context, NEW x
    PROVE  After(c, x) \in Context
<1>1. ASSUME NEW name PROVE AfterClosing(c, name) \in Context
  BY DEF AfterClosing, Context
<1>2. ASSUME NEW name, NEW self \in BOOLEAN, NEW outer \in BOOLEAN, outer = ~self
      PROVE  AfterOpening(c, name, self) \in Context
  <2>1. AfterOpening(c, name, self)
            \in {[c EXCEPT !.opened = TRUE, !.closed = self],
                 [c EXCEPT !.seenData = TRUE, !.inData = outer],
                 [c EXCEPT !.inRow = outer], [c EXCEPT !.inCell = outer], c}
        \/ (IsValueName(name) /\ AfterOpening(c, name, self) = [c EXCEPT !.value = name])
    BY <1>2 DEF AfterOpening
  <2> QED BY <2>1 DEF Context, IsValueName
<1>3. PICK self \in BOOLEAN, outer \in BOOLEAN : self = (x.form = "self") /\ outer = ~self
  OBVIOUS
<1>4. After(c, x) \in {c, AfterClosing(c, x.name), AfterOpening(c, x.name, self)}
  BY <1>3 DEF After
<1> QED BY <1>1, <1>2, <1>3, <1>4

-----------------------------------------------------------------------------
(* Acceptance is a path.                                                   *)

LEMMA ContextsOf ==
    ASSUME NEW q, IsList(q)
    PROVE  \E g \in [0 .. Len(q) -> Context] :
              /\ g[0] = Outset
              /\ \A i \in 1 .. Len(q) : g[i] = After(g[i - 1], q[i])
              /\ Accepted(q) <=> /\ \A i \in 1 .. Len(q) : ~Refuses(g[i - 1], q[i])
                                 /\ ~RefusesEnd(g[Len(q)])
<1>1. PICK n \in Nat : n = Len(q) /\ DOMAIN q = 1 .. n BY DEF IsList
<1> DEFINE step == [i \in 1 .. n |-> [c \in Context |-> After(c, q[i])]]
           IsRun(f) == f = [i \in 0 .. Len(q) |->
                              IF i = 0 THEN Outset
                              ELSE LET before == f[i - 1] IN After(before, q[i])]
<1>2. step \in [1 .. n -> [Context -> Context]] BY AfterType
<1>3. Outset \in Context BY PlacesLegal DEF Legal
<1>4. PICK h : Steps(h, n, Context, Outset, step)
  <2> HIDE DEF step
  <2> QED BY <1>2, <1>3, RecursionExists
<1>5. /\ h \in [0 .. n -> Context] /\ h[0] = Outset
      /\ \A i \in 1 .. n : h[i] = After(h[i - 1], q[i])
  <2>1. ASSUME NEW i \in 1 .. n PROVE h[i] = After(h[i - 1], q[i])
    <3>1. h[i] = step[i][h[i - 1]] /\ h[i - 1] \in Context BY <1>4 DEF Steps
    <3> QED BY <3>1
  <2> QED BY <1>4, <2>1 DEF Steps
<1>6. IsRun(h)
  <2>1. ASSUME NEW i \in 0 .. n
        PROVE  h[i] = IF i = 0 THEN Outset ELSE LET before == h[i - 1] IN After(before, q[i])
    BY <1>5
  <2> QED BY <1>1, <1>5, <2>1
<1> DEFINE ctx == CHOOSE f : IsRun(f)
<1>7. IsRun(ctx) BY <1>6
<1>8. Accepted(q) <=> /\ \A i \in 1 .. n : ~Refuses(ctx[i - 1], q[i])
                      /\ ~RefusesEnd(ctx[n])
  BY <1>1 DEF Accepted
<1> HIDE DEF ctx
<1>9. PICK g : g = ctx OBVIOUS
<1>10. g = [i \in 0 .. n |-> IF i = 0 THEN Outset
                             ELSE LET before == g[i - 1] IN After(before, q[i])]
  BY <1>1, <1>7, <1>9
<1>11. g[0] = Outset /\ \A i \in 1 .. n : g[i] = After(g[i - 1], q[i]) BY <1>10
<1> DEFINE Good == {i \in 0 .. n : g[i] \in Context}
<1>12. 0 \in Good BY <1>3, <1>11
<1>13. ASSUME NEW i \in 0 .. n - 1, i \in Good PROVE i + 1 \in Good
  <2>1. i + 1 \in 1 .. n /\ (i + 1) - 1 = i /\ i + 1 \in 0 .. n OBVIOUS
  <2>2. g[i + 1] = After(g[i], q[i + 1]) BY <1>11, <2>1
  <2> QED BY <1>13, <2>1, <2>2, AfterType
<1>14. Good = 0 .. n
  <2>1. Good \in SUBSET (0 .. n) OBVIOUS
  <2> HIDE DEF Good
  <2> QED BY <1>12, <1>13, <2>1, UpToBound
<1>15. g \in [0 .. n -> Context]
  <2>1. \A i \in 0 .. n : g[i] \in Context BY <1>14
  <2> QED BY <1>10, <2>1
<1> QED BY <1>1, <1>8, <1>9, <1>11, <1>15

LEMMA AcceptedIsPath ==
    ASSUME NEW q, IsList(q), Accepted(q)
    PROVE  \E d : Path("piece", Outset, q, d) /\ ~RefusesEnd(d)
<1>1. PICK g \in [0 .. Len(q) -> Context] :
              /\ g[0] = Outset
              /\ \A i \in 1 .. Len(q) : g[i] = After(g[i - 1], q[i])
              /\ \A i \in 1 .. Len(q) : ~Refuses(g[i - 1], q[i])
              /\ ~RefusesEnd(g[Len(q)])
  BY ContextsOf
<1>2. \A i \in 1 .. Len(q) : Moves("piece", g[i - 1], q[i], g[i]) BY <1>1 DEF Moves
<1>3. Path("piece", Outset, q, g[Len(q)]) BY <1>1, <1>2 DEF Path
<1> QED BY <1>1, <1>3

LEMMA PathIsAccepted ==
    ASSUME NEW q, NEW d, Path("piece", Outset, q, d), ~RefusesEnd(d)
    PROVE  Accepted(q)
<1>1. IsList(q) BY DEF Path
<1>2. PICK n \in Nat : n = Len(q) BY <1>1 DEF IsList
<1>3. PICK g \in [0 .. n -> Context] :
              /\ g[0] = Outset
              /\ \A i \in 1 .. n : g[i] = After(g[i - 1], q[i])
              /\ Accepted(q) <=> /\ \A i \in 1 .. n : ~Refuses(g[i - 1], q[i])
                                 /\ ~RefusesEnd(g[n])
  BY <1>1, <1>2, ContextsOf
<1>4. PICK k : /\ k[0] = Outset /\ k[n] = d
               /\ \A i \in 1 .. n : ~Refuses(k[i - 1], q[i]) /\ k[i] = After(k[i - 1], q[i])
  BY <1>2 DEF Path, Moves
<1> DEFINE Good == {i \in 0 .. n : g[i] = k[i]}
<1>5. 0 \in Good BY <1>3, <1>4
<1>6. ASSUME NEW i \in 0 .. n - 1, i \in Good PROVE i + 1 \in Good
  <2>1. i + 1 \in 1 .. n /\ (i + 1) - 1 = i /\ i + 1 \in 0 .. n OBVIOUS
  <2>2. g[i + 1] = After(g[i], q[i + 1]) /\ k[i + 1] = After(k[i], q[i + 1])
    BY <1>3, <1>4, <2>1
  <2> QED BY <1>6, <2>1, <2>2
<1>7. Good = 0 .. n
  <2>1. Good \in SUBSET (0 .. n) OBVIOUS
  <2> HIDE DEF Good
  <2> QED BY <1>5, <1>6, <2>1, UpToBound
<1>8. \A i \in 0 .. n : g[i] = k[i] BY <1>7
<1>9. g[n] = d BY <1>4, <1>8
<1>10. ASSUME NEW i \in 1 .. n PROVE ~Refuses(g[i - 1], q[i])
  <2>1. i - 1 \in 0 .. n OBVIOUS
  <2> QED BY <1>4, <1>8, <2>1
<1> QED BY <1>3, <1>9, <1>10

\* A path over pieces keeps the reader where it can be.
LEMMA PathLegal ==
    ASSUME NEW c, Legal(c), NEW q, NEW d, Path("piece", c, q, d)
    PROVE  Legal(d)
<1>1. PICK n \in Nat : n = Len(q) BY DEF Path, IsList
<1>2. PICK k : /\ k[0] = c /\ k[n] = d
               /\ \A i \in 1 .. n : ~Refuses(k[i - 1], q[i]) /\ k[i] = After(k[i - 1], q[i])
  BY <1>1 DEF Path, Moves
<1> DEFINE Good == {i \in 0 .. n : Legal(k[i])}
<1>3. 0 \in Good BY <1>2
<1>4. ASSUME NEW i \in 0 .. n - 1, i \in Good PROVE i + 1 \in Good
  <2>1. i + 1 \in 1 .. n /\ (i + 1) - 1 = i /\ i + 1 \in 0 .. n OBVIOUS
  <2>2. ~Refuses(k[i], q[i + 1]) /\ k[i + 1] = After(k[i], q[i + 1]) BY <1>2, <2>1
  <2> QED BY <1>4, <2>1, <2>2, LegalStep
<1>5. Good = 0 .. n
  <2>1. Good \in SUBSET (0 .. n) OBVIOUS
  <2> HIDE DEF Good
  <2> QED BY <1>3, <1>4, <2>1, UpToBound
<1>6. n \in Good BY <1>5
<1> QED BY <1>2, <1>6

LEMMA PathEnd ==
    ASSUME NEW c, NEW x, NEW d, Path("piece", c, <<x>>, d)
    PROVE  ~Refuses(c, x) /\ d = After(c, x)
<1>1. PICK q : q = <<x>> /\ Len(q) = 1 /\ q[1] = x BY SingleList
<1>2. PICK k : /\ k[0] = c /\ k[1] = d
               /\ \A i \in 1 .. 1 : ~Refuses(k[i - 1], q[i]) /\ k[i] = After(k[i - 1], q[i])
  BY <1>1 DEF Path, Moves
<1>3. 1 \in 1 .. 1 /\ 1 - 1 = 0 OBVIOUS
<1> QED BY <1>1, <1>2, <1>3

LEMMA PathNowhere ==
    ASSUME NEW level, NEW c, NEW d, Path(level, c, << >>, d)
    PROVE  d = c
<1>1. Len(<< >>) = 0 BY EmptyList
<1> QED BY <1>1 DEF Path

LEMMA ListsEqual ==
    ASSUME NEW q, NEW r, IsList(q), IsList(r), Len(q) = Len(r),
           \A i \in 1 .. Len(q) : q[i] = r[i]
    PROVE  q = r
<1>1. PICK n \in Nat : n = Len(q) /\ n = Len(r) BY DEF IsList
<1>2. q = [i \in 1 .. n |-> q[i]] /\ r = [i \in 1 .. n |-> r[i]] BY <1>1 DEF IsList
<1>3. [i \in 1 .. n |-> q[i]] = [i \in 1 .. n |-> r[i]] BY <1>1
<1> QED BY <1>2, <1>3

LEMMA PairJoined ==
    ASSUME NEW x, NEW y
    PROVE  <<x>> \o <<y>> = <<x, y>>
<1>1. PICK a, b, h : a = <<x>> /\ b = <<y>> /\ h = <<x, y>> OBVIOUS
<1>2. IsList(a) /\ Len(a) = 1 /\ a[1] = x /\ IsList(b) /\ Len(b) = 1 /\ b[1] = y
  BY <1>1, SingleList
<1>3. IsList(h) /\ Len(h) = 2 /\ h[1] = x /\ h[2] = y
  <2>1. h \in Seq({x, y}) BY <1>1
  <2> QED BY <1>1, <2>1, SequencesAreLists
<1>4. PICK g : g = a \o b OBVIOUS
<1>5. /\ IsList(g) /\ Len(g) = Len(a) + Len(b)
      /\ \A i \in 1 .. Len(a) : g[i] = a[i]
      /\ \A i \in 1 .. Len(b) : g[Len(a) + i] = b[i]
  <2>1. IsList(a) /\ IsList(b) BY <1>2
  <2> HIDE <1>1, <1>2, <1>3
  <2> QED BY <1>4, <2>1, ListJoined
<1>6. Len(g) = 2 /\ g[1] = x /\ g[2] = y BY <1>2, <1>5
<1>7. \A i \in 1 .. 2 : g[i] = h[i]
  <2>1. \A i \in 1 .. 2 : i = 1 \/ i = 2 OBVIOUS
  <2> QED BY <1>3, <1>6, <2>1
<1>8. g = h BY <1>3, <1>5, <1>6, <1>7, ListsEqual
<1> QED BY <1>1, <1>4, <1>8

Single(q, x) == IsList(q) /\ Len(q) = 1 /\ q[1] = x
Triple(q, x, y, z) == IsList(q) /\ Len(q) = 3 /\ q[1] = x /\ q[2] = y /\ q[3] = z

LEMMA TripleOf ==
    ASSUME NEW x, NEW y, NEW z, NEW a, NEW b, NEW e, NEW h, Single(a, x), Single(b, y),
           Single(e, z), Triple(h, x, y, z)
    PROVE  h = (a \o b) \o e
<1>1. PICK f : f = a \o b OBVIOUS
<1>2. PICK g : g = f \o e OBVIOUS
<1>3. IsList(a) /\ IsList(b) /\ IsList(e) /\ IsList(h) BY DEF Single, Triple
<1>4. /\ IsList(f) /\ Len(f) = Len(a) + Len(b)
      /\ \A i \in 1 .. Len(a) : f[i] = a[i]
      /\ \A i \in 1 .. Len(b) : f[Len(a) + i] = b[i]
  BY <1>1, <1>3, ListJoined
<1>5. IsList(f) BY <1>4
<1>6. /\ IsList(g) /\ Len(g) = Len(f) + Len(e)
      /\ \A i \in 1 .. Len(f) : g[i] = f[i]
      /\ \A i \in 1 .. Len(e) : g[Len(f) + i] = e[i]
  BY <1>2, <1>3, <1>5, ListJoined
<1>7. Len(f) = 2 /\ f[1] = x /\ f[2] = y BY <1>4 DEF Single
<1>8. Len(g) = 3 /\ g[1] = x /\ g[2] = y /\ g[3] = z BY <1>6, <1>7 DEF Single
<1>9. \A i \in 1 .. 3 : h[i] = g[i]
  <2>1. \A i \in 1 .. 3 : i = 1 \/ i = 2 \/ i = 3 OBVIOUS
  <2> QED BY <1>8, <2>1 DEF Triple
<1>10. h = g BY <1>6, <1>8, <1>9, ListsEqual DEF Triple
<1> QED BY <1>1, <1>2, <1>10

LEMMA TripleJoined ==
    ASSUME NEW x, NEW y, NEW z, NEW a, NEW b, NEW e, NEW h,
           a = <<x>>, b = <<y>>, e = <<z>>, h = <<x, y, z>>
    PROVE  h = (a \o b) \o e
<1>1. Single(a, x) /\ Single(b, y) /\ Single(e, z) BY SingleList DEF Single
<1>2. Triple(h, x, y, z)
  <2>1. h \in Seq({x, y, z}) OBVIOUS
  <2> QED BY <2>1, SequencesAreLists DEF Triple
<1> QED BY <1>1, <1>2, TripleOf, Zenon

\* A tag among those around a payload.
Around(form, name) == Piece(form, name, NoRef, 1)

Framed(payload, w, t, r, u, v, x) ==
    /\ w = <<Around("open", "worksheet")>> /\ t = <<Around("open", "sheetData")>>
    /\ r = <<Around("open", "row")>> /\ u = <<Around("close", "row")>>
    /\ v = <<Around("close", "sheetData")>> /\ x = <<Around("close", "worksheet")>>
    /\ InRow(payload) = (((w \o t) \o r) \o payload) \o ((u \o v) \o x)

LEMMA RowAround ==
    ASSUME NEW payload
    PROVE  \E w, t, r, u, v, x : Framed(payload, w, t, r, u, v, x)
<1>0. PICK w, t, r, u, v, x :
              /\ w = <<Around("open", "worksheet")>> /\ t = <<Around("open", "sheetData")>>
              /\ r = <<Around("open", "row")>> /\ u = <<Around("close", "row")>>
              /\ v = <<Around("close", "sheetData")>> /\ x = <<Around("close", "worksheet")>>
  OBVIOUS
<1> DEFINE element(form, name) == Piece(form, name, NoRef, 1)
           within(names, form) == [i \in DOMAIN names |-> element(form, names[i])]
           head == within(<<"worksheet", "sheetData", "row">>, "open")
           tail == within(<<"row", "sheetData", "worksheet">>, "close")
<1>1. InRow(payload) = head \o payload \o tail BY DEF InRow
<1>2. head = <<Around("open", "worksheet"), Around("open", "sheetData"), Around("open", "row")>>
  BY DEF Around
<1>3. tail = <<Around("close", "row"), Around("close", "sheetData"),
               Around("close", "worksheet")>>
  BY DEF Around
<1> HIDE DEF head, tail
<1>4. head = (w \o t) \o r BY <1>0, <1>2, TripleJoined
<1>5. tail = (u \o v) \o x BY <1>0, <1>3, TripleJoined
<1>6. InRow(payload) = (((w \o t) \o r) \o payload) \o ((u \o v) \o x) BY <1>1, <1>4, <1>5
<1>7. Framed(payload, w, t, r, u, v, x) BY <1>0, <1>6 DEF Framed
<1> QED BY <1>7

\* A payload that is accepted within a row leads the reader back into it.
LEMMA PayloadPath ==
    ASSUME NEW payload, IsList(payload), Accepted(InRow(payload))
    PROVE  Path("piece", InRowContext, payload, InRowContext)
<1>0. PICK w, s, r, u, v, x : Framed(payload, w, s, r, u, v, x) BY RowAround
<1>1. /\ w = <<Around("open", "worksheet")>> /\ s = <<Around("open", "sheetData")>>
      /\ r = <<Around("open", "row")>> /\ u = <<Around("close", "row")>>
      /\ v = <<Around("close", "sheetData")>> /\ x = <<Around("close", "worksheet")>>
      /\ InRow(payload) = (((w \o s) \o r) \o payload) \o ((u \o v) \o x)
  BY <1>0 DEF Framed
<1>2. IsList(w) /\ IsList(s) /\ IsList(r) /\ IsList(u) /\ IsList(v) /\ IsList(x)
  BY <1>1, SingleList
<1>3. PICK a, b, e, f, g : /\ a = w \o s /\ b = a \o r /\ e = b \o payload
                           /\ f = u \o v /\ g = f \o x
  OBVIOUS
<1>4. IsList(a) /\ IsList(f) BY <1>2, <1>3, ListJoined
<1>5. IsList(b) /\ IsList(g) BY <1>2, <1>3, <1>4, ListJoined
<1>6. IsList(e) BY <1>3, <1>5, ListJoined
<1>7. InRow(payload) = e \o g BY <1>1, <1>3
<1>8. PICK d : Path("piece", Outset, e \o g, d)
  <2>1. IsList(e \o g) BY <1>5, <1>6, ListJoined
  <2> QED BY <1>7, <2>1, AcceptedIsPath
<1>9. PICK k1 : Path("piece", Outset, e, k1) /\ Path("piece", k1, g, d)
  BY <1>5, <1>6, <1>8, PathSplit
<1>10. PICK k2 : Path("piece", Outset, b, k2) /\ Path("piece", k2, payload, k1)
  BY <1>3, <1>5, <1>9, PathSplit
<1>11. PICK k3 : Path("piece", Outset, a, k3) /\ Path("piece", k3, r, k2)
  BY <1>2, <1>3, <1>4, <1>10, PathSplit
<1>12. PICK k4 : Path("piece", Outset, w, k4) /\ Path("piece", k4, s, k3)
  BY <1>2, <1>3, <1>11, PathSplit
<1>13. PICK k5 : Path("piece", k1, f, k5)
  BY <1>2, <1>3, <1>4, <1>9, PathSplit
<1>14. PICK k6 : Path("piece", k1, u, k6)
  BY <1>2, <1>3, <1>13, PathSplit
<1>15. k2 = InRowContext
  <2>1. k4 = After(Outset, Around("open", "worksheet")) BY <1>1, <1>12, PathEnd
  <2>2. k3 = After(k4, Around("open", "sheetData")) BY <1>1, <1>12, PathEnd
  <2>3. k2 = After(k3, Around("open", "row")) BY <1>1, <1>11, PathEnd
  <2>4. k4 = [Outset EXCEPT !.opened = TRUE, !.closed = FALSE]
    BY <2>1 DEF Around, Piece, After, AfterOpening, IsValueName
  <2>5. k3 = [k4 EXCEPT !.seenData = TRUE, !.inData = TRUE]
    BY <2>2 DEF Around, Piece, After, AfterOpening, IsValueName
  <2>6. k2 = [k3 EXCEPT !.inRow = TRUE]
    BY <2>3 DEF Around, Piece, After, AfterOpening, IsValueName
  <2> QED BY <2>4, <2>5, <2>6 DEF Outset, InRowContext
<1>16. Legal(k1) BY <1>9, PathLegal, PlacesLegal
<1>17. k1 = InRowContext
  <2>1. ~Refuses(k1, Around("close", "row")) BY <1>1, <1>14, PathEnd
  <2>2. k1.inRow /\ ~k1.inCell
    BY <2>1 DEF Around, Piece, Refuses, RefusesClosing, IsValueName
  <2> QED BY <1>16, <2>2, LegalPlaces DEF Legal
<1> QED BY <1>10, <1>15, <1>17

-----------------------------------------------------------------------------
(* What the transformer's actions lead the reader through.                 *)

\* Every target's payload is accepted within a row.
PayloadsFit == \A t \in ToSet(request.targets) : Accepted(InRow(t.payload))

LEMMA PiecePath ==
    ASSUME NEW c, NEW x, NEW y, PiecesOf(x) = <<y>>, ~Refuses(c, y)
    PROVE  Path("item", c, <<x>>, After(c, y))
<1>1. Moves("piece", c, y, After(c, y)) BY DEF Moves
<1>2. Path("piece", c, <<y>>, After(c, y)) BY <1>1, PathOne
<1>3. Moves("item", c, x, After(c, y)) BY <1>2, PathsRead
<1> QED BY <1>3, PathOne

LEMMA ItemPieces ==
    ASSUME NEW x
    PROVE  /\ x.item = "copy" => PiecesOf(x) = <<source[x.at]>>
           /\ x.item = "opened" => PiecesOf(x) = <<[source[x.at] EXCEPT !.form = "open"]>>
           /\ x.item = "closed" => PiecesOf(x) = <<[source[x.at] EXCEPT !.form = "close"]>>
           /\ x.item = "new" => PiecesOf(x) = <<Piece(IF x.closing THEN "close" ELSE "open",
                                                      x.name, x.ref, 1)>>
           /\ x.item = "dimension" => PiecesOf(x) = <<Piece("self", x.name, x.ref, 1)>>
           /\ x.item \in {"cell", "insert"} =>
                 PiecesOf(x) = PayloadOf(CHOOSE r \in wanted : Spot(r) = Spot(x.ref))
<1>1. x.item \notin {"cell", "insert"} => PiecesOf(x) = <<PieceOf(x)>> BY DEF PiecesOf
<1>2. /\ x.item = "copy" => PieceOf(x) = source[x.at]
      /\ x.item = "opened" => PieceOf(x) = [source[x.at] EXCEPT !.form = "open"]
      /\ x.item = "closed" => PieceOf(x) = [source[x.at] EXCEPT !.form = "close"]
      /\ x.item = "new" => PieceOf(x) = Piece(IF x.closing THEN "close" ELSE "open",
                                              x.name, x.ref, 1)
      /\ x.item = "dimension" => PieceOf(x) = Piece("self", x.name, x.ref, 1)
  BY DEF PieceOf
<1> QED BY <1>1, <1>2 DEF PiecesOf

\* A payload leads from the row back into it.
LEMMA PayloadItem ==
    ASSUME request \in Requests, PayloadsFit, NEW x, x.item \in {"cell", "insert"}, x.ref \in wanted
    PROVE  Path("item", InRowContext, <<x>>, InRowContext)
<1> DEFINE r == CHOOSE r \in wanted : Spot(r) = Spot(x.ref)
           t == CHOOSE t \in ToSet(request.targets) : t.ref = r
<1>1. r \in wanted OBVIOUS
<1> HIDE DEF r
<1>2. PICK targets, S : targets = request.targets /\ S = [ref : Refs, payload : Markup]
  OBVIOUS
<1>3. targets \in Seq(S) BY <1>2, RequestsAssumption
<1>4. /\ DOMAIN targets = 1 .. Len(targets)
      /\ \A i \in 1 .. Len(targets) : targets[i] \in S
      /\ ToSet(targets) = {targets[i] : i \in DOMAIN targets}
  BY <1>3 DEF ToSet
<1>5. \E i \in DOMAIN targets : targets[i].ref = r
  BY <1>1, <1>2 DEF wanted, Wanted
<1>6. t \in ToSet(targets) BY <1>2, <1>4, <1>5
<1> HIDE DEF t
<1>7. t \in S BY <1>4, <1>6
<1>8. t.payload \in Markup BY <1>2, <1>7
<1>9. PICK P : P = [form : Forms, name : STRING, ref : Refs, bytes : Nat] OBVIOUS
<1>10. t.payload \in Seq(P) BY <1>8, <1>9 DEF Markup
<1>11. IsList(t.payload) BY <1>10, SequencesAreLists
<1>12. Accepted(InRow(t.payload)) BY <1>2, <1>6 DEF PayloadsFit
<1>13. Path("piece", InRowContext, t.payload, InRowContext) BY <1>11, <1>12, PayloadPath
<1>14. PiecesOf(x) = t.payload
  <2>1. PiecesOf(x) = PayloadOf(r) BY ItemPieces DEF r
  <2> QED BY <2>1 DEF PayloadOf, t
<1>15. Moves("item", InRowContext, x, InRowContext) BY <1>13, <1>14, PathsRead
<1> QED BY <1>15, PathOne

LEMMA DimensionPath ==
    ASSUME NEW c, ~Outside(c)
    PROVE  Path("item", c, <<Dimension>>, c)
<1> DEFINE y == Piece("self", "dimension", NoRef, 1)
<1>1. PiecesOf(Dimension) = <<y>>
  <2>1. Dimension.item = "dimension" /\ Dimension.name = "dimension" /\ Dimension.ref = NoRef
    BY DEF Dimension, Synthetic
  <2> QED BY <2>1, ItemPieces
<1>2. y.form = "self" /\ y.name = "dimension" BY DEF Piece
<1> HIDE DEF y
<1>3. ~RefusesOpening(c, "dimension") BY DEF RefusesOpening, IsValueName
<1>4. ~Refuses(c, y) BY <1>2, <1>3 DEF Refuses
<1>5. After(c, y) = c BY <1>2 DEF After, AfterOpening, IsValueName
<1> QED BY <1>1, <1>4, <1>5, PiecePath

\* What becomes of an action, by its kind.
LEMMA QuietAction ==
    ASSUME NEW c, NEW x, NEW d, Path("item", c, <<x>>, d), x.kind # "Metadata",
           x.kind = "WorksheetStart" => ~Outside(d)
    PROVE  Path("quiet", c, <<x>>, d)
<1>1. ~IsDimension(x) /\ Quiet(x) BY DEF Quiet, IsDimension
<1>2. Path("item", c, WrittenAs(x), d)
  <2>1. CASE x.kind = "WorksheetStart" /\ analysis.dimension = "none"
    <3>1. WrittenAs(x) = <<x, Dimension>> BY <1>1, <2>1 DEF WrittenAs
    <3>2. Path("item", d, <<Dimension>>, d) BY <2>1, DimensionPath
    <3>3. Path("item", c, <<x>> \o <<Dimension>>, d) BY <3>2, PathJoined
    <3>4. <<x>> \o <<Dimension>> = <<x, Dimension>> BY PairJoined
    <3> QED BY <3>1, <3>3, <3>4
  <2>2. CASE ~(x.kind = "WorksheetStart" /\ analysis.dimension = "none")
    <3>1. WrittenAs(x) = <<x>> BY <1>1, <2>2 DEF WrittenAs
    <3> QED BY <3>1
  <2> QED BY <2>1, <2>2
<1>3. Moves("action", c, x, d) BY <1>2, PathsRead
<1>4. Moves("quiet", c, x, d) BY <1>1, <1>3, PathsRead
<1> QED BY <1>4, PathOne

LEMMA QuietPiece ==
    ASSUME NEW c, NEW x, NEW y, PiecesOf(x) = <<y>>, ~Refuses(c, y), x.kind # "Metadata",
           x.kind = "WorksheetStart" => ~Outside(After(c, y))
    PROVE  Path("quiet", c, <<x>>, After(c, y))
BY PiecePath, QuietAction

LEMMA QuietPayload ==
    ASSUME request \in Requests, PayloadsFit, NEW x, x.item \in {"cell", "insert"},
           x.ref \in wanted, x.kind = "CellStart"
    PROVE  Path("quiet", InRowContext, <<x>>, InRowContext)
BY PayloadItem, QuietAction

\* The copy of a piece that is reported as something.
LEMMA CopyPath ==
    ASSUME NEW c, NEW at, NEW x, source[at] = x, ~Refuses(c, x), NEW kind,
           kind = "WorksheetStart" => ~Outside(After(c, x)),
           kind # "Metadata"
    PROVE  Path("quiet", c, PassThrough(Event(kind, at, x)), After(c, x))
<1> DEFINE a == Action("copy", Event(kind, at, x))
<1>1. a.item = "copy" /\ a.at = at /\ a.kind = kind BY DEF Action, Event
<1> HIDE DEF a
<1>2. PiecesOf(a) = <<x>> BY <1>1, ItemPieces
<1>3. Path("quiet", c, <<a>>, After(c, x)) BY <1>1, <1>2, QuietPiece
<1> QED BY <1>3 DEF a, PassThrough

\* The copy of an element that is no boundary.
LEMMA MetadataPath ==
    ASSUME NEW c, NEW at, NEW x, source[at] = x, ~Refuses(c, x), ~Outside(c),
           x.name = "dimension" => After(c, x) = c, IsTag(x)
    PROVE  LET a == Action("copy", Event("Metadata", at, x))
           IN  /\ Path("action", c, <<a>>, After(c, x))
               /\ x.name # "dimension" \/ x.form # "open" =>
                     Path("quiet", c, <<a>>, After(c, x))
<1> DEFINE a == Action("copy", Event("Metadata", at, x))
<1>1. /\ a.item = "copy" /\ a.at = at /\ a.kind = "Metadata" /\ a.name = x.name
      /\ a.self = (x.form = "self") /\ a.closing = (x.form = "close")
  BY DEF Action, Event
<1> HIDE DEF a
<1>2. PiecesOf(a) = <<x>> BY <1>1, ItemPieces
<1>3. Path("item", c, <<a>>, After(c, x)) BY <1>2, PiecePath
<1>4. Path("item", c, WrittenAs(a), After(c, x))
  <2>1. CASE IsDimension(a) /\ ~a.closing
    <3>1. WrittenAs(a) = <<Dimension>> BY <1>1, <2>1 DEF WrittenAs
    <3>2. x.name = "dimension" BY <1>1, <2>1 DEF IsDimension
    <3> QED BY <3>1, <3>2, DimensionPath
  <2>2. CASE ~(IsDimension(a) /\ ~a.closing)
    <3>1. WrittenAs(a) = <<a>> BY <1>1, <2>2 DEF WrittenAs
    <3> QED BY <1>3, <3>1
  <2> QED BY <2>1, <2>2
<1>5. Moves("action", c, a, After(c, x)) BY <1>4, PathsRead
<1>6. Path("action", c, <<a>>, After(c, x)) BY <1>5, PathOne
<1>7. ASSUME x.name # "dimension" \/ x.form # "open", IsTag(x)
      PROVE  Path("quiet", c, <<a>>, After(c, x))
  <2>1. Quiet(a) BY <1>1, <1>7 DEF Quiet, IsDimension, IsTag
  <2>2. Moves("quiet", c, a, After(c, x)) BY <1>5, <2>1, PathsRead
  <2> QED BY <2>2, PathOne
<1> QED BY <1>6, <1>7 DEF a

\* Markup of the transformer's own, read where it is inserted.
LEMMA NewPath ==
    ASSUME NEW c, NEW kind, NEW name, NEW ref, NEW closing \in BOOLEAN,
           kind \notin {"Metadata", "WorksheetStart"}, NEW y,
           y = Piece(IF closing THEN "close" ELSE "open", name, ref, 1), ~Refuses(c, y)
    PROVE  Path("quiet", c, <<Synthetic("new", kind, name, ref, closing)>>, After(c, y))
<1> DEFINE a == Synthetic("new", kind, name, ref, closing)
<1>1. a.item = "new" /\ a.kind = kind /\ a.name = name /\ a.ref = ref /\ a.closing = closing
  BY DEF Synthetic
<1> HIDE DEF a
<1>2. PiecesOf(a) = <<y>> BY <1>1, ItemPieces
<1>3. Path("quiet", c, <<a>>, After(c, y)) BY <1>1, <1>2, QuietPiece
<1> QED BY <1>3 DEF a

\* The boundaries, read where they may be.
LEMMA BoundaryEffect ==
    ASSUME NEW x
    PROVE  /\ x.name = "row" /\ x.form = "open" =>
                 ~Refuses(InDataContext, x) /\ After(InDataContext, x) = InRowContext
           /\ x.name = "row" /\ x.form = "close" =>
                 ~Refuses(InRowContext, x) /\ After(InRowContext, x) = InDataContext
           /\ x.name = "row" /\ x.form = "self" =>
                 ~Refuses(InDataContext, x) /\ After(InDataContext, x) = InDataContext
           /\ x.name = "sheetData" /\ x.form = "close" =>
                 /\ ~Refuses(InDataContext, x)
                 /\ After(InDataContext, x) = [InDataContext EXCEPT !.inData = FALSE]
           /\ \A c : Legal(c) /\ c.opened /\ ~c.closed /\ ~c.seenData
                     /\ x.name = "sheetData" /\ x.form = "open" =>
                 ~Refuses(c, x) /\ After(c, x) = InDataContext
<1> USE DEF Refuses, Outside, After, RefusesOpening, RefusesClosing, AfterOpening, AfterClosing,
            IsValueName
<1>1. x.name = "row" /\ x.form = "open" =>
          ~Refuses(InDataContext, x) /\ After(InDataContext, x) = InRowContext
  BY DEF InDataContext, InRowContext
<1>2. x.name = "row" /\ x.form = "close" =>
          ~Refuses(InRowContext, x) /\ After(InRowContext, x) = InDataContext
  BY DEF InDataContext, InRowContext
<1>3. x.name = "row" /\ x.form = "self" =>
          ~Refuses(InDataContext, x) /\ After(InDataContext, x) = InDataContext
  BY DEF InDataContext, InRowContext
<1>4. x.name = "sheetData" /\ x.form = "close" =>
          /\ ~Refuses(InDataContext, x)
          /\ After(InDataContext, x) = [InDataContext EXCEPT !.inData = FALSE]
  BY DEF InDataContext, InRowContext
<1>5. ASSUME NEW c, Legal(c), c.opened, ~c.closed, ~c.seenData, x.name = "sheetData",
             x.form = "open"
      PROVE  ~Refuses(c, x) /\ After(c, x) = InDataContext
  <2>1. ~c.inData /\ ~c.inRow /\ ~c.inCell /\ c.value = "" /\ c \in Context
    BY <1>5 DEF Legal
  <2>2. ~Refuses(c, x) BY <1>5, <2>1
  <2>3. After(c, x) = [c EXCEPT !.seenData = TRUE, !.inData = TRUE] BY <1>5, <2>1
  <2>4. PICK n : n = After(c, x) OBVIOUS
  <2>5. /\ n.opened /\ ~n.closed /\ n.seenData /\ n.inData /\ ~n.inRow /\ ~n.inCell /\ n.value = ""
        /\ n \in Context
    BY <1>5, <2>1, <2>3, <2>4 DEF Context
  <2>6. Legal(n) BY <2>5 DEF Legal
  <2> QED BY <2>2, <2>4, <2>5, <2>6, LegalPlaces
<1> QED BY <1>1, <1>2, <1>3, <1>4, <1>5

LEMMA InsertsPath ==
    ASSUME request \in Requests, PayloadsFit, NEW refs, Selectors(refs), refs \subseteq wanted
    PROVE  Path("quiet", InRowContext, Inserts(refs), InRowContext)
<1>1. PICK n \in Nat : n = Cardinality(refs) BY FS_CardinalityType DEF Selectors
<1> DEFINE q == [i \in 1 .. n |-> Synthetic("insert", "CellStart", "c",
                                            InPosition(refs)[i], FALSE)]
<1>2. Inserts(refs) = q BY <1>1 DEF Inserts
<1>3. Len(q) = n /\ IsList(q) BY DEF IsList
<1>4. ASSUME NEW i \in 1 .. n PROVE Moves("quiet", InRowContext, q[i], InRowContext)
  <2>1. PICK x : x = q[i] OBVIOUS
  <2>2. InPosition(refs)[i] \in wanted BY <1>1, PositionsTaken
  <2>3. x.item = "insert" /\ x.kind = "CellStart" /\ x.ref \in wanted
    BY <2>1, <2>2 DEF Synthetic
  <2>4. Path("item", InRowContext, <<x>>, InRowContext) BY <2>3, PayloadItem
  <2>5. ~IsDimension(x) /\ Quiet(x) /\ WrittenAs(x) = <<x>>
    BY <2>3 DEF Quiet, IsDimension, WrittenAs
  <2>6. Moves("action", InRowContext, x, InRowContext) BY <2>4, <2>5, PathsRead
  <2>7. Moves("quiet", InRowContext, x, InRowContext) BY <2>5, <2>6, PathsRead
  <2> QED BY <2>1, <2>7
<1> HIDE DEF q
<1> QED BY <1>2, <1>3, <1>4, PathStays

LEMMA RowPath ==
    ASSUME request \in Requests, PayloadsFit, NEW refs, Selectors(refs), refs \subseteq wanted,
           NEW row
    PROVE  Path("quiet", InDataContext, SyntheticRow(refs, row), InDataContext)
<1> DEFINE part == {r \in refs : r.row = row}
           a == Synthetic("new", "RowStart", "row", Ref(row, 0), FALSE)
           b == Synthetic("new", "RowEnd", "row", Ref(row, 0), TRUE)
           y == Piece("open", "row", Ref(row, 0), 1)
           z == Piece("close", "row", Ref(row, 0), 1)
<1>1. SyntheticRow(refs, row) = (<<a>> \o Inserts(part)) \o <<b>> BY DEF SyntheticRow
<1>2. y.form = "open" /\ y.name = "row" /\ z.form = "close" /\ z.name = "row" BY DEF Piece
<1> HIDE DEF y, z
<1>3. Path("quiet", InDataContext, <<a>>, InRowContext)
  <2>1. ~Refuses(InDataContext, y) /\ After(InDataContext, y) = InRowContext
    BY <1>2, BoundaryEffect
  <2>2. y = Piece(IF FALSE THEN "close" ELSE "open", "row", Ref(row, 0), 1) BY DEF y
  <2> QED BY <2>1, <2>2, NewPath
<1>4. Path("quiet", InRowContext, <<b>>, InDataContext)
  <2>1. ~Refuses(InRowContext, z) /\ After(InRowContext, z) = InDataContext
    BY <1>2, BoundaryEffect
  <2>2. z = Piece(IF TRUE THEN "close" ELSE "open", "row", Ref(row, 0), 1) BY DEF z
  <2> QED BY <2>1, <2>2, NewPath
<1>5. Path("quiet", InRowContext, Inserts(part), InRowContext)
  <2>1. Selectors(part) /\ part \subseteq wanted BY SelectorsPart
  <2> HIDE DEF part
  <2> QED BY <2>1, InsertsPath
<1> HIDE DEF a, b, part
<1>6. Path("quiet", InDataContext, <<a>> \o Inserts(part), InRowContext)
  BY <1>3, <1>5, PathJoined
<1>7. Path("quiet", InDataContext, (<<a>> \o Inserts(part)) \o <<b>>, InDataContext)
  BY <1>4, <1>6, PathJoined
<1> QED BY <1>1, <1>7

LEMMA RowsPath ==
    ASSUME request \in Requests, PayloadsFit, NEW refs, Selectors(refs), refs \subseteq wanted
    PROVE  Path("quiet", InDataContext, SyntheticRows(refs), InDataContext)
<1> DEFINE set == {r.row : r \in refs}
<1>1. IsFiniteSet(set)
  <2> DEFINE f == [r \in refs |-> r.row]
  <2>1. f \in Surjection(refs, set) BY DEF Surjection
  <2> QED BY <2>1, FS_Surjection DEF Selectors
<1>2. PICK n \in Nat : n = Cardinality(set) BY <1>1, FS_CardinalityType
<1>3. PICK rows : rows = Ranked(set, <) OBVIOUS
<1>4. DOMAIN rows = 1 .. n BY <1>2, <1>3 DEF Ranked
<1> DEFINE q == [i \in 1 .. n |-> SyntheticRow(refs, rows[i])]
           k == [i \in 0 .. n |-> InDataContext]
<1>5. SyntheticRows(refs) = FlattenSeq(q)
  <2>1. SyntheticRows(refs) = FlattenSeq([i \in DOMAIN rows |-> SyntheticRow(refs, rows[i])])
    BY <1>3 DEF SyntheticRows
  <2> QED BY <1>4, <2>1
<1>6. IsList(q) /\ Len(q) = n BY DEF IsList
<1>7. \A i \in 1 .. n : Path("quiet", InDataContext, q[i], InDataContext) BY RowPath
<1>8. /\ \A i \in 1 .. n : k[i - 1] = InDataContext /\ k[i] = InDataContext
      /\ k[0] = InDataContext /\ k[n] = InDataContext
  OBVIOUS
<1> HIDE DEF q, k
<1>9. \A i \in 1 .. Len(q) : Path("quiet", k[i - 1], q[i], k[i]) BY <1>6, <1>7, <1>8
<1>10. Path("quiet", k[0], FlattenSeq(q), k[Len(q)]) BY <1>6, <1>9, PathFlattened
<1> QED BY <1>5, <1>6, <1>8, <1>10

\* What is left of a worksheet's data once it is closed.
BehindData == [InDataContext EXCEPT !.inData = FALSE]

LEMMA DataPath ==
    ASSUME request \in Requests, PayloadsFit, NEW refs, Selectors(refs), refs \subseteq wanted,
           NEW c, Legal(c), c.opened, ~c.closed, ~c.seenData
    PROVE  Path("quiet", c, SyntheticData(refs), IF refs = {} THEN c ELSE BehindData)
<1>1. CASE refs = {}
  BY <1>1, PathNone DEF SyntheticData
<1>2. CASE refs # {}
  <2> DEFINE a == Synthetic("new", "SheetDataStart", "sheetData", NoRef, FALSE)
             b == Synthetic("new", "SheetDataEnd", "sheetData", NoRef, TRUE)
             y == Piece("open", "sheetData", NoRef, 1)
             z == Piece("close", "sheetData", NoRef, 1)
  <2>1. SyntheticData(refs) = (<<a>> \o SyntheticRows(refs)) \o <<b>>
    BY <1>2 DEF SyntheticData
  <2>2. /\ y.form = "open" /\ y.name = "sheetData" /\ z.form = "close"
        /\ z.name = "sheetData"
    BY DEF Piece
  <2> HIDE DEF y, z
  <2>3. Path("quiet", c, <<a>>, InDataContext)
    <3>1. ~Refuses(c, y) /\ After(c, y) = InDataContext BY <2>2, BoundaryEffect
    <3>2. y = Piece(IF FALSE THEN "close" ELSE "open", "sheetData", NoRef, 1) BY DEF y
    <3> QED BY <3>1, <3>2, NewPath
  <2>4. Path("quiet", InDataContext, <<b>>, BehindData)
    <3>1. ~Refuses(InDataContext, z) /\ After(InDataContext, z) = BehindData
      BY <2>2, BoundaryEffect DEF BehindData
    <3>2. z = Piece(IF TRUE THEN "close" ELSE "open", "sheetData", NoRef, 1) BY DEF z
    <3> QED BY <3>1, <3>2, NewPath
  <2>5. Path("quiet", InDataContext, SyntheticRows(refs), InDataContext) BY RowsPath
  <2> HIDE DEF a, b
  <2>6. Path("quiet", c, <<a>> \o SyntheticRows(refs), InDataContext)
    BY <2>3, <2>5, PathJoined
  <2>7. Path("quiet", c, (<<a>> \o SyntheticRows(refs)) \o <<b>>, BehindData)
    BY <2>4, <2>6, PathJoined
  <2> QED BY <1>2, <2>1, <2>7
<1> QED BY <1>1, <1>2

\* A self-closing boundary read as an opening and a closing one.
LEMMA ExpandedPath ==
    ASSUME NEW c, NEW at, NEW x, source[at] = x,
           x \in [form : Forms, name : STRING, ref : Refs, bytes : Nat],
           NEW y, y = [x EXCEPT !.form = "open"], NEW z, z = [x EXCEPT !.form = "close"],
           NEW kind, NEW end, {kind, end} \cap {"Metadata"} = {}, end # "WorksheetStart",
           ~Refuses(c, y), kind = "WorksheetStart" => ~Outside(After(c, y)),
           NEW q, NEW d, Path("quiet", After(c, y), q, d), ~Refuses(d, z)
    PROVE  Path("quiet", c, Expanded(Event(kind, at, x), end, q), After(d, z))
<1> DEFINE e == Event(kind, at, x)
           opened == [Action("opened", e) EXCEPT !.self = FALSE]
           closed == [Action("closed", e) EXCEPT !.kind = end, !.self = FALSE, !.closing = TRUE]
<1>1. opened.item = "opened" /\ opened.at = at /\ opened.kind = kind
  BY DEF Action, Event
<1>2. closed.item = "closed" /\ closed.at = at /\ closed.kind = end
  BY DEF Action, Event
<1>3. Expanded(e, end, q) = (<<opened>> \o q) \o <<closed>> BY DEF Expanded
<1> HIDE DEF opened, closed
<1>4. Path("quiet", c, <<opened>>, After(c, y))
  <2>1. PiecesOf(opened) = <<y>> BY <1>1, ItemPieces
  <2> QED BY <1>1, <2>1, QuietPiece
<1>5. Path("quiet", d, <<closed>>, After(d, z))
  <2>1. PiecesOf(closed) = <<z>> BY <1>2, ItemPieces
  <2> QED BY <1>2, <2>1, QuietPiece
<1>6. Path("quiet", c, <<opened>> \o q, d) BY <1>4, PathJoined
<1>7. Path("quiet", c, (<<opened>> \o q) \o <<closed>>, After(d, z)) BY <1>5, <1>6, PathJoined
<1> QED BY <1>3, <1>7

-----------------------------------------------------------------------------
(* What an event does to what the transformer remembers.                   *)

Extends(p, n, q) == n.actions = p.actions \o q

\* Patch n remembers what patch p does, and that it inserted some targets.
Took(p, n, refs) ==
    /\ DOMAIN n = PatchFields
    /\ n.matched = p.matched /\ n.inserted = p.inserted \cup refs
    /\ n.suppress = p.suppress /\ n.replacing = p.replacing /\ n.seenData = p.seenData

\* The same, but for the end event it is going to drop.
TookAll(p, n, refs, end) ==
    /\ DOMAIN n = PatchFields
    /\ n.matched = p.matched /\ n.inserted = p.inserted \cup refs
    /\ n.suppress = end /\ n.replacing = p.replacing

\* Patch n is replacing a cell that patch p was not.
Met(p, n, refs, ref) ==
    /\ DOMAIN n = PatchFields
    /\ n.matched = p.matched \cup {ref} /\ n.inserted = p.inserted \cup refs
    /\ n.suppress = p.suppress /\ n.replacing = TRUE /\ n.seenData = p.seenData

LEMMA NoneTaken ==
    ASSUME NEW p, NEW n, DOMAIN n = PatchFields, n.matched = p.matched,
           n.inserted = p.inserted, n.suppress = p.suppress, n.replacing = p.replacing,
           n.seenData = p.seenData
    PROVE  Took(p, n, {})
BY DEF Took

LEMMA DoesTakes ==
    ASSUME NEW p, DOMAIN p = PatchFields, NEW q, NEW n, n = Does(p, q)
    PROVE  Took(p, n, {}) /\ Extends(p, n, q) /\ n.row = p.row
<1>1. /\ DOMAIN n = PatchFields /\ n.matched = p.matched /\ n.inserted = p.inserted
      /\ n.suppress = p.suppress /\ n.replacing = p.replacing /\ n.seenData = p.seenData
      /\ n.row = p.row
  BY DEF Does, PatchFields
<1>2. Extends(p, n, q) BY DEF Does, PatchFields, Extends
<1> QED BY <1>1, <1>2, NoneTaken

LEMMA InsertingTakes ==
    ASSUME NEW p, DOMAIN p = PatchFields, NEW q, NEW refs, NEW n, n = Inserting(p, refs, q)
    PROVE  Took(p, n, refs) /\ Extends(p, n, q) /\ n.row = p.row
<1>1. /\ DOMAIN n = PatchFields /\ n.matched = p.matched /\ n.inserted = p.inserted \cup refs
      /\ n.suppress = p.suppress /\ n.replacing = p.replacing /\ n.seenData = p.seenData
      /\ n.row = p.row
  BY DEF Inserting, PatchFields
<1>2. Extends(p, n, q) BY DEF Inserting, PatchFields, Extends
<1> QED BY <1>1, <1>2 DEF Took

\* Each event, while no cell is being replaced.
LEMMA UpsertingWorksheet ==
    ASSUME NEW p, DOMAIN p = PatchFields, ~p.replacing, NEW targets, NEW e,
           NEW pending, pending = Pending(p, targets), NEW n, n = Upserting(p, targets, e)
    PROVE  /\ e.kind = "WorksheetStart" /\ e.self /\ pending # {} =>
                 /\ TookAll(p, n, pending, "WorksheetEnd") /\ n.seenData = p.seenData
                 /\ Extends(p, n, Expanded(e, "WorksheetEnd", SyntheticData(pending)))
           /\ e.kind = "WorksheetStart" /\ ~e.self =>
                 Took(p, n, {}) /\ Extends(p, n, PassThrough(e))
           /\ e.kind = "WorksheetEnd" /\ p.suppress = "WorksheetEnd" =>
                 /\ TookAll(p, n, {}, "") /\ n.seenData = p.seenData
                 /\ n.actions = p.actions
           /\ e.kind = "WorksheetEnd" /\ p.suppress = "" /\ p.seenData =>
                 Took(p, n, {}) /\ Extends(p, n, PassThrough(e))
           /\ e.kind = "WorksheetEnd" /\ p.suppress = "" /\ ~p.seenData =>
                 /\ Took(p, n, pending)
                 /\ Extends(p, n, SyntheticData(pending) \o PassThrough(e))
<1>1. ASSUME e.kind = "WorksheetStart", e.self, pending # {}
      PROVE  /\ TookAll(p, n, pending, "WorksheetEnd") /\ n.seenData = p.seenData
             /\ Extends(p, n, Expanded(e, "WorksheetEnd", SyntheticData(pending)))
  <2>1. PICK q : q = Expanded(e, "WorksheetEnd", SyntheticData(pending)) OBVIOUS
  <2>2. PICK g : g = Inserting(p, pending, q) OBVIOUS
  <2>3. PICK x : x = "WorksheetEnd" OBVIOUS
  <2>4. n = [g EXCEPT !.suppress = x]
    BY <1>1, <2>1, <2>2, <2>3 DEF Upserting, UpsertWorksheetStart
  <2>5. Took(p, g, pending) /\ Extends(p, g, q) BY <2>2, InsertingTakes
  <2>6. TookAll(p, n, pending, x) /\ n.seenData = p.seenData /\ n.actions = g.actions
    BY <2>4, <2>5 DEF Took, TookAll, PatchFields
  <2> QED BY <2>1, <2>3, <2>5, <2>6 DEF Extends
<1>2. ASSUME e.kind = "WorksheetStart", ~e.self
      PROVE  Took(p, n, {}) /\ Extends(p, n, PassThrough(e))
  <2>1. n = Does(p, PassThrough(e)) BY <1>2 DEF Upserting, UpsertWorksheetStart
  <2> QED BY <2>1, DoesTakes
<1>3. ASSUME e.kind = "WorksheetEnd", p.suppress = "WorksheetEnd"
      PROVE  /\ TookAll(p, n, {}, "") /\ n.seenData = p.seenData
             /\ n.actions = p.actions
  <2>1. PICK x : x = "" OBVIOUS
  <2>2. n = [p EXCEPT !.suppress = x] BY <2>1, <1>3 DEF Upserting, UpsertWorksheetEnd
  <2>3. TookAll(p, n, {}, x) /\ n.seenData = p.seenData /\ n.actions = p.actions
    BY <2>2 DEF TookAll, PatchFields
  <2> QED BY <2>1, <2>3
<1>4. ASSUME e.kind = "WorksheetEnd", p.suppress = "", p.seenData
      PROVE  Took(p, n, {}) /\ Extends(p, n, PassThrough(e))
  <2>1. n = Does(p, PassThrough(e)) BY <1>4 DEF Upserting, UpsertWorksheetEnd
  <2> QED BY <2>1, DoesTakes
<1>5. ASSUME e.kind = "WorksheetEnd", p.suppress = "", ~p.seenData
      PROVE  /\ Took(p, n, pending)
             /\ Extends(p, n, SyntheticData(pending) \o PassThrough(e))
  <2>1. n = Inserting(p, pending, SyntheticData(pending) \o PassThrough(e))
    BY <1>5 DEF Upserting, UpsertWorksheetEnd
  <2> QED BY <2>1, InsertingTakes
<1> QED BY <1>1, <1>2, <1>3, <1>4, <1>5

LEMMA UpsertingData ==
    ASSUME NEW p, DOMAIN p = PatchFields, ~p.replacing, NEW targets, NEW e,
           NEW pending, pending = Pending(p, targets), NEW n, n = Upserting(p, targets, e)
    PROVE  /\ e.kind = "SheetDataStart" /\ e.self /\ pending # {} =>
                 /\ TookAll(p, n, pending, "SheetDataEnd") /\ n.seenData = TRUE
                 /\ Extends(p, n, Expanded(e, "SheetDataEnd", SyntheticRows(pending)))
           /\ e.kind = "SheetDataStart" /\ ~e.self =>
                 /\ TookAll(p, n, {}, p.suppress) /\ n.seenData = TRUE
                 /\ Extends(p, n, PassThrough(e))
           /\ e.kind = "SheetDataEnd" /\ p.suppress = "SheetDataEnd" =>
                 /\ TookAll(p, n, {}, "") /\ n.seenData = p.seenData
                 /\ n.actions = p.actions
           /\ e.kind = "SheetDataEnd" /\ p.suppress = "" /\ ~e.self =>
                 /\ Took(p, n, pending)
                 /\ Extends(p, n, SyntheticRows(pending) \o PassThrough(e))
<1>1. ASSUME e.kind = "SheetDataStart", e.self, pending # {}
      PROVE  /\ TookAll(p, n, pending, "SheetDataEnd") /\ n.seenData = TRUE
             /\ Extends(p, n, Expanded(e, "SheetDataEnd", SyntheticRows(pending)))
  <2>1. PICK q : q = Expanded(e, "SheetDataEnd", SyntheticRows(pending)) OBVIOUS
  <2>2. PICK g : g = Inserting(p, pending, q) OBVIOUS
  <2>3. PICK x : x = "SheetDataEnd" OBVIOUS
  <2>4. n = [g EXCEPT !.seenData = TRUE, !.suppress = x]
    BY <1>1, <2>1, <2>2, <2>3 DEF Upserting, UpsertDataStart
  <2>5. Took(p, g, pending) /\ Extends(p, g, q) BY <2>2, InsertingTakes
  <2>6. TookAll(p, n, pending, x) /\ n.seenData = TRUE /\ n.actions = g.actions
    BY <2>4, <2>5 DEF Took, TookAll, PatchFields
  <2> QED BY <2>1, <2>3, <2>5, <2>6 DEF Extends
<1>2. ASSUME e.kind = "SheetDataStart", ~e.self
      PROVE  /\ TookAll(p, n, {}, p.suppress) /\ n.seenData = TRUE
             /\ Extends(p, n, PassThrough(e))
  <2>1. PICK q, g : q = PassThrough(e) /\ g = Does(p, q) OBVIOUS
  <2>2. n = [g EXCEPT !.seenData = TRUE] BY <1>2, <2>1 DEF Upserting, UpsertDataStart
  <2>3. Took(p, g, {}) /\ Extends(p, g, q) BY <2>1, DoesTakes
  <2>4. TookAll(p, n, {}, p.suppress) /\ n.seenData = TRUE /\ n.actions = g.actions
    BY <2>2, <2>3 DEF Took, TookAll, PatchFields
  <2> QED BY <2>1, <2>3, <2>4 DEF Extends
<1>3. ASSUME e.kind = "SheetDataEnd", p.suppress = "SheetDataEnd"
      PROVE  /\ TookAll(p, n, {}, "") /\ n.seenData = p.seenData
             /\ n.actions = p.actions
  <2>1. PICK x : x = "" OBVIOUS
  <2>2. n = [p EXCEPT !.suppress = x] BY <2>1, <1>3 DEF Upserting, UpsertDataEnd
  <2>3. TookAll(p, n, {}, x) /\ n.seenData = p.seenData /\ n.actions = p.actions
    BY <2>2 DEF TookAll, PatchFields
  <2> QED BY <2>1, <2>3
<1>4. ASSUME e.kind = "SheetDataEnd", p.suppress = "", ~e.self
      PROVE  /\ Took(p, n, pending)
             /\ Extends(p, n, SyntheticRows(pending) \o PassThrough(e))
  <2>1. n = Inserting(p, pending, SyntheticRows(pending) \o PassThrough(e))
    BY <1>4 DEF Upserting, UpsertDataEnd
  <2> QED BY <2>1, InsertingTakes
<1> QED BY <1>1, <1>2, <1>3, <1>4

\* Inside a cell that is replaced.
Dropped(p, n, kind) ==
    /\ DOMAIN n = PatchFields
    /\ n.matched = p.matched /\ n.inserted = p.inserted /\ n.suppress = p.suppress
    /\ n.seenData = p.seenData /\ n.actions = p.actions
    /\ n.replacing <=> kind # "CellEnd"

RowsLed(p, m, refs) == Took(p, m, refs) /\ Extends(p, m, SyntheticRows(refs))
CellsLed(p, m, refs) == Took(p, m, refs) /\ Extends(p, m, Inserts(refs))
PassedOn(p, n, e) == Took(p, n, {}) /\ Extends(p, n, PassThrough(e))

LEMMA PassedBy ==
    ASSUME NEW p, DOMAIN p = PatchFields, NEW e, NEW n, n = Does(p, PassThrough(e))
    PROVE  PassedOn(p, n, e) /\ n.row = p.row
<1>1. PICK q : q = PassThrough(e) OBVIOUS
<1>2. n = Does(p, q) BY <1>1
<1>3. Took(p, n, {}) /\ Extends(p, n, q) /\ n.row = p.row BY <1>2, DoesTakes
<1> QED BY <1>1, <1>3 DEF PassedOn

LEMMA RowKept ==
    ASSUME NEW p, DOMAIN p = PatchFields, NEW x, NEW n, n = [p EXCEPT !.row = x],
           NEW m, NEW refs, NEW q
    PROVE  /\ n.row = x
           /\ Took(m, p, refs) => Took(m, n, refs)
           /\ Extends(m, p, q) => Extends(m, n, q)
<1>1. /\ DOMAIN n = PatchFields /\ n.matched = p.matched /\ n.inserted = p.inserted
      /\ n.suppress = p.suppress /\ n.replacing = p.replacing /\ n.seenData = p.seenData
      /\ n.row = x /\ n.actions = p.actions
  BY DEF PatchFields
<1>2. Took(m, p, refs) => Took(m, n, refs) BY <1>1 DEF Took
<1>3. Extends(m, p, q) => Extends(m, n, q) BY <1>1 DEF Extends
<1> QED BY <1>1, <1>2, <1>3

LEMMA UpsertingRowStart ==
    ASSUME NEW p, DOMAIN p = PatchFields, ~p.replacing, NEW targets, NEW e,
           NEW pending, pending = Pending(p, targets), NEW n, n = Upserting(p, targets, e),
           e.kind = "RowStart", NEW within, within = {r \in pending : r.row = e.ref.row}
    PROVE  /\ e.ref.text = "bad" => n.refused
           /\ e.ref.text = "missing" => PassedOn(p, n, e) /\ n.row = 0
           /\ e.ref.text \notin {"bad", "missing"} =>
                 \E refs, m : /\ refs \subseteq pending /\ RowsLed(p, m, refs)
                              /\ e.self /\ within # {} =>
                                    /\ TookAll(m, n, within, "RowEnd") /\ n.seenData = m.seenData
                                    /\ Extends(m, n, Expanded(e, "RowEnd", Inserts(within)))
                              /\ ~e.self \/ within = {} =>
                                    PassedOn(m, n, e) /\ n.row = e.ref.row
<1>0. n = UpsertRowStart(p, pending, e) BY DEF Upserting
<1>1. ASSUME e.ref.text = "bad" PROVE n.refused
  BY <1>0, <1>1 DEF UpsertRowStart, PatchFields
<1>2. ASSUME e.ref.text = "missing" PROVE PassedOn(p, n, e) /\ n.row = 0
  <2>1. PICK g : g = Does(p, PassThrough(e)) OBVIOUS
  <2>2. n = [g EXCEPT !.row = 0] BY <1>0, <1>2, <2>1 DEF UpsertRowStart
  <2>3. PassedOn(p, g, e) BY <2>1, PassedBy
  <2>4. DOMAIN g = PatchFields BY <2>3 DEF PassedOn, Took
  <2> QED BY <2>2, <2>3, <2>4, RowKept DEF PassedOn
<1>3. ASSUME e.ref.text \notin {"bad", "missing"}
      PROVE  \E refs, m : /\ refs \subseteq pending /\ RowsLed(p, m, refs)
                          /\ e.self /\ within # {} =>
                                /\ TookAll(m, n, within, "RowEnd") /\ n.seenData = m.seenData
                                /\ Extends(m, n, Expanded(e, "RowEnd", Inserts(within)))
                          /\ ~e.self \/ within = {} =>
                                PassedOn(m, n, e) /\ n.row = e.ref.row
  <2>1. PICK refs : refs = Leading(pending, LAMBDA r : r.row < e.ref.row) OBVIOUS
  <2>2. refs \subseteq pending BY <2>1 DEF Leading
  <2>3. PICK q, m : q = SyntheticRows(refs) /\ m = Inserting(p, refs, q) OBVIOUS
  <2>4. Took(p, m, refs) /\ Extends(p, m, q) BY <2>3, InsertingTakes
  <2>5. RowsLed(p, m, refs) BY <2>3, <2>4 DEF RowsLed
  <2>6. DOMAIN m = PatchFields BY <2>4 DEF Took
  <2>7. n = IF e.self /\ within # {}
            THEN [Inserting(m, within, Expanded(e, "RowEnd", Inserts(within)))
                     EXCEPT !.row = 0, !.suppress = "RowEnd"]
            ELSE [Does(m, PassThrough(e)) EXCEPT !.row = e.ref.row]
    BY <1>0, <1>3, <2>1, <2>3 DEF UpsertRowStart
  <2>8. ASSUME e.self, within # {}
        PROVE  /\ TookAll(m, n, within, "RowEnd") /\ n.seenData = m.seenData
               /\ Extends(m, n, Expanded(e, "RowEnd", Inserts(within)))
    <3>1. PICK s, x : s = Expanded(e, "RowEnd", Inserts(within)) /\ x = "RowEnd" OBVIOUS
    <3>2. PICK g : g = Inserting(m, within, s) OBVIOUS
    <3>3. Took(m, g, within) /\ Extends(m, g, s) BY <2>6, <3>2, InsertingTakes
    <3>4. n = [g EXCEPT !.row = 0, !.suppress = x] BY <2>7, <2>8, <3>1, <3>2
    <3>5. TookAll(m, n, within, x) /\ n.seenData = m.seenData /\ n.actions = g.actions
      BY <3>3, <3>4 DEF Took, TookAll, PatchFields
    <3> QED BY <3>1, <3>3, <3>5 DEF Extends
  <2>9. ASSUME ~e.self \/ within = {}
        PROVE  PassedOn(m, n, e) /\ n.row = e.ref.row
    <3>1. PICK g : g = Does(m, PassThrough(e)) OBVIOUS
    <3>2. n = [g EXCEPT !.row = e.ref.row] BY <2>7, <2>9, <3>1
    <3>3. PassedOn(m, g, e) BY <2>6, <3>1, PassedBy
    <3>4. DOMAIN g = PatchFields BY <3>3 DEF PassedOn, Took
    <3> QED BY <3>2, <3>3, <3>4, RowKept DEF PassedOn
  <2> QED BY <2>2, <2>5, <2>8, <2>9
<1> QED BY <1>1, <1>2, <1>3

LEMMA UpsertingRowEnd ==
    ASSUME NEW p, DOMAIN p = PatchFields, ~p.replacing, NEW targets, NEW e,
           NEW pending, pending = Pending(p, targets), NEW n, n = Upserting(p, targets, e),
           e.kind = "RowEnd"
    PROVE  /\ p.suppress = "RowEnd" =>
                 /\ TookAll(p, n, {}, "") /\ n.seenData = p.seenData
                 /\ n.actions = p.actions
           /\ p.suppress = "" =>
                 \E refs : /\ refs \subseteq {r \in pending : r.row = p.row}
                           /\ Took(p, n, refs)
                           /\ Extends(p, n, Inserts(refs) \o PassThrough(e))
<1>0. n = UpsertRowEnd(p, pending, e) BY DEF Upserting
<1>1. ASSUME p.suppress = "RowEnd"
      PROVE  /\ TookAll(p, n, {}, "") /\ n.seenData = p.seenData
             /\ n.actions = p.actions
  <2>1. PICK x : x = "" OBVIOUS
  <2>2. n = [p EXCEPT !.suppress = x] BY <1>0, <2>1, <1>1 DEF UpsertRowEnd
  <2>3. TookAll(p, n, {}, x) /\ n.seenData = p.seenData /\ n.actions = p.actions
    BY <2>2 DEF TookAll, PatchFields
  <2> QED BY <2>1, <2>3
<1>2. ASSUME p.suppress = ""
      PROVE  \E refs : /\ refs \subseteq {r \in pending : r.row = p.row}
                       /\ Took(p, n, refs)
                       /\ Extends(p, n, Inserts(refs) \o PassThrough(e))
  <2>1. PICK refs : refs = Leading(pending, LAMBDA r : r.row = p.row) OBVIOUS
  <2>2. refs \subseteq {r \in pending : r.row = p.row}
    <3>1. ASSUME NEW r \in refs PROVE r \in pending /\ r.row = p.row
      BY <2>1 DEF Leading
    <3> QED BY <3>1
  <2>3. PICK q, g : q = Inserts(refs) \o PassThrough(e) /\ g = Inserting(p, refs, q) OBVIOUS
  <2>4. n = [g EXCEPT !.row = 0] BY <1>0, <1>2, <2>1, <2>3 DEF UpsertRowEnd
  <2>5. Took(p, g, refs) /\ Extends(p, g, q) BY <2>3, InsertingTakes
  <2>6. DOMAIN g = PatchFields BY <2>5 DEF Took
  <2>7. Took(p, n, refs) /\ Extends(p, n, q) BY <2>4, <2>5, <2>6, RowKept
  <2> QED BY <2>2, <2>3, <2>7
<1> QED BY <1>1, <1>2

LEMMA CellMet ==
    ASSUME NEW p, DOMAIN p = PatchFields, NEW e, NEW n,
           n = [Does(p, <<Action("cell", e)>>) EXCEPT !.matched = @ \cup {e.ref},
                                                      !.replacing = TRUE]
    PROVE  Met(p, n, {}, e.ref) /\ Extends(p, n, <<Action("cell", e)>>)
<1>1. PICK q, x, g : q = <<Action("cell", e)>> /\ x = {e.ref} /\ g = Does(p, q) OBVIOUS
<1>2. n = [g EXCEPT !.matched = @ \cup x, !.replacing = TRUE] BY <1>1
<1>3. Took(p, g, {}) /\ Extends(p, g, q) BY <1>1, DoesTakes
<1>4. /\ DOMAIN n = PatchFields /\ n.matched = g.matched \cup x /\ n.inserted = g.inserted
      /\ n.suppress = g.suppress /\ n.replacing = TRUE /\ n.seenData = g.seenData
      /\ n.actions = g.actions
  BY <1>2, <1>3 DEF Took, PatchFields
<1>5. Met(p, n, {}, e.ref) BY <1>1, <1>3, <1>4 DEF Took, Met
<1> QED BY <1>1, <1>3, <1>4, <1>5 DEF Extends

LEMMA UpsertingCell ==
    ASSUME NEW p, DOMAIN p = PatchFields, ~p.replacing, NEW targets, NEW e,
           NEW pending, pending = Pending(p, targets), NEW n, n = Upserting(p, targets, e),
           e.kind = "CellStart"
    PROVE  /\ e.ref.text = "bad" => n.refused
           /\ e.ref.text # "bad" =>
                 \E refs, m : /\ refs \subseteq pending /\ CellsLed(p, m, refs)
                              /\ e.ref \in pending =>
                                    Met(m, n, {}, e.ref) /\ Extends(m, n, <<Action("cell", e)>>)
                              /\ e.ref \notin pending => PassedOn(m, n, e)
<1>0. n = UpsertCellStart(p, pending, e) BY DEF Upserting
<1>1. ASSUME e.ref.text = "bad" PROVE n.refused
  BY <1>0, <1>1 DEF UpsertCellStart, PatchFields
<1>2. ASSUME e.ref.text # "bad"
      PROVE  \E refs, m : /\ refs \subseteq pending /\ CellsLed(p, m, refs)
                          /\ e.ref \in pending =>
                                Met(m, n, {}, e.ref) /\ Extends(m, n, <<Action("cell", e)>>)
                          /\ e.ref \notin pending => PassedOn(m, n, e)
  <2> DEFINE row == IF p.row = 0 THEN e.ref.row ELSE p.row
  <2>1. PICK refs : refs = IF Readable(e.ref) /\ row = e.ref.row
                          THEN Leading(pending, LAMBDA r : r.row = row /\ r.col < e.ref.col)
                          ELSE {}
    OBVIOUS
  <2>2. refs \subseteq pending
    <3>1. Leading(pending, LAMBDA r : r.row = row /\ r.col < e.ref.col) \subseteq pending
      BY DEF Leading
    <3> QED BY <2>1, <3>1
  <2>3. PICK q, m : q = Inserts(refs) /\ m = Inserting(p, refs, q) OBVIOUS
  <2>4. Took(p, m, refs) /\ Extends(p, m, q) BY <2>3, InsertingTakes
  <2>5. CellsLed(p, m, refs) BY <2>3, <2>4 DEF CellsLed
  <2>6. DOMAIN m = PatchFields BY <2>4 DEF Took
  <2>7. n = IF e.ref \in pending
            THEN [Does(m, <<Action("cell", e)>>) EXCEPT !.matched = @ \cup {e.ref},
                                                        !.replacing = TRUE]
            ELSE Does(m, PassThrough(e))
    BY <1>0, <1>2, <2>1, <2>3 DEF UpsertCellStart
  <2>8. e.ref \in pending =>
          Met(m, n, {}, e.ref) /\ Extends(m, n, <<Action("cell", e)>>)
    BY <2>6, <2>7, CellMet
  <2>9. e.ref \notin pending => PassedOn(m, n, e) BY <2>6, <2>7, PassedBy
  <2> QED BY <2>2, <2>5, <2>8, <2>9
<1> QED BY <1>1, <1>2

LEMMA UpsertingOther ==
    ASSUME NEW p, DOMAIN p = PatchFields, NEW targets, NEW e, NEW n,
           n = Upserting(p, targets, e)
    PROVE  /\ p.replacing => Dropped(p, n, e.kind)
           /\ ~p.replacing /\ e.kind \in {"CellEnd", "CellValueMarkup", "Metadata", "Other"} =>
                 PassedOn(p, n, e)
<1>1. ASSUME p.replacing PROVE Dropped(p, n, e.kind)
  <2>1. PICK x \in BOOLEAN : x = (e.kind # "CellEnd") OBVIOUS
  <2>2. n = [p EXCEPT !.replacing = x] BY <1>1, <2>1 DEF Upserting
  <2>3. /\ DOMAIN n = PatchFields /\ n.matched = p.matched /\ n.inserted = p.inserted
        /\ n.suppress = p.suppress /\ n.seenData = p.seenData /\ n.actions = p.actions
        /\ n.replacing = x
    BY <2>2 DEF PatchFields
  <2> QED BY <2>1, <2>3 DEF Dropped
<1>2. ASSUME ~p.replacing, e.kind \in {"CellEnd", "CellValueMarkup", "Metadata", "Other"}
      PROVE  PassedOn(p, n, e)
  <2>1. n = Does(p, PassThrough(e)) BY <1>2 DEF Upserting
  <2> QED BY <2>1, PassedBy
<1> QED BY <1>1, <1>2

\* The same when cells are only replaced.
LEMMA ReplacingTakes ==
    ASSUME NEW p, DOMAIN p = PatchFields, NEW targets, NEW e, NEW n,
           n = Replacing(p, targets, e)
    PROVE  /\ p.replacing /\ e.kind # "CellStart" => Dropped(p, n, e.kind)
           /\ ~p.replacing /\ e.kind # "CellStart" => PassedOn(p, n, e)
           /\ ~p.replacing /\ e.kind = "CellStart" =>
                 \/ PassedOn(p, n, e)
                 \/ /\ e.ref \in targets /\ Met(p, n, {}, e.ref)
                    /\ Extends(p, n, <<Action("cell", e)>>)
<1> DEFINE tail == p.tail \/ (e.kind = "CellStart" /\ EndsSearch(p, targets, e))
           met == [p EXCEPT !.tail = tail]
<1>1. CASE e.kind = "CellStart" /\ ~EndsSearch(p, targets, e) /\ e.ref \in targets
  <2>1. n = [Does(p, <<Action("cell", e)>>) EXCEPT !.matched = @ \cup {e.ref},
                                                    !.replacing = TRUE]
    BY <1>1 DEF Replacing
  <2> QED BY <1>1, <2>1, CellMet
<1>2. CASE ~(e.kind = "CellStart" /\ ~EndsSearch(p, targets, e) /\ e.ref \in targets)
  <2>1. n = IF p.replacing THEN [met EXCEPT !.replacing = e.kind # "CellEnd"]
            ELSE Does(met, PassThrough(e))
    BY <1>2 DEF Replacing
  <2> HIDE DEF tail
  <2>2. /\ DOMAIN met = PatchFields /\ met.matched = p.matched /\ met.inserted = p.inserted
        /\ met.suppress = p.suppress /\ met.seenData = p.seenData
        /\ met.actions = p.actions /\ met.replacing = p.replacing
    BY DEF PatchFields
  <2> HIDE DEF met
  <2>3. ASSUME p.replacing PROVE Dropped(p, n, e.kind)
    <3>1. PICK x \in BOOLEAN : x = (e.kind # "CellEnd") OBVIOUS
    <3>2. n = [met EXCEPT !.replacing = x] BY <2>1, <2>3, <3>1
    <3>3. /\ DOMAIN n = PatchFields /\ n.matched = p.matched /\ n.inserted = p.inserted
          /\ n.suppress = p.suppress /\ n.seenData = p.seenData
          /\ n.actions = p.actions /\ n.replacing = x
      BY <2>2, <3>2 DEF PatchFields
    <3> QED BY <3>1, <3>3 DEF Dropped
  <2>4. ASSUME ~p.replacing PROVE PassedOn(p, n, e)
    <3>1. n = Does(met, PassThrough(e)) BY <2>1, <2>4
    <3>2. PassedOn(met, n, e) BY <2>2, <3>1, PassedBy
    <3> QED BY <2>2, <3>2 DEF PassedOn, Took, Extends
  <2> QED BY <2>3, <2>4
<1> QED BY <1>1, <1>2

-----------------------------------------------------------------------------
(* What one piece makes of the transformer and of the output.              *)

\* The targets are told apart and each has a place.
Placed ==
    /\ request \in Requests /\ Selectors(wanted) /\ wanted # {}
    /\ \A r \in wanted : Readable(r) /\ r.row > 0

\* What the transformer remembers where the reader is.
Steady(c, p) ==
    /\ DOMAIN p = PatchFields
    /\ p.replacing \in BOOLEAN
    /\ p.replacing => c.inCell
    /\ p.suppress = ""
    /\ request.upsert => p.seenData = c.seenData
    /\ ~c.seenData => p.matched = {}
    /\ ~c.seenData /\ ~c.closed => p.inserted = {}
    /\ ~request.upsert => p.inserted = {}

\* Where a reader of the output is when the reader of the source is in c.
Sees(c, p, d) ==
    IF p.replacing THEN d = InRowContext
    ELSE IF c.closed /\ c.opened THEN Over(d) ELSE d = c

\* The worksheet, or the replacement of its cells, cannot be completed.
Doomed(c, p) ==
    \/ c.closed /\ ~c.opened
    \/ /\ ~request.upsert /\ p.matched = {}
       /\ c.closed \/ (c.seenData /\ ~c.inData)

\* The reader of the output gets from d to e over what patch p emitted.
From(d, p, e) == Path("quiet", d, p.actions, e)

Ready(c, p, at, x) ==
    /\ Placed /\ Legal(c) /\ Steady(c, p) /\ p.actions = << >>
    /\ source[at] = x /\ x \in [form : Forms, name : STRING, ref : Refs, bytes : Nat]
    /\ ~Refuses(c, x)

Goes(c, p, x, n) ==
    /\ Steady(After(c, x), n)
    /\ Doomed(c, p) => Doomed(After(c, x), n)
    /\ \A d : PayloadsFit /\ Sees(c, p, d) /\ ~Doomed(After(c, x), n) =>
                 \E e : Sees(After(c, x), n, e) /\ From(d, n, e)

LEMMA FromExtends ==
    ASSUME NEW d, NEW p, NEW e, From(d, p, e), NEW n, NEW q, Extends(p, n, q), NEW f,
           Path("quiet", e, q, f)
    PROVE  From(d, n, f)
<1>1. PICK a : a = p.actions OBVIOUS
<1>2. Path("quiet", d, a, e) BY <1>1 DEF From
<1>3. Path("quiet", d, a \o q, f) BY <1>2, PathJoined
<1>4. n.actions = a \o q BY <1>1 DEF Extends
<1> QED BY <1>3, <1>4 DEF From

LEMMA FromKept ==
    ASSUME NEW d, NEW p, NEW e, From(d, p, e), NEW n, n.actions = p.actions
    PROVE  From(d, n, e)
BY DEF From

LEMMA FromIdle ==
    ASSUME NEW p, p.actions = << >>, NEW d
    PROVE  From(d, p, d)
BY PathNone DEF From

\* Two steps of the output.
LEMMA FromBoth ==
    ASSUME NEW d, NEW p, NEW e, From(d, p, e), NEW n, NEW q, NEW r, Extends(p, n, q \o r),
           NEW f, Path("quiet", e, q, f), NEW g, Path("quiet", f, r, g)
    PROVE  From(d, n, g)
<1>1. PICK s : s = q \o r OBVIOUS
<1>2. Path("quiet", e, s, g) BY <1>1, PathJoined
<1>3. Extends(p, n, s) BY <1>1
<1> QED BY <1>2, <1>3, FromExtends

\* Nothing new is remembered.
Recalls(p, n) ==
    /\ DOMAIN n = PatchFields /\ n.replacing \in BOOLEAN
    /\ n.matched = p.matched /\ n.inserted = p.inserted /\ n.suppress = p.suppress
    /\ n.seenData = p.seenData

LEMMA Recalling ==
    ASSUME NEW p, p.replacing \in BOOLEAN, NEW n
    PROVE  /\ Took(p, n, {}) => Recalls(p, n) /\ n.replacing = p.replacing
           /\ \A kind : Dropped(p, n, kind) /\ n.replacing \in BOOLEAN => Recalls(p, n)
<1>1. Took(p, n, {}) => Recalls(p, n) /\ n.replacing = p.replacing
  BY DEF Took, Recalls
<1>2. \A kind : Dropped(p, n, kind) /\ n.replacing \in BOOLEAN => Recalls(p, n)
  BY DEF Dropped, Recalls
<1> QED BY <1>1, <1>2

LEMMA SteadyKept ==
    ASSUME NEW c, NEW p, Steady(c, p), NEW n, Recalls(p, n), NEW b, b.seenData = c.seenData,
           c.closed => b.closed, n.replacing => b.inCell
    PROVE  Steady(b, n)
BY DEF Steady, Recalls

\* Where a tag is read nothing is over, and only the data can be.
LEMMA DoomedAtTag ==
    ASSUME NEW c, ~c.closed, NEW p, NEW b, NEW n, n.matched = p.matched,
           c.seenData /\ ~c.inData => b.seenData /\ ~b.inData
    PROVE  Doomed(c, p) => Doomed(b, n)
BY DEF Doomed

LEMMA Concludes ==
    ASSUME NEW c, NEW p, ~p.replacing, ~c.closed, NEW x, NEW n, NEW b, b = After(c, x),
           Steady(b, n), Doomed(c, p) => Doomed(b, n),
           PayloadsFit /\ ~Doomed(b, n) => \E e : Sees(b, n, e) /\ From(c, n, e)
    PROVE  Goes(c, p, x, n)
<1>1. \A d : Sees(c, p, d) => d = c BY DEF Sees
<1> QED BY <1>1 DEF Goes

\* What is consumed outside the markup of boundaries.
LEMMA ConsumedOther ==
    ASSUME NEW p, DOMAIN p = PatchFields, NEW e, NEW n,
           n = Consumed(p, request.upsert, wanted, e)
    PROVE  /\ p.replacing /\ e.kind # "CellStart" => Dropped(p, n, e.kind)
           /\ ~p.replacing /\ e.kind \in {"CellEnd", "CellValueMarkup", "Metadata", "Other"} =>
                 PassedOn(p, n, e)
           /\ ~request.upsert /\ ~p.replacing /\ e.kind # "CellStart" => PassedOn(p, n, e)
<1>1. CASE request.upsert
  <2>1. n = Upserting(p, wanted, e) BY <1>1 DEF Consumed
  <2> QED BY <1>1, <2>1, UpsertingOther
<1>2. CASE ~request.upsert
  <2>1. n = Replacing(p, wanted, e) BY <1>2 DEF Consumed
  <2>2. e.kind \in {"CellEnd", "CellValueMarkup", "Metadata", "Other"} => e.kind # "CellStart"
    OBVIOUS
  <2> QED BY <2>1, <2>2, ReplacingTakes
<1> QED BY <1>1, <1>2

LEMMA FieldsOf ==
    ASSUME NEW kind, NEW at, NEW x
    PROVE  /\ Event(kind, at, x).kind = kind /\ Event(kind, at, x).ref = x.ref
           /\ Event(kind, at, x).self = (x.form = "self")
BY DEF Event

\* The copy of the piece that an event reports.
LEMMA CopyAs ==
    ASSUME NEW c, NEW at, NEW x, source[at] = x, ~Refuses(c, x), NEW e, e = Event(e.kind, at, x),
           e.kind # "Metadata", e.kind = "WorksheetStart" => ~Outside(After(c, x)),
           NEW d, d = After(c, x)
    PROVE  Path("quiet", c, PassThrough(e), d)
<1>1. PICK kind : kind = e.kind OBVIOUS
<1>2. Path("quiet", c, PassThrough(Event(kind, at, x)), After(c, x)) BY <1>1, CopyPath
<1> QED BY <1>1, <1>2

LEMMA FromCopy ==
    ASSUME NEW a, NEW p, NEW c, From(a, p, c), NEW n, NEW e, PassedOn(p, n, e),
           NEW at, NEW x, source[at] = x, ~Refuses(c, x), e = Event(e.kind, at, x),
           e.kind # "Metadata", e.kind = "WorksheetStart" => ~Outside(After(c, x)),
           NEW d, d = After(c, x)
    PROVE  From(a, n, d)
<1>1. Path("quiet", c, PassThrough(e), d) BY CopyAs
<1>2. PICK q : q = PassThrough(e) OBVIOUS
<1>3. Extends(p, n, q) BY <1>2 DEF PassedOn
<1> QED BY <1>1, <1>2, <1>3, FromExtends

\* Text, comments and the like.
LEMMA PlainGoes ==
    ASSUME NEW c, NEW p, NEW at, NEW x, Ready(c, p, at, x), ~IsTag(x), NEW n,
           n = Consumed(p, request.upsert, wanted, Event("Other", at, x)),
           n.replacing \in BOOLEAN
    PROVE  Goes(c, p, x, n)
<1>1. After(c, x) = c BY OtherEffect
<1>2. PICK e : e = Event("Other", at, x) /\ e.kind = "Other" BY FieldsOf
<1>3. /\ DOMAIN p = PatchFields /\ p.replacing \in BOOLEAN /\ Steady(c, p)
      /\ p.replacing => c.inCell
  BY DEF Ready, Steady
<1>4. CASE p.replacing
  <2>1. Dropped(p, n, "Other") BY <1>2, <1>3, <1>4, ConsumedOther
  <2>2. Recalls(p, n) /\ n.replacing BY <1>3, <2>1, Recalling DEF Dropped
  <2>3. Steady(c, n) BY <1>3, <1>4, <2>2, SteadyKept
  <2>4. Doomed(c, p) => Doomed(c, n) BY <2>2 DEF Doomed, Recalls
  <2>5. ASSUME NEW d, Sees(c, p, d) PROVE Sees(c, n, d) /\ From(d, n, d)
    <3>1. From(d, n, d) BY <2>1, FromIdle, FromKept DEF Dropped, Ready
    <3> QED BY <1>4, <2>2, <2>5, <3>1 DEF Sees
  <2> QED BY <1>1, <2>3, <2>4, <2>5 DEF Goes
<1>5. CASE ~p.replacing
  <2>1. PassedOn(p, n, e) BY <1>2, <1>3, <1>5, ConsumedOther
  <2>2. Recalls(p, n) /\ ~n.replacing BY <1>3, <1>5, <2>1, Recalling DEF PassedOn
  <2>3. Steady(c, n) BY <1>3, <1>5, <2>2, SteadyKept
  <2>4. Doomed(c, p) => Doomed(c, n) BY <2>2 DEF Doomed, Recalls
  <2>5. ASSUME NEW d, Sees(c, p, d) PROVE Sees(c, n, d) /\ From(d, n, d)
    <3>1. ~Refuses(d, x)
      <4>1. CASE c.closed /\ c.opened
        <5>1. x.form \in Forms /\ ~Refuses(c, x) BY DEF Ready
        <5>2. x.form = "text" /\ x.name = "blank"
          BY <4>1, <5>1 DEF Refuses, IsTag, Forms, Outside
        <5> QED BY <5>2 DEF Refuses
      <4>2. CASE ~(c.closed /\ c.opened)
        <5>1. d = c BY <1>5, <2>5, <4>2 DEF Sees
        <5> QED BY <5>1 DEF Ready
      <4> QED BY <4>1, <4>2
    <3>2. After(d, x) = d BY OtherEffect
    <3>3. e = Event(e.kind, at, x) BY <1>2
    <3>4. From(d, p, d) BY FromIdle DEF Ready
    <3>5. From(d, n, d) BY <1>2, <2>1, <3>1, <3>2, <3>3, <3>4, FromCopy DEF Ready
    <3> QED BY <1>5, <2>2, <2>5, <3>5 DEF Sees
  <2> QED BY <1>1, <2>3, <2>4, <2>5 DEF Goes
<1> QED BY <1>3, <1>4, <1>5

\* Elements that are no boundaries.
LEMMA ValueEffect ==
    ASSUME NEW c, Legal(c), NEW x, IsTag(x), ~Refuses(c, x), x.name \notin Boundary,
           NEW b, b = After(c, x)
    PROVE  /\ b.opened = c.opened /\ b.closed = c.closed /\ b.seenData = c.seenData
           /\ b.inData = c.inData /\ b.inRow = c.inRow /\ b.inCell = c.inCell
           /\ c.opened /\ ~c.closed
           /\ ~c.inCell \/ x.name = "dimension" => b = c
<1>1. c \in Context BY DEF Legal
<1>2. c.opened /\ ~c.closed BY TagEffect DEF Boundary
<1>3. ~(IsValueName(x.name) /\ c.inCell) => b = c BY TagEffect
<1>4. b = c \/ (\E name : b = [c EXCEPT !.value = name])
  <2>1. IsValueName(x.name) /\ c.inCell =>
          b = c \/ b = [c EXCEPT !.value = x.name] \/ b = [c EXCEPT !.value = ""]
    BY TagEffect
  <2> QED BY <1>3, <2>1
<1>5. /\ b.opened = c.opened /\ b.closed = c.closed /\ b.seenData = c.seenData
      /\ b.inData = c.inData /\ b.inRow = c.inRow /\ b.inCell = c.inCell
  BY <1>1, <1>4 DEF Context
<1>6. x.name = "dimension" => ~IsValueName(x.name) BY DEF IsValueName
<1> QED BY <1>2, <1>3, <1>5, <1>6

LEMMA ReadyPatch ==
    ASSUME NEW c, NEW p, NEW at, NEW x, Ready(c, p, at, x), NEW e, NEW n,
           n = Consumed(p, request.upsert, wanted, e)
    PROVE  IsPatch(p) /\ IsPatch(n) /\ n.replacing \in BOOLEAN /\ DOMAIN n = PatchFields
<1>1. IsPatch(p) BY EmptyList DEF Ready, Steady, IsPatch
<1>2. Selectors(wanted) BY DEF Ready, Placed
<1>3. IsPatch(n) BY <1>1, <1>2, ConsumedFollows DEF Follows
<1> QED BY <1>1, <1>3 DEF IsPatch

\* Inside a cell that is replaced only its end is a boundary.
LEMMA InsideBoundary ==
    ASSUME NEW c, NEW p, NEW at, NEW x, Ready(c, p, at, x), p.replacing, IsTag(x),
           x.name \in Boundary
    PROVE  x.name = "c" /\ x.form = "close"
<1>1. c.inCell /\ Legal(c) /\ ~Refuses(c, x) BY DEF Ready, Steady
<1>2. c.opened /\ ~c.closed /\ c.inData /\ c.inRow /\ c.seenData BY <1>1 DEF Legal
<1>3. ~(x.name = "worksheet") BY <1>1, <1>2, TagEffect
<1>4. ~(x.name = "sheetData") BY <1>1, <1>2, TagEffect
<1>5. ~(x.name = "row") BY <1>1, <1>2, TagEffect
<1>6. x.name = "c" => x.form = "close" BY <1>1, <1>2, TagEffect
<1> QED BY <1>3, <1>4, <1>5, <1>6 DEF Boundary

LEMMA DroppedEndGoes ==
    ASSUME NEW c, NEW p, NEW at, NEW x, Ready(c, p, at, x), p.replacing, IsTag(x),
           x.name = "c", x.form = "close", NEW kind, kind = "CellEnd", NEW n,
           Dropped(p, n, kind), n.replacing \in BOOLEAN
    PROVE  Goes(c, p, x, n)
<1>1. Legal(c) /\ ~Refuses(c, x) /\ c.inCell /\ Steady(c, p) /\ p.actions = << >>
  BY DEF Ready, Steady
<1>2. c.opened /\ ~c.closed /\ c.inData /\ c.inRow /\ c \in Context BY <1>1 DEF Legal
<1>3. PICK b : b = After(c, x) OBVIOUS
<1>4. b = [c EXCEPT !.inCell = FALSE] BY <1>1, <1>3, TagEffect
<1>5. /\ b.opened /\ ~b.closed /\ b.inData /\ b.inRow /\ ~b.inCell
      /\ b.seenData = c.seenData
  BY <1>2, <1>4 DEF Context
<1>6. Legal(b) BY <1>1, <1>3, LegalStep
<1>7. b = InRowContext BY <1>5, <1>6, LegalPlaces
<1>8. ~n.replacing /\ n.actions = p.actions /\ n.matched = p.matched BY DEF Dropped
<1>9. p.replacing \in BOOLEAN BY DEF Ready, Steady
<1>10. Recalls(p, n) BY <1>9 DEF Dropped, Recalls
<1>11. Steady(b, n) BY <1>1, <1>2, <1>5, <1>8, <1>10, SteadyKept
<1>12. Doomed(c, p) => Doomed(b, n) BY <1>2 DEF Doomed
<1>13. ASSUME NEW d, Sees(c, p, d) PROVE Sees(b, n, b) /\ From(d, n, b)
  <2>1. d = b BY <1>7, <1>13 DEF Sees
  <2>2. From(d, n, d) BY <1>1, <1>8, FromIdle, FromKept
  <2> QED BY <1>5, <1>8, <2>1, <2>2 DEF Sees
<1> QED BY <1>3, <1>11, <1>12, <1>13 DEF Goes

LEMMA DroppedGoes ==
    ASSUME NEW c, NEW p, NEW at, NEW x, Ready(c, p, at, x), p.replacing, IsTag(x),
           x.name \notin Boundary, NEW n, Recalls(p, n), n.replacing, n.actions = p.actions
    PROVE  Goes(c, p, x, n)
<1>1. Legal(c) /\ ~Refuses(c, x) /\ c.inCell /\ Steady(c, p) /\ p.actions = << >>
  BY DEF Ready, Steady
<1>2. c.opened /\ ~c.closed /\ c.inData /\ c.inRow BY <1>1 DEF Legal
<1>3. PICK b : b = After(c, x) OBVIOUS
<1>4. b.inCell /\ b.seenData = c.seenData BY <1>1, <1>3, ValueEffect
<1>5. Steady(b, n) BY <1>1, <1>2, <1>4, SteadyKept
<1>6. Doomed(c, p) => Doomed(b, n) BY <1>2 DEF Doomed
<1>7. ASSUME NEW d, Sees(c, p, d) PROVE Sees(b, n, d) /\ From(d, n, d)
  <2>1. d = InRowContext BY <1>7 DEF Sees
  <2>2. From(d, n, d) BY <1>1, FromIdle, FromKept
  <2> QED BY <2>1, <2>2 DEF Sees
<1> QED BY <1>3, <1>5, <1>6, <1>7 DEF Goes

\* Elements that are no boundaries, outside cells that are replaced.
LEMMA ElementGoes ==
    ASSUME NEW c, NEW p, NEW at, NEW x, Ready(c, p, at, x), ~p.replacing, IsTag(x),
           x.name \notin Boundary, NEW b, b = After(c, x), NEW n, Recalls(p, n), ~n.replacing,
           From(c, n, b)
    PROVE  Goes(c, p, x, n)
<1>1. Legal(c) /\ ~Refuses(c, x) /\ Steady(c, p) BY DEF Ready, Steady
<1>2. ~c.closed /\ b.closed = c.closed /\ b.seenData = c.seenData /\ b.inData = c.inData
  BY <1>1, ValueEffect
<1>3. Steady(b, n) BY <1>1, <1>2, SteadyKept
<1>4. Doomed(c, p) => Doomed(b, n) BY <1>2, DoomedAtTag DEF Recalls
<1>5. Sees(b, n, b) BY <1>2 DEF Sees
<1> QED BY <1>2, <1>3, <1>4, <1>5, Concludes

LEMMA PassedRecalls ==
    ASSUME NEW p, p.replacing \in BOOLEAN, NEW n, NEW e, PassedOn(p, n, e)
    PROVE  Recalls(p, n) /\ n.replacing = p.replacing
BY Recalling DEF PassedOn

LEMMA MarkupGoes ==
    ASSUME NEW c, NEW p, NEW at, NEW x, Ready(c, p, at, x), ~p.replacing, IsTag(x),
           x.name \notin Boundary, NEW e, e = Event(e.kind, at, x), NEW n, PassedOn(p, n, e),
           e.kind \in {"CellValueMarkup", "Metadata"},
           e.kind = "Metadata" => x.name # "dimension" \/ x.form # "open"
    PROVE  Goes(c, p, x, n)
<1>1. /\ Legal(c) /\ ~Refuses(c, x) /\ Steady(c, p) /\ p.actions = << >>
      /\ p.replacing \in BOOLEAN /\ source[at] = x
  BY DEF Ready, Steady
<1>2. PICK b : b = After(c, x) OBVIOUS
<1>3. Recalls(p, n) /\ ~n.replacing BY <1>1, PassedRecalls
<1>4. From(c, p, c) BY <1>1, FromIdle
<1>5. CASE e.kind = "CellValueMarkup"
  <2>1. From(c, n, b) BY <1>1, <1>2, <1>4, <1>5, FromCopy
  <2> QED BY <1>2, <1>3, <2>1, ElementGoes
<1>6. CASE e.kind = "Metadata"
  <2>1. ~Outside(c) /\ (x.name = "dimension" => After(c, x) = c)
    BY <1>1, ValueEffect DEF Outside
  <2>2. PICK q : q = <<Action("copy", Event("Metadata", at, x))>> OBVIOUS
  <2>3. Path("quiet", c, q, b) BY <1>1, <1>2, <1>6, <2>1, <2>2, MetadataPath
  <2>4. q = PassThrough(e) BY <1>6, <2>2 DEF PassThrough
  <2>5. Extends(p, n, q) BY <2>4 DEF PassedOn
  <2>6. From(c, n, b) BY <1>4, <2>3, <2>5, FromExtends
  <2> QED BY <1>2, <1>3, <2>6, ElementGoes
<1> QED BY <1>5, <1>6

\* All that patch n emits is the opening tag of a dimension.
OpensOne(c, n) ==
    \E a : /\ n.actions = <<a>> /\ IsDimension(a) /\ ~a.closing /\ ~a.self
          /\ Path("action", c, <<a>>, c)

\* The opening tag of a dimension.
LEMMA DimensionOpens ==
    ASSUME NEW c, NEW p, NEW at, NEW x, Ready(c, p, at, x), ~p.replacing, IsTag(x),
           x.name = "dimension", x.form = "open", NEW kind, kind = "Metadata",
           NEW e, e = Event(kind, at, x), NEW n, PassedOn(p, n, e)
    PROVE  /\ After(c, x) = c /\ Steady(c, n) /\ (Doomed(c, p) => Doomed(c, n))
           /\ Sees(c, p, c) /\ Sees(c, n, c) /\ ~n.replacing
           /\ OpensOne(c, n)
<1>1. /\ Legal(c) /\ ~Refuses(c, x) /\ Steady(c, p) /\ p.actions = << >>
      /\ p.replacing \in BOOLEAN /\ source[at] = x
  BY DEF Ready, Steady
<1>2. x.name \notin Boundary BY DEF Boundary
<1>3. After(c, x) = c /\ ~c.closed /\ c.opened BY <1>1, <1>2, ValueEffect
<1>4. Recalls(p, n) /\ ~n.replacing BY <1>1, PassedRecalls
<1>5. Steady(c, n) BY <1>1, <1>4, SteadyKept
<1>6. Doomed(c, p) => Doomed(c, n) BY <1>4 DEF Doomed, Recalls
<1>7. Sees(c, p, c) /\ Sees(c, n, c) BY <1>3, <1>4 DEF Sees
<1>8. PICK a : a = Action("copy", Event("Metadata", at, x)) OBVIOUS
<1>9. /\ a.kind = "Metadata" /\ a.name = "dimension" /\ a.self = (x.form = "self")
      /\ a.closing = (x.form = "close")
  BY <1>8 DEF Action, Event
<1>10. IsDimension(a) /\ ~a.closing /\ ~a.self BY <1>9 DEF IsDimension
<1>11. Path("action", c, <<a>>, c) BY <1>1, <1>3, <1>8, MetadataPath DEF Outside
<1>12. n.actions = <<a>>
  <2>1. n.actions = << >> \o PassThrough(e) BY <1>1 DEF PassedOn, Extends
  <2>2. PassThrough(e) = <<a>> BY <1>8 DEF PassThrough
  <2>3. PICK S : a \in S BY DEF PassThrough
  <2>4. <<a>> \in Seq(S) BY <2>3
  <2>5. << >> \o <<a>> = <<a>> BY <2>4, ConcatEmptySeq
  <2> QED BY <2>1, <2>2, <2>5
<1>13. OpensOne(c, n) BY <1>10, <1>11, <1>12 DEF OpensOne
<1> QED BY <1>3, <1>4, <1>5, <1>6, <1>7, <1>13

-----------------------------------------------------------------------------
(* The boundaries of the worksheet and of its data.                        *)

LEMMA ConsumedIs ==
    ASSUME NEW p, NEW e, NEW n, n = Consumed(p, request.upsert, wanted, e)
    PROVE  /\ request.upsert => n = Upserting(p, wanted, e)
           /\ ~request.upsert => n = Replacing(p, wanted, e)
BY DEF Consumed

\* What FromCopy says, of an action behind others.
LEMMA FromBehind ==
    ASSUME NEW a, NEW p, NEW c, From(a, p, c), NEW n, NEW q, NEW e,
           Extends(p, n, q \o PassThrough(e)), NEW g, Path("quiet", c, q, g),
           NEW at, NEW x, source[at] = x, ~Refuses(g, x), e = Event(e.kind, at, x),
           e.kind # "Metadata", e.kind = "WorksheetStart" => ~Outside(After(g, x)),
           NEW d, d = After(g, x)
    PROVE  From(a, n, d)
<1>1. PICK r : r = PassThrough(e) OBVIOUS
<1>2. Path("quiet", g, r, d) BY <1>1, CopyAs
<1>3. Extends(p, n, q \o r) BY <1>1
<1> QED BY <1>2, <1>3, FromBoth

LEMMA FromCopied ==
    ASSUME NEW a, NEW p, NEW c, From(a, p, c), NEW n, NEW e, Extends(p, n, PassThrough(e)),
           NEW at, NEW x, source[at] = x, ~Refuses(c, x), e = Event(e.kind, at, x),
           e.kind # "Metadata", e.kind = "WorksheetStart" => ~Outside(After(c, x)),
           NEW d, d = After(c, x)
    PROVE  From(a, n, d)
<1>1. PICK r : r = PassThrough(e) OBVIOUS
<1>2. Path("quiet", c, r, d) BY <1>1, CopyAs
<1> QED BY <1>1, <1>2, FromExtends

LEMMA WorksheetOpens ==
    ASSUME NEW c, NEW p, NEW at, NEW x, Ready(c, p, at, x), ~p.replacing, IsTag(x),
           x.name = "worksheet", x.form = "open", NEW e, e = Event(e.kind, at, x),
           e.kind = "WorksheetStart", NEW n, n = Consumed(p, request.upsert, wanted, e)
    PROVE  Goes(c, p, x, n)
<1>1. /\ Legal(c) /\ ~Refuses(c, x) /\ Steady(c, p) /\ p.actions = << >>
      /\ p.replacing \in BOOLEAN /\ source[at] = x /\ DOMAIN p = PatchFields
  BY DEF Ready, Steady
<1>2. PICK out, b : out \in BOOLEAN /\ out = (x.form # "self") /\ b = After(c, x) OBVIOUS
<1>3. /\ ~c.opened /\ ~c.closed /\ b = [c EXCEPT !.opened = TRUE, !.closed = ~out] /\ out
  BY <1>1, <1>2, TagEffect
<1>4. c \in Context /\ ~c.seenData BY <1>1, <1>3 DEF Legal
<1>5. b.opened /\ ~b.closed /\ b.seenData = c.seenData BY <1>3, <1>4 DEF Context
<1>6. PassedOn(p, n, e)
  <2>1. CASE request.upsert
    <3>1. n = Upserting(p, wanted, e) BY <2>1, ConsumedIs
    <3>2. PICK pending : pending = Pending(p, wanted) OBVIOUS
    <3>3. ~e.self
      <4>1. PICK kind : kind = e.kind OBVIOUS
      <4>2. e.self = (x.form = "self") BY <4>1, FieldsOf
      <4> QED BY <4>2
    <3>4. Took(p, n, {}) /\ Extends(p, n, PassThrough(e))
      BY <1>1, <3>1, <3>2, <3>3, UpsertingWorksheet
    <3> QED BY <3>4 DEF PassedOn
  <2>2. CASE ~request.upsert
    BY <1>1, <2>2, ConsumedOther
  <2> QED BY <2>1, <2>2
<1>7. Recalls(p, n) /\ ~n.replacing BY <1>1, <1>6, PassedRecalls
<1>8. Steady(b, n) BY <1>1, <1>3, <1>5, <1>7, SteadyKept
<1>9. Doomed(c, p) => Doomed(b, n) BY <1>3, <1>4 DEF Doomed
<1>10. From(c, n, b)
  <2>1. From(c, p, c) BY <1>1, FromIdle
  <2>2. ~Outside(b) BY <1>5 DEF Outside
  <2> QED BY <1>1, <1>2, <1>6, <2>1, <2>2, FromCopy
<1>11. Sees(b, n, b) BY <1>5, <1>7 DEF Sees
<1> QED BY <1>2, <1>3, <1>8, <1>9, <1>10, <1>11, Concludes

\* A worksheet without data gets them at its end.
LEMMA UpsertingEnd ==
    ASSUME NEW p, DOMAIN p = PatchFields, ~p.replacing, NEW targets, NEW e,
           NEW pending, pending = Pending(p, targets), NEW n, n = Upserting(p, targets, e),
           e.kind = "WorksheetEnd", p.suppress = "", ~p.seenData, NEW q,
           q = SyntheticData(pending) \o PassThrough(e)
    PROVE  Took(p, n, pending) /\ Extends(p, n, q)
<1>1. n = Inserting(p, pending, q) BY DEF Upserting, UpsertWorksheetEnd
<1> QED BY <1>1, InsertingTakes

LEMMA WorksheetCloses ==
    ASSUME NEW c, NEW p, NEW at, NEW x, Ready(c, p, at, x), ~p.replacing, IsTag(x),
           x.name = "worksheet", x.form = "close", NEW e, e = Event(e.kind, at, x),
           e.kind = "WorksheetEnd", NEW n, n = Consumed(p, request.upsert, wanted, e)
    PROVE  Goes(c, p, x, n)
<1>1. /\ Legal(c) /\ ~Refuses(c, x) /\ Steady(c, p) /\ p.actions = << >>
      /\ p.replacing \in BOOLEAN /\ source[at] = x /\ DOMAIN p = PatchFields /\ Placed
      /\ p.suppress = ""
  BY DEF Ready, Steady
<1>2. PICK b : b = After(c, x) OBVIOUS
<1>3. ~c.inData /\ ~c.inRow /\ ~c.inCell /\ ~c.closed /\ b = [c EXCEPT !.closed = TRUE]
  BY <1>1, <1>2, TagEffect
<1>4. c \in Context /\ c.value = "" BY <1>1, <1>3 DEF Legal
<1>5. /\ b.closed /\ b.seenData = c.seenData /\ ~b.inData /\ b.opened = c.opened
      /\ ~b.inRow /\ ~b.inCell /\ b.value = "" /\ b \in Context
  BY <1>3, <1>4 DEF Context
<1>6. b.opened => Over(b) BY <1>5 DEF Over, RefusesEnd
<1>7. From(c, p, c) BY <1>1, FromIdle
<1>8. CASE PassedOn(p, n, e)
  <2>0. p.replacing \in BOOLEAN BY <1>1
  <2>1. Recalls(p, n) /\ ~n.replacing BY <1>8, <2>0, PassedRecalls
  <2>2. Steady(b, n) BY <1>1, <1>3, <1>5, <2>1, SteadyKept
  <2>3. Doomed(c, p) => Doomed(b, n) BY <1>3, <1>5, <2>1 DEF Doomed, Recalls
  <2>4. From(c, n, b) BY <1>1, <1>2, <1>7, <1>8, FromCopy
  <2>5. ~Doomed(b, n) => Sees(b, n, b) BY <1>5, <1>6, <2>1 DEF Sees, Doomed
  <2> QED BY <1>2, <1>3, <2>2, <2>3, <2>4, <2>5, Concludes
<1>9. CASE request.upsert /\ ~p.seenData
  <2>1. n = Upserting(p, wanted, e) BY <1>9, ConsumedIs
  <2>2. PICK pending : pending = Pending(p, wanted) OBVIOUS
  <2>3. Took(p, n, pending) /\ Extends(p, n, SyntheticData(pending) \o PassThrough(e))
    <3>1. PICK q : q = SyntheticData(pending) \o PassThrough(e) OBVIOUS
    <3>2. Took(p, n, pending) /\ Extends(p, n, q)
      BY <1>1, <1>9, <2>1, <2>2, <3>1, UpsertingEnd
    <3> QED BY <3>1, <3>2
  <2>4. ~c.seenData BY <1>1, <1>9 DEF Steady
  <2>5. Steady(b, n) BY <1>1, <1>5, <1>9, <2>3, <2>4 DEF Steady, Took
  <2>6. ~Doomed(c, p) BY <1>3, <1>9 DEF Doomed
  <2>7. ASSUME PayloadsFit, ~Doomed(b, n) PROVE \E f : Sees(b, n, f) /\ From(c, n, f)
    <3>1. c.opened BY <1>5, <2>7 DEF Doomed
    <3>2. pending \subseteq wanted /\ Selectors(pending)
      <4>1. pending \in SUBSET wanted BY <2>2 DEF Pending
      <4> QED BY <1>1, <4>1, SelectorsPart DEF Placed
    <3>3. PICK q, g : q = SyntheticData(pending) /\ g = IF pending = {} THEN c ELSE BehindData
      OBVIOUS
    <3>4. Path("quiet", c, q, g)
      BY <1>1, <1>3, <2>4, <2>7, <3>1, <3>2, <3>3, DataPath DEF Placed
    <3>5. PICK f : f = After(g, x) OBVIOUS
    <3>6. ~Refuses(g, x) /\ Over(f)
      <4>1. CASE g = c BY <1>1, <1>2, <1>5, <1>6, <3>1, <3>5, <4>1
      <4>2. CASE g = BehindData
        <5>1. /\ g.opened /\ ~g.closed /\ ~g.inData /\ ~g.inRow /\ ~g.inCell /\ g.value = ""
              /\ g \in Context
          BY <4>2 DEF BehindData, InDataContext, Context
        <5>2. ~Refuses(g, x) BY <5>1 DEF Refuses, RefusesClosing, IsValueName
        <5>3. Legal(g) BY <5>1 DEF Legal
        <5>4. f = [g EXCEPT !.closed = TRUE] BY <3>5, <5>2, <5>3, TagEffect
        <5>5. /\ f.opened /\ f.closed /\ ~f.inData /\ ~f.inRow /\ ~f.inCell /\ f.value = ""
              /\ f \in Context
          BY <5>1, <5>4 DEF Context
        <5> QED BY <5>2, <5>5 DEF Over, RefusesEnd
      <4> QED BY <3>3, <4>1, <4>2
    <3>7. Extends(p, n, q \o PassThrough(e)) BY <2>3, <3>3
    <3>8. From(c, n, f) BY <1>1, <1>7, <3>4, <3>5, <3>6, <3>7, FromBehind
    <3>9. ~n.replacing BY <2>3 DEF Took
    <3> QED BY <1>5, <3>1, <3>6, <3>8, <3>9 DEF Sees
  <2> QED BY <1>2, <1>3, <2>5, <2>6, <2>7, Concludes
<1>10. PassedOn(p, n, e) \/ (request.upsert /\ ~p.seenData)
  <2>1. CASE request.upsert /\ p.seenData
    <3>1. n = Upserting(p, wanted, e) BY <2>1, ConsumedIs
    <3>2. PICK pending : pending = Pending(p, wanted) OBVIOUS
    <3>3. Took(p, n, {}) /\ Extends(p, n, PassThrough(e))
      BY <1>1, <2>1, <3>1, <3>2, UpsertingWorksheet
    <3> QED BY <3>3 DEF PassedOn
  <2>2. CASE ~request.upsert BY <1>1, <2>2, ConsumedOther
  <2> QED BY <2>1, <2>2
<1> QED BY <1>8, <1>9, <1>10


\* An event that expands its piece and the one of the piece's end.
Widens(p, n, refs, r) ==
    /\ DOMAIN n = PatchFields
    /\ n.matched = p.matched /\ n.inserted = p.inserted \cup refs
    /\ n.suppress = "" /\ n.replacing = p.replacing
    /\ Extends(p, n, r)

LEMMA WidenedPatch ==
    ASSUME NEW p, NEW g, NEW refs, NEW r, Took(p, g, refs), Extends(p, g, r), NEW n,
           DOMAIN n = PatchFields, n.matched = g.matched, n.inserted = g.inserted,
           n.replacing = g.replacing, n.actions = g.actions, n.suppress = ""
    PROVE  Widens(p, n, refs, r)
<1>1. Extends(p, n, r) BY DEF Extends
<1> QED BY <1>1 DEF Took, Widens

LEMMA UpsertingBareWorksheet ==
    ASSUME NEW p, DOMAIN p = PatchFields, ~p.replacing, NEW targets, NEW pending,
           pending = Pending(p, targets), pending # {}, NEW e, e.self, NEW f,
           NEW m, m = Upserting(p, targets, e), NEW n, n = Upserting(m, targets, f),
           e.kind = "WorksheetStart", f.kind = "WorksheetEnd", NEW end, end = "WorksheetEnd",
           NEW r, r = Expanded(e, end, SyntheticData(pending))
    PROVE  Widens(p, n, pending, r) /\ n.seenData = p.seenData
<1>1. PICK none, g : none = "" /\ g = Inserting(p, pending, r) OBVIOUS
<1>2. Took(p, g, pending) /\ Extends(p, g, r) BY <1>1, InsertingTakes
<1>3. m = [g EXCEPT !.suppress = end] BY <1>1 DEF Upserting, UpsertWorksheetStart
<1>4. DOMAIN g = PatchFields /\ g.replacing = p.replacing /\ g.seenData = p.seenData
  BY <1>2 DEF Took
<1>5. /\ DOMAIN m = PatchFields /\ m.matched = g.matched /\ m.inserted = g.inserted
      /\ m.suppress = end /\ m.replacing = g.replacing /\ m.actions = g.actions
      /\ m.seenData = g.seenData
  BY <1>3, <1>4 DEF PatchFields
<1>6. ~m.replacing /\ m.suppress = f.kind BY <1>4, <1>5
<1>7. n = [m EXCEPT !.suppress = none] BY <1>1, <1>6 DEF Upserting, UpsertWorksheetEnd
<1>8. /\ DOMAIN n = PatchFields /\ n.matched = g.matched /\ n.inserted = g.inserted
      /\ n.replacing = g.replacing /\ n.actions = g.actions /\ n.suppress = none
      /\ n.seenData = p.seenData
  BY <1>4, <1>5, <1>7 DEF PatchFields
<1>9. n.suppress = "" BY <1>1, <1>8
<1>10. Widens(p, n, pending, r) BY <1>2, <1>8, <1>9, WidenedPatch
<1> QED BY <1>8, <1>10

LEMMA UpsertingBareData ==
    ASSUME NEW p, DOMAIN p = PatchFields, ~p.replacing, NEW targets, NEW pending,
           pending = Pending(p, targets), pending # {}, NEW e, e.self, NEW f,
           NEW m, m = Upserting(p, targets, e), NEW n, n = Upserting(m, targets, f),
           e.kind = "SheetDataStart", f.kind = "SheetDataEnd", NEW end, end = "SheetDataEnd",
           NEW r, r = Expanded(e, end, SyntheticRows(pending))
    PROVE  Widens(p, n, pending, r) /\ n.seenData = TRUE
<1>1. PICK none, g, seen : /\ none = "" /\ g = Inserting(p, pending, r)
                           /\ seen = TRUE
  OBVIOUS
<1>2. Took(p, g, pending) /\ Extends(p, g, r) BY <1>1, InsertingTakes
<1>3. m = [g EXCEPT !.seenData = seen, !.suppress = end]
  BY <1>1 DEF Upserting, UpsertDataStart
<1>4. DOMAIN g = PatchFields /\ g.replacing = p.replacing BY <1>2 DEF Took
<1>5. /\ DOMAIN m = PatchFields /\ m.matched = g.matched /\ m.inserted = g.inserted
      /\ m.suppress = end /\ m.replacing = g.replacing /\ m.actions = g.actions
      /\ m.seenData = seen
  BY <1>3, <1>4 DEF PatchFields
<1>6. ~m.replacing /\ m.suppress = f.kind BY <1>4, <1>5
<1>7. n = [m EXCEPT !.suppress = none] BY <1>1, <1>6 DEF Upserting, UpsertDataEnd
<1>8. /\ DOMAIN n = PatchFields /\ n.matched = g.matched /\ n.inserted = g.inserted
      /\ n.replacing = g.replacing /\ n.actions = g.actions /\ n.suppress = none
      /\ n.seenData = seen
  BY <1>4, <1>5, <1>7 DEF PatchFields
<1>9. n.suppress = "" BY <1>1, <1>8
<1>10. Widens(p, n, pending, r) BY <1>2, <1>8, <1>9, WidenedPatch
<1>11. n.seenData = TRUE BY <1>1, <1>8
<1> QED BY <1>10, <1>11

\* A self-closing worksheet, without and with data to insert.
LEMMA WorksheetIsBare ==
    ASSUME NEW c, NEW p, NEW at, NEW x, Ready(c, p, at, x), ~p.replacing, IsTag(x),
           x.name = "worksheet", x.form = "self", NEW e, e = Event(e.kind, at, x),
           e.kind = "WorksheetStart", NEW f, f = Event(f.kind, at, x), f.kind = "WorksheetEnd",
           NEW m, m = Consumed(p, request.upsert, wanted, e),
           NEW n, n = Consumed(m, request.upsert, wanted, f)
    PROVE  Goes(c, p, x, n)
<1>1. /\ Legal(c) /\ ~Refuses(c, x) /\ Steady(c, p) /\ p.actions = << >>
      /\ p.replacing \in BOOLEAN /\ source[at] = x /\ DOMAIN p = PatchFields /\ Placed
      /\ p.suppress = "" /\ x \in [form : Forms, name : STRING, ref : Refs, bytes : Nat]
  BY DEF Ready, Steady
<1>2. PICK out, b : out \in BOOLEAN /\ out = (x.form # "self") /\ b = After(c, x) OBVIOUS
<1>3. /\ ~c.opened /\ ~c.closed /\ b = [c EXCEPT !.opened = TRUE, !.closed = ~out] /\ ~out
  BY <1>1, <1>2, TagEffect
<1>4. c \in Context /\ ~c.seenData BY <1>1, <1>3 DEF Legal
<1>5. b.opened /\ b.closed /\ b.seenData = c.seenData BY <1>3, <1>4 DEF Context
<1>6. p.matched = {} /\ p.inserted = {} BY <1>1, <1>3, <1>4 DEF Steady
<1>7. ~Doomed(c, p) BY <1>3, <1>4 DEF Doomed
<1>8. CASE ~request.upsert
  <2>1. PassedOn(p, m, e) BY <1>1, <1>8, ConsumedOther
  <2>2. DOMAIN m = PatchFields /\ ~m.replacing BY <2>1 DEF PassedOn, Took
  <2>3. PassedOn(m, n, f) BY <1>8, <2>2, ConsumedOther
  <2>4. Steady(b, n) BY <1>1, <1>5, <1>6, <1>8, <2>1, <2>3 DEF PassedOn, Took, Steady
  <2>5. Doomed(b, n) BY <1>5, <1>6, <1>8, <2>1, <2>3 DEF PassedOn, Took, Doomed
  <2> QED BY <1>2, <1>3, <2>4, <2>5, Concludes
<1>9. CASE request.upsert
  <2>1. m = Upserting(p, wanted, e) /\ n = Upserting(m, wanted, f) BY <1>9, ConsumedIs
  <2>2. PICK pending : pending = Pending(p, wanted) OBVIOUS
  <2>3. pending = wanted BY <1>6, <2>2 DEF Pending
  <2>4. e.self
    <3>1. PICK kind : kind = e.kind OBVIOUS
    <3>2. e.self = (x.form = "self") BY <3>1, FieldsOf
    <3> QED BY <3>2
  <2>4a. PICK r, end : end = "WorksheetEnd" /\ r = Expanded(e, end, SyntheticData(pending))
    OBVIOUS
  <2>5. Widens(p, n, pending, r) /\ n.seenData = p.seenData
    <3>1. pending # {} BY <1>1, <2>3 DEF Placed
    <3>2. PICK targets : targets = wanted OBVIOUS
    <3>3. m = Upserting(p, targets, e) /\ n = Upserting(m, targets, f) BY <2>1, <3>2
    <3>4. pending = Pending(p, targets) BY <2>2, <3>2
    <3>5. DOMAIN p = PatchFields /\ ~p.replacing BY <1>1
    <3>6. e.kind = "WorksheetStart" /\ f.kind = "WorksheetEnd" OBVIOUS
    <3> HIDE DEF wanted
    <3> QED BY ONLY <2>4, <2>4a, <3>1, <3>3, <3>4, <3>5, <3>6, UpsertingBareWorksheet
  <2>6. PICK q : q = SyntheticData(pending) OBVIOUS
  <2>9. /\ DOMAIN n = PatchFields /\ ~n.replacing /\ n.suppress = "" /\ n.matched = {}
        /\ n.seenData = p.seenData /\ n.replacing \in BOOLEAN
    BY <1>1, <1>6, <2>5 DEF Widens
  <2>10. Steady(b, n) BY <1>1, <1>5, <1>9, <2>9 DEF Steady
  <2>11. ASSUME PayloadsFit PROVE \E g : Sees(b, n, g) /\ From(c, n, g)
    <3>1. PICK y, z : y = [x EXCEPT !.form = "open"] /\ z = [x EXCEPT !.form = "close"] OBVIOUS
    <3>2. /\ y.form = "open" /\ y.name = "worksheet" /\ z.form = "close"
          /\ z.name = "worksheet"
      BY <1>1, <3>1
    <3>3. ~Refuses(c, y) BY <1>3, <3>2 DEF Refuses, RefusesOpening, IsValueName
    <3>4. PICK h : h = After(c, y) OBVIOUS
    <3>5. PICK wide \in BOOLEAN : wide = (y.form # "self") OBVIOUS
    <3>5a. h = [c EXCEPT !.opened = TRUE, !.closed = ~wide] /\ wide
      <4>1. IsTag(y) BY <3>2 DEF IsTag
      <4>2. wide BY <3>2, <3>5
      <4>3. h = [c EXCEPT !.opened = TRUE, !.closed = ~wide]
        BY <1>1, <3>2, <3>3, <3>4, <3>5, <4>1, TagEffect
      <4> QED BY <4>2, <4>3
    <3>6. h.opened /\ ~h.closed /\ ~h.seenData BY <1>4, <3>5a DEF Context
    <3>7. Legal(h) BY <1>1, <3>3, <3>4, LegalStep
    <3>8. PICK g : g = BehindData OBVIOUS
    <3>9. Path("quiet", h, q, g)
      <4>1. Selectors(wanted) /\ wanted # {} BY <1>1 DEF Placed
      <4> QED BY <1>1, <2>3, <2>6, <2>11, <3>6, <3>7, <3>8, <4>1, DataPath DEF Placed
    <3>10. /\ g.opened /\ ~g.closed /\ ~g.inData /\ ~g.inRow /\ ~g.inCell /\ g.value = ""
           /\ g \in Context
      BY <3>8 DEF BehindData, InDataContext, Context
    <3>11. ~Refuses(g, z) BY <3>2, <3>10 DEF Refuses, RefusesClosing, IsValueName
    <3>12. PICK k : k = After(g, z) OBVIOUS
    <3>13. k = [g EXCEPT !.closed = TRUE]
      BY <3>2, <3>12 DEF After, AfterClosing, IsValueName
    <3>14. Over(k)
      <4>1. /\ k.opened /\ k.closed /\ ~k.inData /\ ~k.inRow /\ ~k.inCell /\ k.value = ""
            /\ k \in Context
        BY <3>10, <3>13 DEF Context
      <4> QED BY <4>1 DEF Over, RefusesEnd
    <3>15. PICK kind : kind = e.kind OBVIOUS
    <3>17. Path("quiet", c, r, k)
      <4>1. {kind, end} \cap {"Metadata"} = {} /\ end # "WorksheetStart" BY <2>4a, <3>15
      <4>2. ~Outside(After(c, y)) BY <3>4, <3>6 DEF Outside
      <4>3. Path("quiet", c, Expanded(Event(kind, at, x), end, q), After(g, z))
        BY <1>1, <3>1, <3>3, <3>4, <3>9, <3>11, <4>1, <4>2, ExpandedPath
      <4> QED BY <2>4a, <2>6, <3>12, <3>15, <4>3
    <3>18. From(c, p, c) BY <1>1, FromIdle
    <3>19. From(c, n, k) BY <2>5, <3>17, <3>18, FromExtends DEF Widens
    <3> QED BY <1>5, <2>9, <3>14, <3>19 DEF Sees
  <2> QED BY <1>2, <1>3, <1>7, <2>10, <2>11, Concludes
<1> QED BY <1>8, <1>9

LEMMA DataOpens ==
    ASSUME NEW c, NEW p, NEW at, NEW x, Ready(c, p, at, x), ~p.replacing, IsTag(x),
           x.name = "sheetData", x.form = "open", NEW e, e = Event(e.kind, at, x),
           e.kind = "SheetDataStart", NEW n, n = Consumed(p, request.upsert, wanted, e)
    PROVE  Goes(c, p, x, n)
<1>1. /\ Legal(c) /\ ~Refuses(c, x) /\ Steady(c, p) /\ p.actions = << >>
      /\ p.replacing \in BOOLEAN /\ source[at] = x /\ DOMAIN p = PatchFields
      /\ p.suppress = ""
  BY DEF Ready, Steady
<1>2. PICK out, b : out \in BOOLEAN /\ out = (x.form # "self") /\ b = After(c, x) OBVIOUS
<1>3. /\ ~c.seenData /\ ~c.inData /\ b = [c EXCEPT !.seenData = TRUE, !.inData = out] /\ out
      /\ c.opened /\ ~c.closed
  BY <1>1, <1>2, TagEffect
<1>4. c \in Context BY <1>1 DEF Legal
<1>5. b.seenData = TRUE /\ ~b.closed BY <1>3, <1>4 DEF Context
<1>6. ~Doomed(c, p) BY <1>3 DEF Doomed
<1>7. /\ DOMAIN n = PatchFields /\ n.suppress = "" /\ ~n.replacing /\ n.replacing \in BOOLEAN
      /\ n.matched = p.matched /\ n.inserted = p.inserted
      /\ request.upsert => n.seenData = TRUE
      /\ Extends(p, n, PassThrough(e))
  <2>1. CASE request.upsert
    <3>1. n = Upserting(p, wanted, e) BY <2>1, ConsumedIs
    <3>2. PICK pending : pending = Pending(p, wanted) OBVIOUS
    <3>3. ~e.self
      <4>1. PICK kind : kind = e.kind OBVIOUS
      <4>2. e.self = (x.form = "self") BY <4>1, FieldsOf
      <4> QED BY <4>2
    <3>4. /\ TookAll(p, n, {}, p.suppress) /\ n.seenData = TRUE
          /\ Extends(p, n, PassThrough(e))
      BY <1>1, <3>1, <3>2, <3>3, UpsertingData
    <3> QED BY <1>1, <3>4 DEF TookAll
  <2>2. CASE ~request.upsert
    <3>1. PassedOn(p, n, e) BY <1>1, <2>2, ConsumedOther
    <3> QED BY <1>1, <2>2, <3>1 DEF PassedOn, Took
  <2> QED BY <2>1, <2>2
<1>8. Steady(b, n) BY <1>1, <1>5, <1>7 DEF Steady
<1>9. From(c, n, b)
  <2>1. From(c, p, c) BY <1>1, FromIdle
  <2>2. e.kind # "Metadata" /\ e.kind # "WorksheetStart" OBVIOUS
  <2> QED BY <1>1, <1>2, <1>7, <2>1, <2>2, FromCopied
<1>10. Sees(b, n, b) BY <1>5, <1>7 DEF Sees
<1> QED BY <1>2, <1>3, <1>6, <1>8, <1>9, <1>10, Concludes

\* Self-closing data.
LEMMA DataIsBare ==
    ASSUME NEW c, NEW p, NEW at, NEW x, Ready(c, p, at, x), ~p.replacing, IsTag(x),
           x.name = "sheetData", x.form = "self", NEW e, e = Event(e.kind, at, x),
           e.kind = "SheetDataStart", NEW f, f = Event(f.kind, at, x), f.kind = "SheetDataEnd",
           NEW m, m = Consumed(p, request.upsert, wanted, e),
           NEW n, n = Consumed(m, request.upsert, wanted, f)
    PROVE  Goes(c, p, x, n)
<1>1. /\ Legal(c) /\ ~Refuses(c, x) /\ Steady(c, p) /\ p.actions = << >>
      /\ p.replacing \in BOOLEAN /\ source[at] = x /\ DOMAIN p = PatchFields /\ Placed
      /\ p.suppress = "" /\ x \in [form : Forms, name : STRING, ref : Refs, bytes : Nat]
  BY DEF Ready, Steady
<1>2. PICK out, b : out \in BOOLEAN /\ out = (x.form # "self") /\ b = After(c, x) OBVIOUS
<1>3. /\ ~c.seenData /\ ~c.inData /\ b = [c EXCEPT !.seenData = TRUE, !.inData = out] /\ ~out
      /\ c.opened /\ ~c.closed
  BY <1>1, <1>2, TagEffect
<1>4. /\ c \in Context /\ ~c.inRow /\ ~c.inCell /\ c.value = ""
  BY <1>1, <1>3 DEF Legal
<1>5. /\ b.seenData = TRUE /\ ~b.closed /\ ~b.inData /\ b.opened /\ ~b.inRow /\ ~b.inCell
      /\ b.value = "" /\ b \in Context
  BY <1>2, <1>3, <1>4 DEF Context
<1>6. p.matched = {} /\ p.inserted = {} BY <1>1, <1>3 DEF Steady
<1>7. ~Doomed(c, p) BY <1>3 DEF Doomed
<1>8. CASE ~request.upsert
  <2>1. PassedOn(p, m, e) BY <1>1, <1>8, ConsumedOther
  <2>2. DOMAIN m = PatchFields /\ ~m.replacing BY <2>1 DEF PassedOn, Took
  <2>3. PassedOn(m, n, f) BY <1>8, <2>2, ConsumedOther
  <2>4. Steady(b, n) BY <1>1, <1>5, <1>6, <1>8, <2>1, <2>3 DEF PassedOn, Took, Steady
  <2>5. Doomed(b, n) BY <1>5, <1>6, <1>8, <2>1, <2>3 DEF PassedOn, Took, Doomed
  <2> QED BY <1>2, <1>3, <2>4, <2>5, Concludes
<1>9. CASE request.upsert
  <2>1. m = Upserting(p, wanted, e) /\ n = Upserting(m, wanted, f) BY <1>9, ConsumedIs
  <2>2. PICK pending : pending = Pending(p, wanted) OBVIOUS
  <2>3. pending = wanted BY <1>6, <2>2 DEF Pending
  <2>4. e.self
    <3>1. PICK kind : kind = e.kind OBVIOUS
    <3>2. e.self = (x.form = "self") BY <3>1, FieldsOf
    <3> QED BY <3>2
  <2>5. PICK r, end : end = "SheetDataEnd" /\ r = Expanded(e, end, SyntheticRows(pending))
    OBVIOUS
  <2>6. Widens(p, n, pending, r) /\ n.seenData = TRUE
    <3>1. pending # {} BY <1>1, <2>3 DEF Placed
    <3>2. PICK targets : targets = wanted OBVIOUS
    <3>3. m = Upserting(p, targets, e) /\ n = Upserting(m, targets, f) BY <2>1, <3>2
    <3>4. pending = Pending(p, targets) BY <2>2, <3>2
    <3>5. DOMAIN p = PatchFields /\ ~p.replacing BY <1>1
    <3>6. e.kind = "SheetDataStart" /\ f.kind = "SheetDataEnd" OBVIOUS
    <3> QED BY ONLY <2>4, <2>5, <3>1, <3>3, <3>4, <3>5, <3>6, UpsertingBareData
  <2>7. PICK q : q = SyntheticRows(pending) OBVIOUS
  <2>8. /\ DOMAIN n = PatchFields /\ ~n.replacing /\ n.suppress = "" /\ n.matched = {}
        /\ n.replacing \in BOOLEAN
    BY <1>1, <1>6, <2>6 DEF Widens
  <2>9. Steady(b, n) BY <1>1, <1>5, <1>9, <2>6, <2>8 DEF Steady
  <2>10. ASSUME PayloadsFit PROVE \E g : Sees(b, n, g) /\ From(c, n, g)
    <3>1. PICK y, z : y = [x EXCEPT !.form = "open"] /\ z = [x EXCEPT !.form = "close"] OBVIOUS
    <3>2. /\ y.form = "open" /\ y.name = "sheetData" /\ z.form = "close"
          /\ z.name = "sheetData"
      BY <1>1, <3>1
    <3>3. PICK h, k : h = InDataContext /\ k = BehindData OBVIOUS
    <3>4. ~Refuses(c, y) /\ After(c, y) = h BY <1>1, <1>3, <3>2, <3>3, BoundaryEffect
    <3>5. ~Refuses(h, z) /\ After(h, z) = k
      BY <3>2, <3>3, BoundaryEffect DEF BehindData
    <3>6. Path("quiet", h, q, h)
      <4>1. Selectors(wanted) /\ request \in Requests BY <1>1 DEF Placed
      <4> QED BY <2>3, <2>7, <2>10, <3>3, <4>1, RowsPath
    <3>7. PICK kind : kind = e.kind OBVIOUS
    <3>8. Path("quiet", c, r, k)
      <4>1. {kind, end} \cap {"Metadata"} = {} /\ end # "WorksheetStart" BY <2>5, <3>7
      <4>2. kind # "WorksheetStart" BY <3>7
      <4>3. Path("quiet", After(c, y), q, h) BY <3>4, <3>6
      <4>4. Path("quiet", c, Expanded(Event(kind, at, x), end, q), After(h, z))
        BY <1>1, <3>1, <3>4, <3>5, <4>1, <4>2, <4>3, ExpandedPath
      <4> QED BY <2>5, <2>7, <3>5, <3>7, <4>4
    <3>9. k = b
      <4>1. /\ k.opened /\ ~k.closed /\ k.seenData = TRUE /\ ~k.inData /\ ~k.inRow /\ ~k.inCell
            /\ k.value = "" /\ k \in Context
        BY <3>3 DEF BehindData, InDataContext, Context
      <4>2. /\ k.opened = b.opened /\ k.closed = b.closed /\ k.inData = b.inData
            /\ k.inRow = b.inRow /\ k.inCell = b.inCell
        BY <1>5, <4>1 DEF Context
      <4> QED BY <1>5, <4>1, <4>2, ContextsEqual
    <3>10. From(c, p, c) BY <1>1, FromIdle
    <3>11. From(c, n, b) BY <2>6, <3>8, <3>9, <3>10, FromExtends DEF Widens
    <3> QED BY <1>5, <2>8, <3>11 DEF Sees
  <2> QED BY <1>2, <1>3, <1>7, <2>9, <2>10, Concludes
<1> QED BY <1>8, <1>9

\* The end of the data takes the rows that are left.
LEMMA UpsertingDataEnd ==
    ASSUME NEW p, DOMAIN p = PatchFields, ~p.replacing, NEW targets, NEW e, ~e.self,
           NEW pending, pending = Pending(p, targets), NEW n, n = Upserting(p, targets, e),
           e.kind = "SheetDataEnd", p.suppress = "", NEW q,
           q = SyntheticRows(pending) \o PassThrough(e)
    PROVE  Took(p, n, pending) /\ Extends(p, n, q)
<1>1. n = Inserting(p, pending, q) BY DEF Upserting, UpsertDataEnd
<1> QED BY <1>1, InsertingTakes

LEMMA DataCloses ==
    ASSUME NEW c, NEW p, NEW at, NEW x, Ready(c, p, at, x), ~p.replacing, IsTag(x),
           x.name = "sheetData", x.form = "close", NEW e, e = Event(e.kind, at, x),
           e.kind = "SheetDataEnd", NEW n, n = Consumed(p, request.upsert, wanted, e)
    PROVE  Goes(c, p, x, n)
<1>1. /\ Legal(c) /\ ~Refuses(c, x) /\ Steady(c, p) /\ p.actions = << >>
      /\ p.replacing \in BOOLEAN /\ source[at] = x /\ DOMAIN p = PatchFields /\ Placed
      /\ p.suppress = ""
  BY DEF Ready, Steady
<1>2. PICK b : b = After(c, x) OBVIOUS
<1>3. /\ c.inData /\ ~c.inRow /\ ~c.inCell /\ b = [c EXCEPT !.inData = FALSE]
      /\ ~c.closed
  BY <1>1, <1>2, TagEffect
<1>4. c \in Context /\ c.seenData /\ c = InDataContext
  BY <1>1, <1>3, LegalPlaces DEF Legal
<1>5. b.seenData = c.seenData /\ ~b.closed /\ ~b.inCell /\ b.opened
  BY <1>1, <1>3, <1>4 DEF Context, Legal
<1>6. From(c, p, c) BY <1>1, FromIdle
<1>7. ~Doomed(c, p) BY <1>3 DEF Doomed
<1>8. CASE ~request.upsert
  <2>1. PassedOn(p, n, e) BY <1>1, <1>8, ConsumedOther
  <2>2. p.replacing \in BOOLEAN BY <1>1
  <2>3. Recalls(p, n) /\ ~n.replacing BY <2>1, <2>2, PassedRecalls
  <2>4. Steady(b, n) BY <1>1, <1>3, <1>5, <2>3, SteadyKept
  <2>5. From(c, n, b) BY <1>1, <1>2, <1>6, <2>1, FromCopy
  <2>6. Sees(b, n, b) BY <1>5, <2>3 DEF Sees
  <2> QED BY <1>2, <1>3, <1>7, <2>4, <2>5, <2>6, Concludes
<1>9. CASE request.upsert
  <2>1. n = Upserting(p, wanted, e) BY <1>9, ConsumedIs
  <2>2. PICK pending, q : pending = Pending(p, wanted) /\ q = SyntheticRows(pending) OBVIOUS
  <2>3. ~e.self
    <3>1. PICK kind : kind = e.kind OBVIOUS
    <3>2. e.self = (x.form = "self") BY <3>1, FieldsOf
    <3> QED BY <3>2
  <2>4. Took(p, n, pending) /\ Extends(p, n, q \o PassThrough(e))
    <3>1. PICK r : r = SyntheticRows(pending) \o PassThrough(e) OBVIOUS
    <3>2. Took(p, n, pending) /\ Extends(p, n, r)
      BY <1>1, <2>1, <2>2, <2>3, <3>1, UpsertingDataEnd
    <3> QED BY <2>2, <3>1, <3>2
  <2>5. pending \in SUBSET wanted BY <2>2 DEF Pending
  <2>6. Steady(b, n) BY <1>1, <1>4, <1>5, <1>9, <2>4 DEF Steady, Took
  <2>7. ~n.replacing BY <2>4 DEF Took
  <2>8. Sees(b, n, b) BY <1>5, <2>7 DEF Sees
  <2>9. ASSUME PayloadsFit PROVE From(c, n, b)
    <3>1. Selectors(pending) /\ pending \subseteq wanted /\ request \in Requests
      BY <1>1, <2>5, SelectorsPart DEF Placed
    <3>2. Path("quiet", c, q, c) BY <1>4, <2>2, <2>9, <3>1, RowsPath
    <3> QED BY <1>1, <1>2, <1>6, <2>4, <3>2, FromBehind
  <2> QED BY <1>2, <1>3, <1>7, <2>6, <2>8, <2>9, Concludes
<1> QED BY <1>8, <1>9

-----------------------------------------------------------------------------
(* Rows.                                                                   *)

LEMMA InsideConcludes ==
    ASSUME NEW c, Legal(c), c.inData, NEW p, Steady(c, p), ~p.replacing, NEW x, NEW b,
           b = After(c, x), b.seenData = c.seenData, NEW n, DOMAIN n = PatchFields,
           n.replacing \in BOOLEAN, n.replacing => b.inCell, n.suppress = "",
           n.seenData = p.seenData, n.inserted = p.inserted \/ request.upsert,
           PayloadsFit => \E e : Sees(b, n, e) /\ From(c, n, e)
    PROVE  Goes(c, p, x, n)
<1>1. c.seenData /\ ~c.closed BY DEF Legal
<1>2. Steady(b, n) BY <1>1 DEF Steady
<1>3. ~Doomed(c, p) BY <1>1 DEF Doomed
<1> QED BY <1>1, <1>2, <1>3, Concludes

LEMMA RowsLead ==
    ASSUME Placed, PayloadsFit, NEW c, c = InDataContext, NEW p, From(c, p, c), NEW refs,
           refs \subseteq wanted, NEW m, RowsLed(p, m, refs)
    PROVE  From(c, m, c)
<1>1. Selectors(refs) /\ request \in Requests BY SelectorsPart DEF Placed
<1>2. PICK q : q = SyntheticRows(refs) OBVIOUS
<1>3. Path("quiet", c, q, c) BY <1>1, <1>2, RowsPath
<1> QED BY <1>2, <1>3, FromExtends DEF RowsLed

LEMMA CellsLead ==
    ASSUME Placed, PayloadsFit, NEW c, c = InRowContext, NEW p, From(c, p, c), NEW refs,
           refs \subseteq wanted, NEW m, CellsLed(p, m, refs)
    PROVE  From(c, m, c)
<1>1. Selectors(refs) /\ request \in Requests BY SelectorsPart DEF Placed
<1>2. PICK q : q = Inserts(refs) OBVIOUS
<1>3. Path("quiet", c, q, c) BY <1>1, <1>2, InsertsPath
<1> QED BY <1>2, <1>3, FromExtends DEF CellsLed

LEMMA NoInserts ==
    ASSUME NEW level, NEW c
    PROVE  Path(level, c, Inserts({}), c)
<1>1. PICK q : q = Inserts({}) OBVIOUS
<1>2. q = [i \in 1 .. 0 |-> Synthetic("insert", "CellStart", "c", InPosition({})[i], FALSE)]
  BY <1>1, FS_EmptySet DEF Inserts
<1>3. q = << >> BY <1>2
<1> QED BY <1>1, <1>3, PathNone

\* The end of a row that nothing is inserted into.
LEMMA RowEndPasses ==
    ASSUME NEW p, DOMAIN p = PatchFields, ~p.replacing, p.suppress = "", NEW at, NEW x,
           source[at] = x, NEW e, e = Event(e.kind, at, x), e.kind = "RowEnd",
           NEW n, n = Upserting(p, wanted, e), \A r \in Pending(p, wanted) : r.row # p.row,
           NEW a, NEW c, ~Refuses(c, x), NEW d, d = After(c, x)
    PROVE  Took(p, n, {}) /\ (From(a, p, c) => From(a, n, d))
<1>1. PICK pending : pending = Pending(p, wanted) OBVIOUS
<1>2. PICK refs : /\ refs \subseteq {r \in pending : r.row = p.row} /\ Took(p, n, refs)
                  /\ Extends(p, n, Inserts(refs) \o PassThrough(e))
  BY <1>1, UpsertingRowEnd
<1>3. refs = {} BY <1>1, <1>2
<1>4. PICK q : q = Inserts({}) OBVIOUS
<1>5. Path("quiet", c, q, c) BY <1>4, NoInserts
<1>6. Extends(p, n, q \o PassThrough(e)) BY <1>2, <1>3, <1>4
<1>7. e.kind # "Metadata" /\ e.kind # "WorksheetStart" OBVIOUS
<1>8. From(a, p, c) => From(a, n, d) BY <1>5, <1>6, <1>7, FromBehind
<1> QED BY <1>2, <1>3, <1>8

\* The targets of one row.
Within(refs, row) == {r \in refs : r.row = row}

LEMMA UpsertingRowUnread ==
    ASSUME NEW p, DOMAIN p = PatchFields, ~p.replacing, NEW targets, NEW e, NEW n,
           n = Upserting(p, targets, e), e.kind = "RowStart"
    PROVE  /\ e.ref.text = "bad" => n.refused
           /\ e.ref.text = "missing" => PassedOn(p, n, e) /\ n.row = 0
<1>1. PICK pending, within : /\ pending = Pending(p, targets)
                             /\ within = {r \in pending : r.row = e.ref.row}
  OBVIOUS
<1>2. ASSUME e.ref.text = "bad" PROVE n.refused
  <2>1. n = UpsertRowStart(p, pending, e) BY <1>1 DEF Upserting
  <2> QED BY <2>1, <1>2 DEF UpsertRowStart, PatchFields
<1>3. e.ref.text = "missing" => PassedOn(p, n, e) /\ n.row = 0 BY <1>1, UpsertingRowStart
<1> QED BY <1>2, <1>3

LEMMA UpsertingBareRow ==
    ASSUME NEW p, DOMAIN p = PatchFields, ~p.replacing, NEW targets, NEW pending,
           pending = Pending(p, targets), NEW e, e.self, NEW f,
           NEW m, m = Upserting(p, targets, e), NEW n, n = Upserting(m, targets, f),
           e.kind = "RowStart", f.kind = "RowEnd", NEW end, end = "RowEnd",
           NEW within, within = Within(pending, e.ref.row), within # {},
           e.ref.text \notin {"bad", "missing"},
           NEW r, r = Expanded(e, end, Inserts(within))
    PROVE  \E refs, k : /\ refs \subseteq pending /\ RowsLed(p, k, refs)
                        /\ Widens(k, n, within, r) /\ n.seenData = k.seenData
<1>1. PICK refs, q, k : /\ refs = Leading(pending, LAMBDA o : o.row < e.ref.row)
                        /\ q = SyntheticRows(refs) /\ k = Inserting(p, refs, q)
  OBVIOUS
<1>2. refs \subseteq pending BY <1>1 DEF Leading
<1>3. Took(p, k, refs) /\ Extends(p, k, q) BY <1>1, InsertingTakes
<1>4. RowsLed(p, k, refs) BY <1>1, <1>3 DEF RowsLed
<1>5. DOMAIN k = PatchFields /\ ~k.replacing BY <1>3 DEF Took
<1>6. PICK g, zero, none : g = Inserting(k, within, r) /\ zero = 0 /\ none = "" OBVIOUS
<1>7. m = [g EXCEPT !.row = zero, !.suppress = end]
  <2>1. m = UpsertRowStart(p, pending, e) BY DEF Upserting
  <2>2. within = {o \in pending : o.row = e.ref.row} BY DEF Within
  <2> QED BY <1>1, <1>6, <2>1, <2>2 DEF UpsertRowStart
<1>8. Took(k, g, within) /\ Extends(k, g, r) BY <1>5, <1>6, InsertingTakes
<1>9. DOMAIN g = PatchFields /\ ~g.replacing /\ g.seenData = k.seenData
  BY <1>5, <1>8 DEF Took
<1>10. /\ DOMAIN m = PatchFields /\ m.matched = g.matched /\ m.inserted = g.inserted
       /\ m.suppress = end /\ m.replacing = g.replacing /\ m.actions = g.actions
       /\ m.seenData = k.seenData
  BY <1>7, <1>9 DEF PatchFields
<1>11. ~m.replacing /\ m.suppress = f.kind BY <1>9, <1>10
<1>12. n = [m EXCEPT !.suppress = none] BY <1>6, <1>11 DEF Upserting, UpsertRowEnd
<1>13. /\ DOMAIN n = PatchFields /\ n.matched = g.matched /\ n.inserted = g.inserted
       /\ n.replacing = g.replacing /\ n.actions = g.actions /\ n.suppress = none
       /\ n.seenData = k.seenData
  BY <1>10, <1>12 DEF PatchFields
<1>14. n.suppress = "" BY <1>6, <1>13
<1>15. Widens(k, n, within, r) BY <1>8, <1>13, <1>14, WidenedPatch
<1> QED BY <1>2, <1>4, <1>13, <1>15

LEMMA UpsertingRowPasses ==
    ASSUME NEW p, DOMAIN p = PatchFields, ~p.replacing, NEW targets, NEW pending,
           pending = Pending(p, targets), NEW e, NEW n, n = Upserting(p, targets, e),
           e.kind = "RowStart", NEW within, within = Within(pending, e.ref.row),
           ~e.self \/ within = {}, e.ref.text \notin {"bad", "missing"}
    PROVE  \E refs, k : /\ refs \subseteq pending /\ RowsLed(p, k, refs)
                        /\ PassedOn(k, n, e) /\ n.row = e.ref.row
<1>1. PICK refs, q, k : /\ refs = Leading(pending, LAMBDA o : o.row < e.ref.row)
                        /\ q = SyntheticRows(refs) /\ k = Inserting(p, refs, q)
  OBVIOUS
<1>2. refs \subseteq pending BY <1>1 DEF Leading
<1>3. Took(p, k, refs) /\ Extends(p, k, q) BY <1>1, InsertingTakes
<1>4. RowsLed(p, k, refs) BY <1>1, <1>3 DEF RowsLed
<1>5. DOMAIN k = PatchFields BY <1>3 DEF Took
<1>6. PICK g, row : g = Does(k, PassThrough(e)) /\ row = e.ref.row OBVIOUS
<1>7. n = [g EXCEPT !.row = row]
  <2>1. n = UpsertRowStart(p, pending, e) BY DEF Upserting
  <2>2. within = {r \in pending : r.row = e.ref.row} BY DEF Within
  <2> QED BY <1>1, <1>6, <2>1, <2>2 DEF UpsertRowStart
<1>8. PassedOn(k, g, e) BY <1>5, <1>6, PassedBy
<1>9. DOMAIN g = PatchFields BY <1>8 DEF PassedOn, Took
<1>10. PassedOn(k, n, e) /\ n.row = row BY <1>7, <1>8, <1>9, RowKept DEF PassedOn
<1> QED BY <1>2, <1>4, <1>6, <1>10

\* Nothing is inserted into a row that is empty in the source.
Unfilled(x, within) == within = {} \/ x.ref.text = "missing"
IsCopied(x, within) == x.form = "open" \/ Unfilled(x, within)

\* The start of a row that is copied.
LEMMA RowPasses ==
    ASSUME NEW c, NEW p, NEW at, NEW x, Ready(c, p, at, x), ~p.replacing, request.upsert,
           c = InDataContext, NEW e, e = Event(e.kind, at, x), e.kind = "RowStart",
           NEW n, n = Upserting(p, wanted, e), ~n.refused, NEW within,
           within = Within(Pending(p, wanted), x.ref.row),
           IsCopied(x, within), NEW b, b = After(c, x)
    PROVE  /\ DOMAIN n = PatchFields /\ n.replacing = p.replacing /\ n.suppress = p.suppress
           /\ n.seenData = p.seenData
           /\ PayloadsFit => From(c, n, b)
           /\ Unfilled(x, within) =>
                 \A r \in Pending(n, wanted) : r.row # n.row
<1>1. /\ Legal(c) /\ ~Refuses(c, x) /\ Steady(c, p) /\ p.actions = << >>
      /\ source[at] = x /\ DOMAIN p = PatchFields /\ Placed /\ p.suppress = ""
  BY DEF Ready, Steady
<1>2. From(c, p, c) BY <1>1, FromIdle
<1>3. e.ref = x.ref /\ e.self = (x.form = "self")
  <2>1. PICK kind : kind = e.kind OBVIOUS
  <2> QED BY <2>1, FieldsOf
<1>4. e.kind # "Metadata" /\ e.kind # "WorksheetStart" OBVIOUS
<1>5. PICK pending : pending = Pending(p, wanted) OBVIOUS
<1>6. pending \subseteq wanted BY <1>5 DEF Pending
<1>7. e.ref.text # "bad" BY <1>1, UpsertingRowUnread
<1>8. CASE x.ref.text = "missing"
  <2>1. PassedOn(p, n, e) /\ n.row = 0
    <3>1. e.ref.text = "missing" BY <1>3, <1>8
    <3> QED BY <1>1, <3>1, UpsertingRowUnread
  <2>2. From(c, n, b) BY <1>1, <1>2, <1>4, <2>1, FromCopy
  <2>3. \A r \in Pending(n, wanted) : r.row # n.row
    <3>1. \A r \in wanted : r.row > 0 BY <1>1 DEF Placed
    <3> QED BY <2>1, <3>1 DEF Pending
  <2> QED BY <1>1, <2>1, <2>2, <2>3 DEF PassedOn, Took
<1>9. CASE x.ref.text # "missing"
  <2>1. PICK refs, k : /\ refs \subseteq pending /\ RowsLed(p, k, refs)
                       /\ PassedOn(k, n, e) /\ n.row = e.ref.row
    <3>1. e.ref.text \notin {"bad", "missing"} BY <1>3, <1>7, <1>9
    <3>2. within = Within(pending, e.ref.row) BY <1>3, <1>5
    <3>3. ~e.self \/ within = {} BY <1>3, <1>9 DEF IsCopied, Unfilled
    <3>4. PICK targets : targets = wanted OBVIOUS
    <3>5. n = Upserting(p, targets, e) /\ pending = Pending(p, targets) BY <1>5, <3>4
    <3>6. DOMAIN p = PatchFields /\ ~p.replacing BY <1>1
    <3>7. e.kind = "RowStart" OBVIOUS
    <3> QED BY ONLY <3>1, <3>2, <3>3, <3>5, <3>6, <3>7, UpsertingRowPasses
  <2>2. ASSUME PayloadsFit PROVE From(c, n, b)
    <3>1. refs \subseteq wanted BY <1>6, <2>1
    <3>2. From(c, k, c) BY <1>1, <1>2, <2>1, <2>2, <3>1, RowsLead
    <3> QED BY <1>1, <1>4, <2>1, <3>2, FromCopy
  <2>3. /\ DOMAIN n = PatchFields /\ n.replacing = p.replacing /\ n.suppress = p.suppress
        /\ n.seenData = p.seenData /\ n.matched = p.matched
        /\ n.inserted = p.inserted \cup refs
    BY <2>1 DEF RowsLed, PassedOn, Took
  <2>4. ASSUME within = {} PROVE \A r \in Pending(n, wanted) : r.row # n.row
    <3>1. Pending(n, wanted) \subseteq Pending(p, wanted) BY <2>3 DEF Pending
    <3>2. n.row = x.ref.row BY <1>3, <2>1
    <3> QED BY <2>4, <3>1, <3>2 DEF Within
  <2> QED BY <1>9, <2>2, <2>3, <2>4 DEF Unfilled
<1> QED BY <1>8, <1>9

LEMMA RowOpens ==
    ASSUME NEW c, NEW p, NEW at, NEW x, Ready(c, p, at, x), ~p.replacing, IsTag(x),
           x.name = "row", x.form = "open", NEW e, e = Event(e.kind, at, x),
           e.kind = "RowStart", NEW n, n = Consumed(p, request.upsert, wanted, e), ~n.refused
    PROVE  Goes(c, p, x, n)
<1>1. /\ Legal(c) /\ ~Refuses(c, x) /\ Steady(c, p) /\ p.actions = << >>
      /\ source[at] = x /\ DOMAIN p = PatchFields /\ p.suppress = ""
      /\ p.replacing \in BOOLEAN
  BY DEF Ready, Steady
<1>2. PICK out, b : out \in BOOLEAN /\ out = (x.form # "self") /\ b = After(c, x) OBVIOUS
<1>3. /\ c.inData /\ ~c.inRow /\ ~c.inCell /\ b = [c EXCEPT !.inRow = out] /\ ~c.closed
  BY <1>1, <1>2, TagEffect
<1>4. c \in Context /\ c = InDataContext BY <1>1, <1>3, LegalPlaces DEF Legal
<1>5. b.seenData = c.seenData /\ ~b.closed BY <1>3, <1>4 DEF Context
<1>6. e.kind # "Metadata" /\ e.kind # "WorksheetStart" OBVIOUS
<1>7. From(c, p, c) BY <1>1, FromIdle
<1>8. /\ DOMAIN n = PatchFields /\ n.replacing = p.replacing /\ n.suppress = ""
      /\ n.seenData = p.seenData /\ (n.inserted = p.inserted \/ request.upsert)
      /\ PayloadsFit => From(c, n, b)
  <2>1. CASE ~request.upsert
    <3>1. PassedOn(p, n, e) BY <1>1, <2>1, ConsumedOther
    <3>2. From(c, n, b) BY <1>1, <1>2, <1>6, <1>7, <3>1, FromCopy
    <3> QED BY <1>1, <3>1, <3>2 DEF PassedOn, Took
  <2>2. CASE request.upsert
    <3>1. n = Upserting(p, wanted, e) BY <2>2, ConsumedIs
    <3>2. PICK within : within = Within(Pending(p, wanted), x.ref.row) OBVIOUS
    <3>3. IsCopied(x, within) BY DEF IsCopied
    <3>4. /\ Ready(c, p, at, x) /\ ~p.replacing /\ e = Event(e.kind, at, x)
          /\ e.kind = "RowStart" /\ ~n.refused /\ c = InDataContext /\ b = After(c, x)
      BY <1>2, <1>4
    <3>5. /\ DOMAIN n = PatchFields /\ n.replacing = p.replacing /\ n.suppress = p.suppress
          /\ n.seenData = p.seenData
          /\ PayloadsFit => From(c, n, b)
      BY ONLY <2>2, <3>1, <3>2, <3>3, <3>4, RowPasses
    <3> QED BY <1>1, <2>2, <3>5
  <2> QED BY <2>1, <2>2
<1>9. ~n.replacing /\ n.replacing \in BOOLEAN BY <1>1, <1>8
<1>10. Sees(b, n, b) BY <1>5, <1>9 DEF Sees
<1> QED BY <1>1, <1>2, <1>3, <1>5, <1>8, <1>9, <1>10, InsideConcludes

LEMMA RowIsBare ==
    ASSUME NEW c, NEW p, NEW at, NEW x, Ready(c, p, at, x), ~p.replacing, IsTag(x),
           x.name = "row", x.form = "self", NEW e, e = Event(e.kind, at, x),
           e.kind = "RowStart", NEW f, f = Event(f.kind, at, x), f.kind = "RowEnd",
           NEW m, m = Consumed(p, request.upsert, wanted, e), ~m.refused,
           NEW n, n = Consumed(m, request.upsert, wanted, f)
    PROVE  Goes(c, p, x, n)
<1>1. /\ Legal(c) /\ ~Refuses(c, x) /\ Steady(c, p) /\ p.actions = << >>
      /\ source[at] = x /\ DOMAIN p = PatchFields /\ Placed /\ p.suppress = ""
      /\ p.replacing \in BOOLEAN
      /\ x \in [form : Forms, name : STRING, ref : Refs, bytes : Nat]
  BY DEF Ready, Steady
<1>2. c.inData /\ ~c.inRow /\ ~c.inCell /\ ~c.closed BY <1>1, TagEffect
<1>3. c = InDataContext BY <1>1, <1>2, LegalPlaces
<1>4. After(c, x) = c BY <1>3, BoundaryEffect
<1>5. From(c, p, c) BY <1>1, FromIdle
<1>6. e.kind # "Metadata" /\ e.kind # "WorksheetStart" /\ f.kind # "Metadata"
      /\ f.kind # "WorksheetStart"
  OBVIOUS
<1>7. PICK b : b = After(c, x) OBVIOUS
<1>8. /\ DOMAIN n = PatchFields /\ n.replacing = p.replacing /\ n.suppress = ""
      /\ n.seenData = p.seenData /\ (n.inserted = p.inserted \/ request.upsert)
      /\ PayloadsFit => From(c, n, b)
  <2>1. CASE ~request.upsert
    <3>1. PassedOn(p, m, e) BY <1>1, <2>1, ConsumedOther
    <3>2. DOMAIN m = PatchFields /\ ~m.replacing BY <3>1 DEF PassedOn, Took
    <3>3. PassedOn(m, n, f) BY <2>1, <3>2, ConsumedOther
    <3>4. From(c, m, b) BY <1>1, <1>5, <1>6, <1>7, <3>1, FromCopy
    <3>5. From(c, n, b) BY <1>1, <1>4, <1>6, <1>7, <3>3, <3>4, FromCopy
    <3> QED BY <1>1, <3>1, <3>3, <3>5 DEF PassedOn, Took
  <2>2. CASE request.upsert
    <3>1. m = Upserting(p, wanted, e) /\ n = Upserting(m, wanted, f) BY <2>2, ConsumedIs
    <3>2. PICK pending, within : /\ pending = Pending(p, wanted)
                                 /\ within = Within(pending, x.ref.row)
      OBVIOUS
    <3>3. pending \in SUBSET wanted BY <3>2 DEF Pending
    <3>4. e.ref = x.ref /\ e.self
      <4>1. PICK kind : kind = e.kind OBVIOUS
      <4>2. e.ref = x.ref /\ e.self = (x.form = "self") BY <4>1, FieldsOf
      <4> QED BY <4>2
    <3>5. CASE within = {} \/ x.ref.text = "missing"
      <4>0. within = Within(Pending(p, wanted), x.ref.row) BY <3>2
      <4>1. /\ DOMAIN m = PatchFields /\ m.replacing = p.replacing /\ m.suppress = p.suppress
            /\ m.seenData = p.seenData
            /\ PayloadsFit => From(c, m, b)
            /\ \A r \in Pending(m, wanted) : r.row # m.row
        <5>1. /\ Ready(c, p, at, x) /\ ~p.replacing /\ e = Event(e.kind, at, x)
              /\ e.kind = "RowStart" /\ ~m.refused /\ c = InDataContext /\ b = After(c, x)
              /\ m = Upserting(p, wanted, e)
          BY <1>3, <1>7, <3>1
        <5>2. IsCopied(x, within) /\ Unfilled(x, within) BY <3>5 DEF IsCopied, Unfilled
        <5> QED BY ONLY <2>2, <4>0, <5>1, <5>2, RowPasses
      <4>2. ~m.replacing /\ m.suppress = "" BY <1>1, <4>1
      <4>3. ~Refuses(b, x) /\ b = After(b, x) BY <1>1, <1>4, <1>7
      <4>4. Took(m, n, {}) /\ (From(c, m, b) => From(c, n, b))
        BY <1>1, <3>1, <4>1, <4>2, <4>3, RowEndPasses
      <4> QED BY <1>1, <2>2, <4>1, <4>4 DEF Took
    <3>6. CASE within # {} /\ x.ref.text # "missing"
      <4>0. e.ref.text # "bad" BY <1>1, <3>1, UpsertingRowUnread
      <4>1. e.ref.text \notin {"bad", "missing"} BY <3>4, <3>6, <4>0
      <4>2. within = Within(pending, e.ref.row) BY <3>2, <3>4
      <4>3. PICK end, q : end = "RowEnd" /\ q = Inserts(within) OBVIOUS
      <4>4. PICK r : r = Expanded(e, end, q) OBVIOUS
      <4>5. PICK refs, k : /\ refs \subseteq pending /\ RowsLed(p, k, refs)
                           /\ Widens(k, n, within, r) /\ n.seenData = k.seenData
        <5>1. PICK targets : targets = wanted OBVIOUS
        <5>2. m = Upserting(p, targets, e) /\ n = Upserting(m, targets, f) BY <3>1, <5>1
        <5>3. pending = Pending(p, targets) BY <3>2, <5>1
        <5>4. DOMAIN p = PatchFields /\ ~p.replacing BY <1>1
        <5>5. e.kind = "RowStart" /\ f.kind = "RowEnd" OBVIOUS
        <5>6. r = Expanded(e, end, Inserts(within)) BY <4>3, <4>4
        <5> QED BY ONLY <3>4, <3>6, <4>1, <4>2, <4>3, <5>2, <5>3, <5>4, <5>5, <5>6,
                        UpsertingBareRow
      <4>6. ASSUME PayloadsFit PROVE From(c, n, b)
        <5>1. refs \subseteq wanted BY <3>3, <4>5
        <5>2. From(c, k, c) BY <1>1, <1>3, <1>5, <4>5, <4>6, <5>1, RowsLead
        <5>3. PICK y, z : y = [x EXCEPT !.form = "open"] /\ z = [x EXCEPT !.form = "close"]
          OBVIOUS
        <5>4. y.form = "open" /\ y.name = "row" /\ z.form = "close" /\ z.name = "row"
          BY <1>1, <5>3
        <5>5. PICK h : h = InRowContext OBVIOUS
        <5>6. ~Refuses(c, y) /\ After(c, y) = h BY <1>3, <5>4, <5>5, BoundaryEffect
        <5>7. ~Refuses(h, z) /\ After(h, z) = c BY <1>3, <5>4, <5>5, BoundaryEffect
        <5>8. Path("quiet", h, q, h)
          <6>1. within \subseteq wanted BY <3>2, <3>3 DEF Within
          <6>2. Selectors(within) /\ request \in Requests BY <1>1, <6>1, SelectorsPart DEF Placed
          <6> QED BY <4>3, <4>6, <5>5, <6>1, <6>2, InsertsPath
        <5>9. PICK kind : kind = e.kind OBVIOUS
        <5>10. Path("quiet", c, r, c)
          <6>1. {kind, end} \cap {"Metadata"} = {} /\ end # "WorksheetStart" BY <4>3, <5>9
          <6>2. kind # "WorksheetStart" BY <5>9
          <6>3. Path("quiet", After(c, y), q, h) BY <5>6, <5>8
          <6>4. Path("quiet", c, Expanded(Event(kind, at, x), end, q), After(h, z))
            BY <1>1, <5>3, <5>6, <5>7, <6>1, <6>2, <6>3, ExpandedPath
          <6> QED BY <4>4, <5>7, <5>9, <6>4
        <5>11. From(c, n, c) BY <4>5, <5>2, <5>10, FromExtends DEF Widens
        <5> QED BY <1>4, <1>7, <5>11
      <4> QED BY <1>1, <2>2, <4>5, <4>6 DEF Widens, RowsLed, Took
    <3> QED BY <3>5, <3>6
  <2> QED BY <2>1, <2>2
<1>9. ~n.replacing /\ n.replacing \in BOOLEAN BY <1>1, <1>8
<1>10. b = c BY <1>4, <1>7
<1>11. Sees(b, n, b) BY <1>2, <1>9, <1>10 DEF Sees
<1> QED BY <1>1, <1>2, <1>7, <1>8, <1>9, <1>10, <1>11, InsideConcludes

LEMMA RowCloses ==
    ASSUME NEW c, NEW p, NEW at, NEW x, Ready(c, p, at, x), ~p.replacing, IsTag(x),
           x.name = "row", x.form = "close", NEW e, e = Event(e.kind, at, x),
           e.kind = "RowEnd", NEW n, n = Consumed(p, request.upsert, wanted, e)
    PROVE  Goes(c, p, x, n)
<1>1. /\ Legal(c) /\ ~Refuses(c, x) /\ Steady(c, p) /\ p.actions = << >>
      /\ source[at] = x /\ DOMAIN p = PatchFields /\ Placed /\ p.suppress = ""
      /\ p.replacing \in BOOLEAN
  BY DEF Ready, Steady
<1>2. PICK b : b = After(c, x) OBVIOUS
<1>3. c.inRow /\ ~c.inCell /\ b = [c EXCEPT !.inRow = FALSE] /\ ~c.closed
  BY <1>1, <1>2, TagEffect
<1>4. c \in Context /\ c.inData BY <1>1, <1>3 DEF Legal
<1>5. c = InRowContext BY <1>1, <1>3, <1>4, LegalPlaces
<1>6. b.seenData = c.seenData /\ ~b.closed BY <1>3, <1>4 DEF Context
<1>7. From(c, p, c) BY <1>1, FromIdle
<1>8. e.kind # "Metadata" /\ e.kind # "WorksheetStart" OBVIOUS
<1>9. /\ DOMAIN n = PatchFields /\ n.replacing = p.replacing /\ n.suppress = ""
      /\ n.seenData = p.seenData /\ (n.inserted = p.inserted \/ request.upsert)
      /\ PayloadsFit => From(c, n, b)
  <2>1. CASE ~request.upsert
    <3>1. PassedOn(p, n, e) BY <1>1, <2>1, ConsumedOther
    <3>2. From(c, n, b) BY <1>1, <1>2, <1>7, <1>8, <3>1, FromCopy
    <3> QED BY <1>1, <3>1, <3>2 DEF PassedOn, Took
  <2>2. CASE request.upsert
    <3>1. PICK targets : targets = wanted OBVIOUS
    <3>2. PICK pending : pending = Pending(p, targets) OBVIOUS
    <3>3. PICK refs : /\ refs \subseteq {r \in pending : r.row = p.row} /\ Took(p, n, refs)
                      /\ Extends(p, n, Inserts(refs) \o PassThrough(e))
      <4>1. n = Upserting(p, targets, e) BY <2>2, <3>1, ConsumedIs
      <4>2. DOMAIN p = PatchFields /\ ~p.replacing /\ e.kind = "RowEnd" /\ p.suppress = ""
        BY <1>1
      <4>3. \E refs : /\ refs \subseteq {r \in pending : r.row = p.row}
                      /\ Took(p, n, refs)
                      /\ Extends(p, n, Inserts(refs) \o PassThrough(e))
        BY ONLY <3>2, <4>1, <4>2, UpsertingRowEnd
      <4> QED BY <4>3
    <3>4. refs \subseteq wanted
      <4>1. pending \in SUBSET wanted BY <3>1, <3>2 DEF Pending
      <4> QED BY <3>3, <4>1
    <3>5. PICK q : q = Inserts(refs) OBVIOUS
    <3>6. ASSUME PayloadsFit PROVE From(c, n, b)
      <4>1. Selectors(refs) /\ request \in Requests BY <1>1, <3>4, SelectorsPart DEF Placed
      <4>2. Path("quiet", c, q, c) BY <1>5, <3>4, <3>5, <3>6, <4>1, InsertsPath
      <4>3. Extends(p, n, q \o PassThrough(e)) BY <3>3, <3>5
      <4> QED BY <1>1, <1>2, <1>7, <1>8, <4>2, <4>3, FromBehind
    <3> QED BY <1>1, <2>2, <3>3, <3>6 DEF Took
  <2> QED BY <2>1, <2>2
<1>10. ~n.replacing /\ n.replacing \in BOOLEAN BY <1>1, <1>9
<1>11. Sees(b, n, b) BY <1>6, <1>10 DEF Sees
<1> QED BY <1>1, <1>2, <1>4, <1>6, <1>9, <1>10, <1>11, InsideConcludes

-----------------------------------------------------------------------------
(* Cells.                                                                  *)

\* What is written ahead of a cell leaves the reader in its row.
Led(c, p, k) ==
    /\ DOMAIN k = PatchFields /\ k.replacing = p.replacing /\ k.suppress = p.suppress
    /\ k.seenData = p.seenData
    /\ k.inserted = p.inserted \/ request.upsert
    /\ PayloadsFit => From(c, k, c)

\* The cell is replaced by a target.
Replaced(k, n, e) ==
    /\ e.ref \in wanted /\ Met(k, n, {}, e.ref) /\ Extends(k, n, <<Action("cell", e)>>)

LEMMA CellStarts ==
    ASSUME NEW c, NEW p, NEW at, NEW x, Ready(c, p, at, x), ~p.replacing,
           c = InRowContext, NEW e, e = Event(e.kind, at, x), e.kind = "CellStart",
           NEW n, n = Consumed(p, request.upsert, wanted, e), ~n.refused
    PROVE  \E k : Led(c, p, k) /\ (PassedOn(k, n, e) \/ Replaced(k, n, e))
<1>1. /\ Steady(c, p) /\ p.actions = << >> /\ DOMAIN p = PatchFields /\ Placed
  BY DEF Ready, Steady
<1>2. From(c, p, c) BY <1>1, FromIdle
<1>3. CASE ~request.upsert
  <2>1. n = Replacing(p, wanted, e) BY <1>3, ConsumedIs
  <2>2. PassedOn(p, n, e) \/ Replaced(p, n, e)
    <3>1. \/ PassedOn(p, n, e)
          \/ /\ e.ref \in wanted /\ Met(p, n, {}, e.ref)
             /\ Extends(p, n, <<Action("cell", e)>>)
      BY <1>1, <2>1, ReplacingTakes
    <3> QED BY <3>1 DEF Replaced
  <2>3. Led(c, p, p) BY <1>1, <1>2 DEF Led
  <2> QED BY <2>2, <2>3
<1>4. CASE request.upsert
  <2>1. n = Upserting(p, wanted, e) BY <1>4, ConsumedIs
  <2>2. PICK pending : pending = Pending(p, wanted) OBVIOUS
  <2>3. pending \in SUBSET wanted BY <2>2 DEF Pending
  <2>4. e.ref.text # "bad" BY <1>1, <2>1, <2>2, UpsertingCell
  <2>5. PICK refs, k : /\ refs \subseteq pending /\ CellsLed(p, k, refs)
                       /\ e.ref \in pending =>
                             Met(k, n, {}, e.ref) /\ Extends(k, n, <<Action("cell", e)>>)
                       /\ e.ref \notin pending => PassedOn(k, n, e)
    BY <1>1, <2>1, <2>2, <2>4, UpsertingCell
  <2>6. PassedOn(k, n, e) \/ Replaced(k, n, e) BY <2>3, <2>5 DEF Replaced
  <2>7. PayloadsFit => From(c, k, c)
    <3>1. refs \subseteq wanted BY <2>3, <2>5
    <3> QED BY <1>1, <1>2, <2>5, <3>1, CellsLead
  <2>8. Led(c, p, k) BY <1>4, <2>5, <2>7 DEF CellsLed, Took, Led
  <2> QED BY <2>6, <2>8
<1> QED BY <1>3, <1>4

LEMMA ReplacedFrom ==
    ASSUME request \in Requests, PayloadsFit, NEW c, c = InRowContext, NEW a, NEW k,
           From(a, k, c), NEW n, NEW e, Replaced(k, n, e), e.kind = "CellStart"
    PROVE  From(a, n, c)
<1>1. PICK item, y : item = "cell" /\ y = Action(item, e) OBVIOUS
<1>2. y.item = item /\ y.ref = e.ref /\ y.kind = e.kind BY <1>1 DEF Action
<1>3. y.item \in {"cell", "insert"} BY <1>1, <1>2
<1>4. y.ref \in wanted BY <1>2 DEF Replaced
<1>5. y.kind = "CellStart" BY <1>2
<1>6. Path("quiet", c, <<y>>, c) BY <1>3, <1>4, <1>5, QuietPayload
<1>7. PICK q : q = <<y>> OBVIOUS
<1>8. Extends(k, n, q) BY <1>1, <1>7 DEF Replaced
<1> QED BY <1>6, <1>7, <1>8, FromExtends

LEMMA CellOpens ==
    ASSUME NEW c, NEW p, NEW at, NEW x, Ready(c, p, at, x), ~p.replacing, IsTag(x),
           x.name = "c", x.form = "open", NEW e, e = Event(e.kind, at, x),
           e.kind = "CellStart", NEW n, n = Consumed(p, request.upsert, wanted, e), ~n.refused
    PROVE  Goes(c, p, x, n)
<1>1. /\ Legal(c) /\ ~Refuses(c, x) /\ Steady(c, p) /\ p.actions = << >>
      /\ source[at] = x /\ DOMAIN p = PatchFields /\ Placed /\ p.suppress = ""
      /\ p.replacing \in BOOLEAN
  BY DEF Ready, Steady
<1>2. PICK out, b : out \in BOOLEAN /\ out = (x.form # "self") /\ b = After(c, x) OBVIOUS
<1>3. c.inRow /\ ~c.inCell /\ b = [c EXCEPT !.inCell = out] /\ ~c.closed /\ out
  BY <1>1, <1>2, TagEffect
<1>4. c \in Context /\ c.inData BY <1>1, <1>3 DEF Legal
<1>5. c = InRowContext BY <1>1, <1>3, <1>4, LegalPlaces
<1>6. b.seenData = c.seenData /\ ~b.closed /\ b.inCell BY <1>3, <1>4 DEF Context
<1>7. PICK k : Led(c, p, k) /\ (PassedOn(k, n, e) \/ Replaced(k, n, e)) BY <1>5, CellStarts
<1>8. e.kind # "Metadata" /\ e.kind # "WorksheetStart" OBVIOUS
<1>9. CASE PassedOn(k, n, e)
  <2>1. /\ DOMAIN n = PatchFields /\ n.replacing = p.replacing /\ n.suppress = ""
        /\ n.seenData = p.seenData /\ (n.inserted = p.inserted \/ request.upsert)
    BY <1>1, <1>7, <1>9 DEF Led, PassedOn, Took
  <2>2. PayloadsFit => From(c, n, b) BY <1>1, <1>2, <1>7, <1>8, <1>9, FromCopy DEF Led
  <2>3. ~n.replacing /\ n.replacing \in BOOLEAN BY <1>1, <2>1
  <2>4. Sees(b, n, b) BY <1>6, <2>3 DEF Sees
  <2> QED BY <1>1, <1>2, <1>4, <1>6, <2>1, <2>2, <2>3, <2>4, InsideConcludes
<1>10. CASE Replaced(k, n, e)
  <2>1. /\ DOMAIN n = PatchFields /\ n.replacing = TRUE /\ n.suppress = ""
        /\ n.seenData = p.seenData /\ (n.inserted = p.inserted \/ request.upsert)
    BY <1>1, <1>7, <1>10 DEF Led, Replaced, Met
  <2>2. PayloadsFit => From(c, n, c) BY <1>1, <1>5, <1>7, <1>10, ReplacedFrom DEF Led, Placed
  <2>3. Sees(b, n, c) BY <1>5, <2>1 DEF Sees
  <2>4. n.replacing \in BOOLEAN BY <2>1
  <2> QED BY <1>1, <1>2, <1>4, <1>6, <2>1, <2>2, <2>3, <2>4, InsideConcludes
<1> QED BY <1>7, <1>9, <1>10

LEMMA CellIsBare ==
    ASSUME NEW c, NEW p, NEW at, NEW x, Ready(c, p, at, x), ~p.replacing, IsTag(x),
           x.name = "c", x.form = "self", NEW e, e = Event(e.kind, at, x),
           e.kind = "CellStart", NEW f, f = Event(f.kind, at, x), f.kind = "CellEnd",
           NEW m, m = Consumed(p, request.upsert, wanted, e), ~m.refused,
           NEW n, n = Consumed(m, request.upsert, wanted, f)
    PROVE  Goes(c, p, x, n)
<1>1. /\ Legal(c) /\ ~Refuses(c, x) /\ Steady(c, p) /\ p.actions = << >>
      /\ source[at] = x /\ DOMAIN p = PatchFields /\ Placed /\ p.suppress = ""
      /\ p.replacing \in BOOLEAN
  BY DEF Ready, Steady
<1>2. PICK out, b : out \in BOOLEAN /\ out = (x.form # "self") /\ b = After(c, x) OBVIOUS
<1>3. c.inRow /\ ~c.inCell /\ b = [c EXCEPT !.inCell = out] /\ ~c.closed /\ ~out
  BY <1>1, <1>2, TagEffect
<1>4. c \in Context /\ c.inData BY <1>1, <1>3 DEF Legal
<1>5. c = InRowContext BY <1>1, <1>3, <1>4, LegalPlaces
<1>6. b = c
  <2>1. b.inData /\ b.inRow /\ ~b.inCell BY <1>3, <1>4 DEF Context
  <2>2. Legal(b) BY <1>1, <1>2, LegalStep
  <2> QED BY <1>5, <2>1, <2>2, LegalPlaces
<1>7. PICK k : Led(c, p, k) /\ (PassedOn(k, m, e) \/ Replaced(k, m, e)) BY <1>5, CellStarts
<1>8. e.kind # "Metadata" /\ e.kind # "WorksheetStart" /\ f.kind # "Metadata"
      /\ f.kind # "WorksheetStart"
  OBVIOUS
<1>9. IsPatch(n) /\ DOMAIN m = PatchFields
  <2>1. IsPatch(m) BY ReadyPatch
  <2>2. Selectors(wanted) BY <1>1 DEF Placed
  <2>3. IsPatch(n) BY <2>1, <2>2, ConsumedFollows DEF Follows
  <2> QED BY <2>1, <2>3 DEF IsPatch
<1>10. n.replacing \in BOOLEAN BY <1>9 DEF IsPatch
<1>11. /\ DOMAIN n = PatchFields /\ ~n.replacing /\ n.suppress = ""
       /\ n.seenData = p.seenData /\ (n.inserted = p.inserted \/ request.upsert)
       /\ PayloadsFit => From(c, n, b)
  <2>1. CASE PassedOn(k, m, e)
    <3>1. ~m.replacing BY <1>7, <2>1 DEF Led, PassedOn, Took
    <3>2. PassedOn(m, n, f) BY <1>9, <3>1, ConsumedOther
    <3>3. PayloadsFit => From(c, m, b) BY <1>1, <1>2, <1>7, <1>8, <2>1, FromCopy DEF Led
    <3>4. PayloadsFit => From(c, n, b)
      BY <1>1, <1>2, <1>6, <1>8, <3>2, <3>3, FromCopy
    <3> QED BY <1>1, <1>7, <2>1, <3>2, <3>4 DEF Led, PassedOn, Took
  <2>2. CASE Replaced(k, m, e)
    <3>1. m.replacing BY <2>2 DEF Replaced, Met
    <3>2. PICK kind : kind = f.kind OBVIOUS
    <3>3. Dropped(m, n, kind) BY <1>9, <3>1, <3>2, ConsumedOther
    <3>4. /\ DOMAIN n = PatchFields /\ n.inserted = m.inserted /\ n.suppress = m.suppress
          /\ n.seenData = m.seenData /\ n.actions = m.actions /\ ~n.replacing
      BY <3>2, <3>3 DEF Dropped
    <3>5. PayloadsFit => From(c, m, c)
      BY <1>1, <1>5, <1>7, <2>2, ReplacedFrom DEF Led, Placed
    <3>6. PayloadsFit => From(c, n, b) BY <1>6, <3>4, <3>5, FromKept
    <3> QED BY <1>1, <1>7, <2>2, <3>4, <3>6 DEF Led, Replaced, Met
  <2> QED BY <1>7, <2>1, <2>2
<1>12. Sees(b, n, b) BY <1>3, <1>6, <1>11 DEF Sees
<1> QED BY <1>1, <1>2, <1>3, <1>4, <1>6, <1>10, <1>11, <1>12, InsideConcludes

LEMMA CellCloses ==
    ASSUME NEW c, NEW p, NEW at, NEW x, Ready(c, p, at, x), ~p.replacing, IsTag(x),
           x.name = "c", x.form = "close", NEW e, e = Event(e.kind, at, x),
           e.kind = "CellEnd", NEW n, n = Consumed(p, request.upsert, wanted, e)
    PROVE  Goes(c, p, x, n)
<1>1. /\ Legal(c) /\ ~Refuses(c, x) /\ Steady(c, p) /\ p.actions = << >>
      /\ source[at] = x /\ DOMAIN p = PatchFields /\ p.suppress = ""
      /\ p.replacing \in BOOLEAN
  BY DEF Ready, Steady
<1>2. PICK b : b = After(c, x) OBVIOUS
<1>3. c.inCell /\ b = [c EXCEPT !.inCell = FALSE] /\ ~c.closed BY <1>1, <1>2, TagEffect
<1>4. c \in Context /\ c.inData BY <1>1, <1>3 DEF Legal
<1>5. b.seenData = c.seenData /\ ~b.closed BY <1>3, <1>4 DEF Context
<1>6. PassedOn(p, n, e) BY <1>1, ConsumedOther
<1>7. /\ DOMAIN n = PatchFields /\ n.replacing = p.replacing /\ n.suppress = ""
      /\ n.seenData = p.seenData /\ (n.inserted = p.inserted \/ request.upsert)
  BY <1>1, <1>6 DEF PassedOn, Took
<1>8. From(c, n, b)
  <2>1. From(c, p, c) BY <1>1, FromIdle
  <2>2. e.kind # "Metadata" /\ e.kind # "WorksheetStart" OBVIOUS
  <2> QED BY <1>1, <1>2, <1>6, <2>1, <2>2, FromCopy
<1>9. ~n.replacing /\ n.replacing \in BOOLEAN BY <1>1, <1>7
<1>10. Sees(b, n, b) BY <1>5, <1>9 DEF Sees
<1> QED BY <1>1, <1>2, <1>4, <1>5, <1>7, <1>8, <1>9, <1>10, InsideConcludes

-----------------------------------------------------------------------------
(* What one piece makes of both, whatever the piece is.                    *)

LEMMA BoundaryGoes ==
    ASSUME NEW c, NEW p, NEW at, NEW x, Ready(c, p, at, x), IsTag(x), x.name \in Boundary,
           x.form # "self", NEW e,
           e = Event(IF x.form = "open" THEN StartKind[x.name] ELSE EndKind[x.name], at, x),
           NEW n, n = Consumed(p, request.upsert, wanted, e), ~n.refused
    PROVE  Goes(c, p, x, n)
<1>1. PICK kind : kind = IF x.form = "open" THEN StartKind[x.name] ELSE EndKind[x.name]
  OBVIOUS
<1>2. e = Event(e.kind, at, x) /\ e.kind = kind BY <1>1, FieldsOf
<1>3. x.form = "open" \/ x.form = "close" BY DEF IsTag
<1>4. /\ x.form = "open" /\ x.name = "worksheet" => kind = "WorksheetStart"
      /\ x.form = "open" /\ x.name = "sheetData" => kind = "SheetDataStart"
      /\ x.form = "open" /\ x.name = "row" => kind = "RowStart"
      /\ x.form = "open" /\ x.name = "c" => kind = "CellStart"
      /\ x.form = "close" /\ x.name = "worksheet" => kind = "WorksheetEnd"
      /\ x.form = "close" /\ x.name = "sheetData" => kind = "SheetDataEnd"
      /\ x.form = "close" /\ x.name = "row" => kind = "RowEnd"
      /\ x.form = "close" /\ x.name = "c" => kind = "CellEnd"
  BY <1>1, KindsAre
<1>5. CASE p.replacing
  <2>1. x.name = "c" /\ x.form = "close" BY <1>5, InsideBoundary
  <2>2. kind = "CellEnd" BY <1>4, <2>1
  <2>3. n.replacing \in BOOLEAN BY ReadyPatch
  <2>4. DOMAIN p = PatchFields BY DEF Ready, Steady
  <2>5. e.kind # "CellStart" BY <1>2, <2>2
  <2>6. Dropped(p, n, kind)
    <3>1. Dropped(p, n, e.kind) BY <1>5, <2>4, <2>5, ConsumedOther
    <3> QED BY <1>2, <3>1
  <2> QED BY <1>5, <2>1, <2>2, <2>3, <2>6, DroppedEndGoes
<1>6. CASE ~p.replacing
  <2>1. CASE x.form = "open" /\ x.name = "worksheet"
    <3>1. e.kind = "WorksheetStart" BY <1>2, <1>4, <2>1
    <3> QED BY <1>2, <1>6, <2>1, <3>1, WorksheetOpens
  <2>2. CASE x.form = "open" /\ x.name = "sheetData"
    <3>1. e.kind = "SheetDataStart" BY <1>2, <1>4, <2>2
    <3> QED BY <1>2, <1>6, <2>2, <3>1, DataOpens
  <2>3. CASE x.form = "open" /\ x.name = "row"
    <3>1. e.kind = "RowStart" BY <1>2, <1>4, <2>3
    <3> QED BY <1>2, <1>6, <2>3, <3>1, RowOpens
  <2>4. CASE x.form = "open" /\ x.name = "c"
    <3>1. e.kind = "CellStart" BY <1>2, <1>4, <2>4
    <3> QED BY <1>2, <1>6, <2>4, <3>1, CellOpens
  <2>5. CASE x.form = "close" /\ x.name = "worksheet"
    <3>1. e.kind = "WorksheetEnd" BY <1>2, <1>4, <2>5
    <3> QED BY <1>2, <1>6, <2>5, <3>1, WorksheetCloses
  <2>6. CASE x.form = "close" /\ x.name = "sheetData"
    <3>1. e.kind = "SheetDataEnd" BY <1>2, <1>4, <2>6
    <3> QED BY <1>2, <1>6, <2>6, <3>1, DataCloses
  <2>7. CASE x.form = "close" /\ x.name = "row"
    <3>1. e.kind = "RowEnd" BY <1>2, <1>4, <2>7
    <3> QED BY <1>2, <1>6, <2>7, <3>1, RowCloses
  <2>8. CASE x.form = "close" /\ x.name = "c"
    <3>1. e.kind = "CellEnd" BY <1>2, <1>4, <2>8
    <3> QED BY <1>2, <1>6, <2>8, <3>1, CellCloses
  <2> QED BY <1>3, <2>1, <2>2, <2>3, <2>4, <2>5, <2>6, <2>7, <2>8 DEF Boundary
<1> QED BY <1>5, <1>6

\* A self-closing boundary is reported twice.
LEMMA BareBoundaryGoes ==
    ASSUME NEW c, NEW p, NEW at, NEW x, Ready(c, p, at, x), IsTag(x), x.name \in Boundary,
           x.form = "self", NEW e, e = Event(StartKind[x.name], at, x),
           NEW f, f = Event(EndKind[x.name], at, x),
           NEW m, m = Consumed(p, request.upsert, wanted, e), ~m.refused,
           NEW n, n = Consumed(m, request.upsert, wanted, f)
    PROVE  Goes(c, p, x, n)
<1>1. PICK start, end : start = StartKind[x.name] /\ end = EndKind[x.name] OBVIOUS
<1>2. /\ e = Event(e.kind, at, x) /\ e.kind = start
      /\ f = Event(f.kind, at, x) /\ f.kind = end
  BY <1>1, FieldsOf
<1>3. ~p.replacing BY InsideBoundary
<1>4. /\ x.name = "worksheet" => start = "WorksheetStart" /\ end = "WorksheetEnd"
      /\ x.name = "sheetData" => start = "SheetDataStart" /\ end = "SheetDataEnd"
      /\ x.name = "row" => start = "RowStart" /\ end = "RowEnd"
      /\ x.name = "c" => start = "CellStart" /\ end = "CellEnd"
  BY <1>1, KindsAre
<1>5. CASE x.name = "worksheet"
  <2>1. e.kind = "WorksheetStart" /\ f.kind = "WorksheetEnd" BY <1>2, <1>4, <1>5
  <2> QED BY <1>2, <1>3, <1>5, <2>1, WorksheetIsBare
<1>6. CASE x.name = "sheetData"
  <2>1. e.kind = "SheetDataStart" /\ f.kind = "SheetDataEnd" BY <1>2, <1>4, <1>6
  <2> QED BY <1>2, <1>3, <1>6, <2>1, DataIsBare
<1>7. CASE x.name = "row"
  <2>1. e.kind = "RowStart" /\ f.kind = "RowEnd" BY <1>2, <1>4, <1>7
  <2> QED BY <1>2, <1>3, <1>7, <2>1, RowIsBare
<1>8. CASE x.name = "c"
  <2>1. e.kind = "CellStart" /\ f.kind = "CellEnd" BY <1>2, <1>4, <1>8
  <2> QED BY <1>2, <1>3, <1>8, <2>1, CellIsBare
<1> QED BY <1>5, <1>6, <1>7, <1>8 DEF Boundary

\* A dimension is opened where it is reported.
Opening(c, p, x) ==
    x.name = "dimension" /\ x.form = "open" /\ ~p.replacing /\ (c.inCell \/ TopLevel(c))

LEMMA ElementEvents ==
    ASSUME NEW c, NEW at, NEW x, IsTag(x), x.name \notin Boundary, NEW events,
           events = Events(c, at, x)
    PROVE  \/ events = << >> /\ ~c.inCell /\ ~TopLevel(c)
           \/ events = <<Event("CellValueMarkup", at, x)>> /\ c.inCell /\ IsValueName(x.name)
           \/ events = <<Event("Metadata", at, x)>> /\ (c.inCell \/ TopLevel(c))
<1>1. x.name \notin DOMAIN StartKind BY DEF StartKind, Boundary
<1> QED BY <1>1 DEF Events

LEMMA MetadataGoes ==
    ASSUME NEW c, NEW p, NEW at, NEW x, Ready(c, p, at, x), IsTag(x), x.name \notin Boundary,
           NEW kind, kind \in {"CellValueMarkup", "Metadata"},
           kind = "Metadata" => c.inCell \/ TopLevel(c), NEW e, e = Event(kind, at, x),
           NEW n, n = Consumed(p, request.upsert, wanted, e), ~Opening(c, p, x)
    PROVE  Goes(c, p, x, n)
<1>1. e = Event(e.kind, at, x) /\ e.kind = kind BY FieldsOf
<1>2. DOMAIN p = PatchFields /\ p.replacing \in BOOLEAN BY DEF Ready, Steady
<1>3. CASE p.replacing
  <2>1. e.kind # "CellStart" /\ kind # "CellEnd" BY <1>1
  <2>2. Dropped(p, n, kind) BY <1>1, <1>2, <1>3, <2>1, ConsumedOther
  <2>3. n.replacing \in BOOLEAN BY ReadyPatch
  <2>4. n.replacing /\ n.actions = p.actions BY <2>1, <2>2 DEF Dropped
  <2>5. Recalls(p, n) BY <2>2, <2>3 DEF Dropped, Recalls
  <2> QED BY <1>3, <2>4, <2>5, DroppedGoes
<1>4. CASE ~p.replacing
  <2>1. e.kind \in {"CellEnd", "CellValueMarkup", "Metadata", "Other"}
        /\ e.kind \in {"CellValueMarkup", "Metadata"}
    BY <1>1
  <2>2. PassedOn(p, n, e) BY <1>2, <1>4, <2>1, ConsumedOther
  <2>3. e.kind = "Metadata" => x.name # "dimension" \/ x.form # "open"
    BY <1>1, <1>4 DEF Opening
  <2> QED BY <1>1, <1>4, <2>1, <2>2, <2>3, MarkupGoes
<1> QED BY <1>3, <1>4

\* An element that is not reported.
LEMMA UnreportedGoes ==
    ASSUME NEW c, NEW p, NEW at, NEW x, Ready(c, p, at, x), IsTag(x), x.name \notin Boundary,
           ~c.inCell
    PROVE  Goes(c, p, x, p)
<1>1. /\ Legal(c) /\ ~Refuses(c, x) /\ Steady(c, p) /\ p.actions = << >>
      /\ DOMAIN p = PatchFields /\ p.replacing \in BOOLEAN /\ ~p.replacing
  BY DEF Ready, Steady
<1>2. PICK b : b = After(c, x) OBVIOUS
<1>3. b = c BY <1>1, <1>2, ValueEffect
<1>4. From(c, p, b) BY <1>1, <1>3, FromIdle
<1>5. Recalls(p, p) BY <1>1 DEF Recalls
<1> QED BY <1>1, <1>2, <1>4, <1>5, ElementGoes

\* The transformer before the events of a piece.
LEMMA IdleReady ==
    ASSUME Placed, NEW c, Legal(c), NEW p, Steady(c, p), NEW at, NEW x, source[at] = x,
           x \in [form : Forms, name : STRING, ref : Refs, bytes : Nat], ~Refuses(c, x),
           NEW idle, idle = [p EXCEPT !.actions = << >>]
    PROVE  /\ Ready(c, idle, at, x)
           /\ idle.replacing = p.replacing /\ idle.matched = p.matched
           /\ \A n : Goes(c, idle, x, n) => Goes(c, p, x, n)
<1>1. DOMAIN p = PatchFields BY DEF Steady
<1>2. PICK none : none = << >> OBVIOUS
<1>3. /\ DOMAIN idle = PatchFields /\ idle.actions = none /\ idle.replacing = p.replacing
      /\ idle.matched = p.matched /\ idle.inserted = p.inserted
      /\ idle.suppress = p.suppress /\ idle.seenData = p.seenData
  BY <1>1, <1>2 DEF PatchFields
<1>4. Steady(c, idle) BY <1>3 DEF Steady
<1>5. Ready(c, idle, at, x) BY <1>2, <1>3, <1>4 DEF Ready
<1>6. ASSUME NEW n, Goes(c, idle, x, n) PROVE Goes(c, p, x, n)
  <2>1. Doomed(c, idle) <=> Doomed(c, p) BY <1>3 DEF Doomed
  <2>2. \A d : Sees(c, idle, d) <=> Sees(c, p, d) BY <1>3 DEF Sees
  <2> QED BY <1>6, <2>1, <2>2 DEF Goes
<1> QED BY <1>3, <1>5, <1>6

LEMMA TransformedBy ==
    ASSUME NEW p, NEW upsert, NEW targets, NEW events, NEW n,
           n = Transformed(p, upsert, targets, events), ~n.refused,
           NEW idle, idle = [p EXCEPT !.actions = << >>], NEW e, NEW f
    PROVE  /\ events = << >> => n = idle
           /\ events = <<e>> => n = Consumed(idle, upsert, targets, e)
           /\ events = <<e, f>> =>
                 \E m : /\ m = Consumed(idle, upsert, targets, e) /\ ~m.refused
                        /\ n = Consumed(m, upsert, targets, f)
<1>1. /\ <<e>> # << >> /\ Len(<<e>>) = 1 /\ <<e>>[1] = e
      /\ <<e, f>> # << >> /\ Len(<<e, f>>) = 2 /\ <<e, f>>[1] = e /\ <<e, f>>[2] = f
  OBVIOUS
<1>2. PICK m : m = Consumed(idle, upsert, targets, events[1]) OBVIOUS
<1>3. n = IF events = << >> THEN idle
          ELSE IF Len(events) = 1 \/ m.refused THEN m
          ELSE Consumed(m, upsert, targets, events[2])
  BY <1>2 DEF Transformed
<1>4. CASE events = << >> BY <1>1, <1>3, <1>4
<1>5. CASE events = <<e>> BY <1>1, <1>2, <1>3, <1>5
<1>6. CASE events = <<e, f>>
  <2>1. ~m.refused /\ n = Consumed(m, upsert, targets, f) BY <1>1, <1>3, <1>6
  <2>2. m = Consumed(idle, upsert, targets, e) BY <1>1, <1>2, <1>6
  <2>3. events # << >> /\ events # <<e>> BY <1>1, <1>6
  <2> QED BY <2>1, <2>2, <2>3
<1> QED BY <1>4, <1>5, <1>6

\* One piece of the source.
LEMMA PieceGoes ==
    ASSUME Placed, NEW c, Legal(c), NEW p, Steady(c, p), NEW at, NEW x, source[at] = x,
           x \in [form : Forms, name : STRING, ref : Refs, bytes : Nat], ~Refuses(c, x),
           ~Opening(c, p, x), NEW n,
           n = Transformed(p, request.upsert, wanted, Events(c, at, x)), ~n.refused
    PROVE  Goes(c, p, x, n)
<1>1. PICK idle : idle = [p EXCEPT !.actions = << >>] OBVIOUS
<1>2. /\ Ready(c, idle, at, x)
      /\ idle.replacing = p.replacing
      /\ Goes(c, idle, x, n) => Goes(c, p, x, n)
  BY <1>1, IdleReady
<1>3. PICK events : events = Events(c, at, x) OBVIOUS
<1>4. n = Transformed(p, request.upsert, wanted, events) BY <1>3
<1>5. CASE ~IsTag(x)
  <2>1. PICK e : e = Event("Other", at, x) OBVIOUS
  <2>2. events = <<e>> BY <1>3, <1>5, <2>1, EventsOfPiece
  <2>3. n = Consumed(idle, request.upsert, wanted, e) BY <1>1, <1>4, <2>2, TransformedBy
  <2>4. n.replacing \in BOOLEAN BY <1>2, <2>3, ReadyPatch
  <2>5. n = Consumed(idle, request.upsert, wanted, Event("Other", at, x)) BY <2>1, <2>3
  <2> QED BY <1>2, <1>5, <2>4, <2>5, PlainGoes
<1>6. CASE IsTag(x) /\ x.name \in Boundary /\ x.form # "self"
  <2>1. PICK e : e = Event(IF x.form = "open" THEN StartKind[x.name] ELSE EndKind[x.name], at, x)
    OBVIOUS
  <2>2. events = <<e>>
    <3>1. x.form = "open" \/ x.form = "close" BY <1>6 DEF IsTag
    <3> QED BY <1>3, <1>6, <2>1, <3>1, EventsOfPiece
  <2>3. n = Consumed(idle, request.upsert, wanted, e) BY <1>1, <1>4, <2>2, TransformedBy
  <2> QED BY <1>2, <1>6, <2>1, <2>3, BoundaryGoes
<1>7. CASE IsTag(x) /\ x.name \in Boundary /\ x.form = "self"
  <2>1. PICK e, f : e = Event(StartKind[x.name], at, x) /\ f = Event(EndKind[x.name], at, x)
    OBVIOUS
  <2>2. events = <<e, f>> BY <1>3, <1>7, <2>1, EventsOfPiece
  <2>3. PICK m : /\ m = Consumed(idle, request.upsert, wanted, e) /\ ~m.refused
                 /\ n = Consumed(m, request.upsert, wanted, f)
    BY <1>1, <1>4, <2>2, TransformedBy
  <2> QED BY <1>2, <1>7, <2>1, <2>3, BareBoundaryGoes
<1>8. CASE IsTag(x) /\ x.name \notin Boundary
  <2>1. CASE events = << >> /\ ~c.inCell /\ ~TopLevel(c)
    <3>1. n = idle BY <1>1, <1>4, <2>1, TransformedBy
    <3> QED BY <1>2, <1>8, <2>1, <3>1, UnreportedGoes
  <2>2. ASSUME NEW kind, kind \in {"CellValueMarkup", "Metadata"},
               kind = "Metadata" => c.inCell \/ TopLevel(c), events = <<Event(kind, at, x)>>
        PROVE  Goes(c, p, x, n)
    <3>1. PICK e : e = Event(kind, at, x) OBVIOUS
    <3>2. events = <<e>> BY <2>2, <3>1
    <3>3. n = Consumed(idle, request.upsert, wanted, e) BY <1>1, <1>4, <3>2, TransformedBy
    <3>4. ~Opening(c, idle, x) BY <1>2 DEF Opening
    <3> QED BY <1>2, <1>8, <2>2, <3>1, <3>3, <3>4, MetadataGoes
  <2>3. CASE events = <<Event("CellValueMarkup", at, x)>>
    <3>1. PICK kind : kind = "CellValueMarkup" OBVIOUS
    <3> QED BY <2>2, <2>3, <3>1
  <2>4. CASE events = <<Event("Metadata", at, x)>> /\ (c.inCell \/ TopLevel(c))
    <3>1. PICK kind : kind = "Metadata" OBVIOUS
    <3> QED BY <2>2, <2>4, <3>1
  <2> QED BY <1>3, <1>8, <2>1, <2>3, <2>4, ElementEvents
<1> QED BY <1>5, <1>6, <1>7, <1>8

\* The opening tag of a dimension.
LEMMA OpeningGoes ==
    ASSUME Placed, NEW c, Legal(c), NEW p, Steady(c, p), NEW at, NEW x, source[at] = x,
           x \in [form : Forms, name : STRING, ref : Refs, bytes : Nat], ~Refuses(c, x),
           Opening(c, p, x), NEW n,
           n = Transformed(p, request.upsert, wanted, Events(c, at, x)), ~n.refused
    PROVE  /\ After(c, x) = c /\ Steady(c, n) /\ (Doomed(c, p) => Doomed(c, n))
           /\ Sees(c, p, c) /\ Sees(c, n, c) /\ ~n.replacing /\ OpensOne(c, n)
<1>1. PICK idle : idle = [p EXCEPT !.actions = << >>] OBVIOUS
<1>2. /\ Ready(c, idle, at, x)
      /\ idle.replacing = p.replacing /\ idle.matched = p.matched
  BY <1>1, IdleReady
<1>3. IsTag(x) /\ x.name \notin Boundary /\ ~IsValueName(x.name) /\ ~idle.replacing
  BY <1>2 DEF Opening, IsTag, Boundary, IsValueName
<1>4. PICK kind, e : kind = "Metadata" /\ e = Event(kind, at, x) OBVIOUS
<1>5. Events(c, at, x) = <<e>>
  <2>1. c.inCell \/ TopLevel(c) BY DEF Opening
  <2> QED BY <1>3, <1>4, <2>1, ElementEvents
<1>6. n = Consumed(idle, request.upsert, wanted, e)
  BY <1>1, <1>5, TransformedBy
<1>7. PassedOn(idle, n, e)
  <2>1. DOMAIN idle = PatchFields BY <1>2 DEF Ready, Steady
  <2>2. e.kind = "Metadata"
    BY <1>4, FieldsOf
  <2>3. e.kind \in {"CellEnd", "CellValueMarkup", "Metadata", "Other"} BY <2>2
  <2> QED BY <1>3, <1>6, <2>1, <2>3, ConsumedOther
<1>8. x.name = "dimension" /\ x.form = "open" BY DEF Opening
<1>9. /\ After(c, x) = c /\ Steady(c, n) /\ (Doomed(c, idle) => Doomed(c, n))
      /\ Sees(c, idle, c) /\ Sees(c, n, c) /\ ~n.replacing /\ OpensOne(c, n)
  BY <1>2, <1>3, <1>4, <1>7, <1>8, DimensionOpens
<1>10. Doomed(c, idle) <=> Doomed(c, p) BY <1>2 DEF Doomed
<1>11. Sees(c, idle, c) <=> Sees(c, p, c) BY <1>2 DEF Sees
<1> QED BY <1>9, <1>10, <1>11

-----------------------------------------------------------------------------
(* One reading of the worksheet, and where it leads.                       *)

\* What piece i makes of the transformer and of the reader.
Turns(c, p, i, n, b) ==
    /\ n = Transformed(p, request.upsert, wanted, Events(c, i, source[i]))
    /\ b = After(c, source[i])
    /\ ~n.refused /\ ~Refuses(c, source[i])

Course(P, C, n) ==
    /\ P[0] = Idle /\ C[0] = Outset
    /\ \A i \in 0 .. n : Legal(C[i]) /\ Steady(C[i], P[i]) /\ IsPatch(P[i])
    /\ \A i \in 0 .. n : Doomed(C[i], P[i]) => Doomed(C[n], P[n])
    /\ \A i \in 1 .. n : Turns(C[i - 1], P[i - 1], i, P[i], C[i])

LEMMA PieceType ==
    ASSUME request \in Requests, NEW i \in 1 .. Len(source)
    PROVE  source[i] \in [form : Forms, name : STRING, ref : Refs, bytes : Nat]
<1>1. PICK S : S = [form : Forms, name : STRING, ref : Refs, bytes : Nat] OBVIOUS
<1>2. source \in Seq(S) BY <1>1, SourceType DEF Markup
<1>3. source[i] \in S BY <1>2
<1> QED BY <1>1, <1>3

LEMMA OneTurn ==
    ASSUME Placed, NEW c, Legal(c), NEW p, Steady(c, p), IsPatch(p), NEW i \in 1 .. Len(source),
           NEW n, NEW b, Turns(c, p, i, n, b)
    PROVE  /\ Legal(b) /\ Steady(b, n) /\ IsPatch(n)
           /\ Doomed(c, p) => Doomed(b, n)
<1>1. PICK x : x = source[i] OBVIOUS
<1>0. source[i] = x BY <1>1
<1>2. x \in [form : Forms, name : STRING, ref : Refs, bytes : Nat]
  BY <1>1, PieceType DEF Placed
<1>3. /\ n = Transformed(p, request.upsert, wanted, Events(c, i, x)) /\ ~n.refused
      /\ b = After(c, x) /\ ~Refuses(c, x)
  BY <1>1 DEF Turns
<1>4. Legal(b) BY <1>3, LegalStep
<1>5. IsPatch(n)
  <2>1. TakesPiece(p, n, i, x)
    BY <1>3, TransformedTakes DEF Placed
  <2> QED BY <2>1 DEF TakesPiece
<1>6. CASE Opening(c, p, x)
  <2>1. /\ After(c, x) = c /\ Steady(c, n) /\ (Doomed(c, p) => Doomed(c, n))
    BY ONLY Placed, Legal(c), Steady(c, p), <1>0, <1>1, <1>2, <1>3, <1>6, OpeningGoes
  <2> QED BY <1>3, <1>4, <1>5, <2>1
<1>7. CASE ~Opening(c, p, x)
  <2>1. Goes(c, p, x, n)
    BY ONLY Placed, Legal(c), Steady(c, p), <1>0, <1>1, <1>2, <1>3, <1>7, PieceGoes
  <2> QED BY <1>3, <1>4, <1>5, <2>1 DEF Goes
<1> QED BY <1>6, <1>7

LEMMA CourseStarts ==
    LET P == [i \in 0 .. 0 |-> Idle]
        C == [i \in 0 .. 0 |-> Outset]
    IN  Course(P, C, 0) /\ P[0] = Idle /\ C[0] = Outset
<1> DEFINE P == [i \in 0 .. 0 |-> Idle]
           C == [i \in 0 .. 0 |-> Outset]
<1>1. IsPatch(Idle) /\ Steady(Outset, Idle)
  BY EmptyList DEF IsPatch, Idle, PatchFields, Steady, Outset
<1>2. P[0] = Idle /\ C[0] = Outset OBVIOUS
<1>3. /\ \A i \in 0 .. 0 : i = 0
      /\ \A i \in 1 .. 0 : FALSE
  OBVIOUS
<1> HIDE DEF P, C
<1>4. Course(P, C, 0) BY <1>1, <1>2, <1>3, PlacesLegal DEF Course
<1> QED BY <1>2, <1>4 DEF P, C

LEMMA CourseGoesOn ==
    ASSUME Placed, NEW P, NEW C, NEW n \in Nat, Course(P, C, n), n + 1 \in 1 .. Len(source),
           NEW next, NEW ctx, Turns(C[n], P[n], n + 1, next, ctx)
    PROVE  \E Q, D : Course(Q, D, n + 1) /\ Q[n + 1] = next /\ D[n + 1] = ctx
<1> DEFINE Q == [i \in 0 .. n + 1 |-> IF i = n + 1 THEN next ELSE P[i]]
           D == [i \in 0 .. n + 1 |-> IF i = n + 1 THEN ctx ELSE C[i]]
<1>1. n \in 0 .. n /\ n + 1 \in 0 .. n + 1 /\ 0 \in 0 .. n OBVIOUS
<1>2. Legal(C[n]) /\ Steady(C[n], P[n]) /\ IsPatch(P[n]) BY <1>1 DEF Course
<1>3. /\ Legal(ctx) /\ Steady(ctx, next) /\ IsPatch(next)
      /\ Doomed(C[n], P[n]) => Doomed(ctx, next)
  <2>1. PICK c, p, i : c = C[n] /\ p = P[n] /\ i = n + 1 OBVIOUS
  <2>0. i \in 1 .. Len(source) BY <2>1
  <2>2. Turns(c, p, i, next, ctx) BY <2>1
  <2>3. Legal(c) /\ Steady(c, p) /\ IsPatch(p) BY <1>2, <2>1
  <2>4. /\ Legal(ctx) /\ Steady(ctx, next) /\ IsPatch(next)
        /\ Doomed(c, p) => Doomed(ctx, next)
    BY <2>0, <2>2, <2>3, OneTurn
  <2> QED BY <2>1, <2>4
<1>4. /\ Q[n + 1] = next /\ D[n + 1] = ctx
      /\ \A i \in 0 .. n : Q[i] = P[i] /\ D[i] = C[i]
  OBVIOUS
<1>5. \A i \in 0 .. n + 1 : i \in 0 .. n \/ i = n + 1 OBVIOUS
<1>6. \A i \in 1 .. n + 1 : (i \in 1 .. n /\ i \in 0 .. n /\ i - 1 \in 0 .. n)
                            \/ (i = n + 1 /\ i - 1 = n)
  OBVIOUS
<1> HIDE DEF Q, D
<1>7. Q[0] = Idle /\ D[0] = Outset BY <1>1, <1>4 DEF Course
<1>8. \A i \in 0 .. n + 1 : Legal(D[i]) /\ Steady(D[i], Q[i]) /\ IsPatch(Q[i])
  BY <1>3, <1>4, <1>5 DEF Course
<1>9. \A i \in 0 .. n + 1 : Doomed(D[i], Q[i]) => Doomed(D[n + 1], Q[n + 1])
  BY <1>3, <1>4, <1>5 DEF Course
<1>10. ASSUME NEW i \in 1 .. n + 1 PROVE Turns(D[i - 1], Q[i - 1], i, Q[i], D[i])
  <2>1. CASE i = n + 1
    <3>1. Q[i] = next /\ D[i] = ctx /\ Q[i - 1] = P[n] /\ D[i - 1] = C[n]
      BY <1>1, <1>4, <1>6, <2>1
    <3> QED BY <2>1, <3>1
  <2>2. CASE i # n + 1
    <3>1. i \in 1 .. n /\ i \in 0 .. n /\ i - 1 \in 0 .. n BY <1>6, <2>2
    <3>2. Q[i] = P[i] /\ D[i] = C[i] /\ Q[i - 1] = P[i - 1] /\ D[i - 1] = C[i - 1]
      BY <1>4, <3>1
    <3> QED BY <3>1, <3>2 DEF Course
  <2> QED BY <2>1, <2>2
<1>11. Course(Q, D, n + 1) BY <1>7, <1>8, <1>9, <1>10 DEF Course
<1> QED BY <1>4, <1>11

-----------------------------------------------------------------------------
(* What the second pass writes of one piece.                               *)

OpensContent(actions) == \E a \in ToSet(actions) : IsDimension(a) /\ ~a.closing /\ ~a.self
ClosesContent(actions) == \E a \in ToSet(actions) : IsDimension(a) /\ a.closing

LEMMA InList ==
    ASSUME NEW q, IsList(q), NEW a \in ToSet(q)
    PROVE  \E i \in 1 .. Len(q) : a = q[i]
<1>1. PICK n \in Nat : n = Len(q) BY DEF IsList
<1>2. q = [i \in 1 .. n |-> q[i]] BY <1>1 DEF IsList
<1>3. DOMAIN q = 1 .. n BY <1>2
<1> QED BY <1>1, <1>3 DEF ToSet

\* A quiet path over actions is one over what is written of them.
LEMMA QuietWritten ==
    ASSUME NEW c, NEW actions, NEW d, Path("quiet", c, actions, d)
    PROVE  /\ ~OpensContent(actions)
           /\ Path("action", c, actions, d)
<1>1. IsList(actions) BY DEF Path
<1>2. PICK k : /\ k[0] = c /\ k[Len(actions)] = d
               /\ \A i \in 1 .. Len(actions) : Moves("quiet", k[i - 1], actions[i], k[i])
  BY DEF Path
<1>3. ASSUME NEW i \in 1 .. Len(actions)
      PROVE  Quiet(actions[i]) /\ Moves("action", k[i - 1], actions[i], k[i])
  <2>1. PICK e, x, f : e = k[i - 1] /\ x = actions[i] /\ f = k[i] OBVIOUS
  <2>2. Moves("quiet", e, x, f) BY <1>2, <2>1
  <2>3. Quiet(x) /\ Moves("action", e, x, f) BY <2>2, PathsRead
  <2> QED BY <2>1, <2>3
<1>4. ~OpensContent(actions) BY <1>1, <1>3, InList DEF OpensContent, Quiet
<1>5. Path("action", c, actions, d) BY <1>1, <1>2, <1>3 DEF Path
<1> QED BY <1>4, <1>5

LEMMA ActionsWritten ==
    ASSUME NEW c, NEW actions, NEW d, Path("action", c, actions, d)
    PROVE  Path("item", c, FlattenSeq([i \in DOMAIN actions |-> WrittenAs(actions[i])]), d)
<1>1. PICK n \in Nat : n = Len(actions) BY DEF Path, IsList
<1>2. DOMAIN actions = 1 .. n
  <2>1. actions = [i \in 1 .. n |-> actions[i]] BY <1>1 DEF Path, IsList
  <2> QED BY <2>1
<1>3. PICK k : /\ k[0] = c /\ k[n] = d
               /\ \A i \in 1 .. n : Moves("action", k[i - 1], actions[i], k[i])
  BY <1>1 DEF Path
<1> DEFINE ss == [i \in 1 .. n |-> WrittenAs(actions[i])]
<1>4. IsList(ss) /\ Len(ss) = n BY DEF IsList
<1>5. \A i \in 1 .. n : ss[i] = WrittenAs(actions[i]) OBVIOUS
<1> HIDE DEF ss
<1>6. ASSUME NEW i \in 1 .. Len(ss) PROVE Path("item", k[i - 1], ss[i], k[i])
  <2>1. PICK e, x, f : e = k[i - 1] /\ x = actions[i] /\ f = k[i] OBVIOUS
  <2>2. Moves("action", e, x, f) BY <1>3, <1>4, <2>1
  <2>3. Path("item", e, WrittenAs(x), f) BY <2>2, PathsRead
  <2> QED BY <1>4, <1>5, <2>1, <2>3
<1>7. Path("item", k[0], FlattenSeq(ss), k[Len(ss)])
  <2>1. PICK level : level = "item" OBVIOUS
  <2>2. \A i \in 1 .. Len(ss) : Path(level, k[i - 1], ss[i], k[i]) BY <1>6, <2>1
  <2>3. Path(level, k[0], FlattenSeq(ss), k[Len(ss)]) BY <1>4, <2>2, PathFlattened
  <2> QED BY <2>1, <2>3
<1> QED BY <1>2, <1>3, <1>4, <1>7 DEF ss

\* Within a dimension that is dropped.
Held(c, p) == Legal(c) /\ Steady(c, p) /\ ~p.replacing /\ (c.inCell \/ TopLevel(c))

LEMMA HeldSees ==
    ASSUME NEW c, NEW p, Held(c, p), NEW d
    PROVE  Sees(c, p, d) <=> d = c
<1>1. ~c.closed BY DEF Held, Legal, TopLevel
<1> QED BY <1>1 DEF Held, Sees

\* A piece that is no boundary is copied, wherever it is.
LEMMA HeldPiece ==
    ASSUME NEW c, NEW p, Held(c, p), NEW i, NEW n, NEW b, Turns(c, p, i, n, b),
           NEW x, x = source[i], Steady(b, n), Legal(b),
           ~IsTag(x) \/ (x.name = "dimension" /\ x.form = "close")
    PROVE  /\ b = c /\ Held(b, n)
           /\ ~IsTag(x) => ~ClosesContent(n.actions)
           /\ IsTag(x) => ClosesContent(n.actions)
<1>1. /\ n = Transformed(p, request.upsert, wanted, Events(c, i, x)) /\ ~n.refused
      /\ b = After(c, x) /\ ~Refuses(c, x)
  BY DEF Turns
<1>2. PICK idle : idle = [p EXCEPT !.actions = << >>] OBVIOUS
<1>3. /\ DOMAIN p = PatchFields /\ p.replacing = FALSE
  BY DEF Held, Steady
<1>4. DOMAIN idle = PatchFields /\ ~idle.replacing /\ idle.actions = << >>
  BY <1>2, <1>3 DEF PatchFields
<1>5. PICK kind, e : /\ kind = IF IsTag(x) THEN "Metadata" ELSE "Other"
                     /\ e = Event(kind, i, x)
  OBVIOUS
<1>6. Events(c, i, x) = <<e>>
  <2>1. CASE ~IsTag(x) BY <1>5, <2>1, EventsOfPiece
  <2>2. CASE IsTag(x)
    <3>1. x.name \notin Boundary /\ ~IsValueName(x.name) BY <2>2 DEF Boundary, IsValueName
    <3>2. c.inCell \/ TopLevel(c) BY DEF Held
    <3>3. kind = "Metadata" BY <1>5, <2>2
    <3>4. Events(c, i, x) = <<Event("Metadata", i, x)>>
      BY <2>2, <3>1, <3>2, ElementEvents
    <3> QED BY <1>5, <3>3, <3>4
  <2> QED BY <2>1, <2>2
<1>7. n = Consumed(idle, request.upsert, wanted, e)
  <2>1. PICK events : events = Events(c, i, x) OBVIOUS
  <2>2. n = Transformed(p, request.upsert, wanted, events) /\ events = <<e>> BY <1>1, <1>6, <2>1
  <2> QED BY <1>1, <1>2, <2>2, TransformedBy
<1>8. PassedOn(idle, n, e)
  <2>1. e.kind = kind BY <1>5, FieldsOf
  <2>2. e.kind \in {"CellEnd", "CellValueMarkup", "Metadata", "Other"} BY <1>5, <2>1
  <2> QED BY <1>4, <1>7, <2>2, ConsumedOther
<1>9. ~n.replacing BY <1>4, <1>8 DEF PassedOn, Took
<1>10. b = c
  <2>1. CASE ~IsTag(x) BY <1>1, <2>1, OtherEffect
  <2>2. CASE IsTag(x)
    <3>1. x.name \notin Boundary BY <2>2 DEF Boundary
    <3> QED BY <1>1, <2>2, <3>1, ValueEffect DEF Held
  <2> QED BY <2>1, <2>2
<1>11. PICK a : a = Action("copy", e) OBVIOUS
<1>12. n.actions = <<a>>
  <2>1. n.actions = idle.actions \o PassThrough(e) BY <1>8 DEF PassedOn, Extends
  <2>2. PassThrough(e) = <<a>> BY <1>11 DEF PassThrough
  <2>3. << >> \o <<a>> = <<a>> OBVIOUS
  <2> QED BY <1>4, <2>1, <2>2, <2>3
<1>13. a.kind = kind /\ a.name = x.name /\ a.closing = (x.form = "close")
  BY <1>5, <1>11 DEF Action, Event
<1>14. ToSet(n.actions) = {a} BY <1>12, SingleList
<1>15. ~IsTag(x) => ~ClosesContent(n.actions) BY <1>5, <1>13, <1>14 DEF ClosesContent, IsDimension
<1>16. IsTag(x) => ClosesContent(n.actions) BY <1>5, <1>13, <1>14 DEF ClosesContent, IsDimension
<1>17. Held(b, n) BY <1>9, <1>10 DEF Held
<1> QED BY <1>10, <1>15, <1>16, <1>17

-----------------------------------------------------------------------------
(* The output read back so far.                                            *)

\* What an opened dimension holds is being dropped.
Skips(P, C, n) ==
    /\ Held(C[n], P[n])
    /\ \E k \in 1 .. n : /\ source[k].name = "dimension" /\ source[k].form = "open"
                         /\ \A i \in k + 1 .. n : ~IsTag(source[i])

RereadSoFar(P, C, n) ==
    \E q, d : /\ q = output.items /\ Path("item", Outset, q, d)
              /\ Sees(C[n], P[n], d)
              /\ output.skipping => Skips(P, C, n)

LEMMA PathPrimed ==
    ASSUME UNCHANGED <<request, analysis>>, NEW level, NEW c, NEW q, NEW d, Path(level, c, q, d)
    PROVE  Path(level, c, q, d)'
<1>1. source' = source /\ wanted' = wanted BY DEF source, wanted
<1>2. ASSUME NEW x PROVE PiecesOf(x)' = PiecesOf(x)
  BY <1>1 DEF PiecesOf, PayloadOf, PieceOf
<1>3. ASSUME NEW x PROVE WrittenAs(x)' = WrittenAs(x)
  BY DEF WrittenAs
<1>4. ASSUME NEW a, NEW items, NEW b PROVE ReadsItems(a, items, b)' <=> ReadsItems(a, items, b)
  BY <1>2 DEF ReadsItems
<1>5. ASSUME NEW a, NEW x, NEW b PROVE Moves(level, a, x, b)' <=> Moves(level, a, x, b)
  BY <1>2, <1>3, <1>4 DEF Moves
<1> QED BY <1>5 DEF Path

\* The dropped content of a dimension ends before the next tag.
LEMMA SkippedPiece ==
    ASSUME request \in Requests, DimensionsHoldNoTags, NEW n \in 0 .. Len(source) - 1,
           NEW k \in 1 .. n, source[k].name = "dimension", source[k].form = "open",
           \A i \in k + 1 .. n : ~IsTag(source[i])
    PROVE  \/ ~IsTag(source[n + 1])
           \/ source[n + 1].name = "dimension" /\ source[n + 1].form = "close"
<1>1. Len(source) \in Nat /\ k \in DOMAIN source
  <2>1. PICK S : S = [form : Forms, name : STRING, ref : Refs, bytes : Nat] OBVIOUS
  <2>2. source \in Seq(S) BY <2>1, SourceType DEF Markup
  <2> QED BY <2>2
<1>2. PICK e \in k + 1 .. Len(source) :
         /\ source[e].name = "dimension" /\ source[e].form = "close"
         /\ \A i \in (k + 1) .. (e - 1) : ~IsTag(source[i])
  BY <1>1 DEF DimensionsHoldNoTags
<1>3. IsTag(source[e]) BY <1>2 DEF IsTag
<1>4. e \notin k + 1 .. n BY <1>3
<1>5. e = n + 1 \/ n + 1 \in (k + 1) .. (e - 1) BY <1>1, <1>4
<1> QED BY <1>2, <1>5

\* A piece behind which nothing is dropped.
LEMMA WritesQuietly ==
    ASSUME NEW P, NEW C, NEW n \in Nat, NEW d, Path("item", Outset, output.items, d),
           NEW e, NEW actions, output' = Written(actions), ~output.skipping,
           Path("action", d, actions, e)
    PROVE  /\ Path("item", Outset, output'.items, e)
           /\ output'.skipping = OpensContent(actions)
<1>1. PICK items, q : /\ items = output.items
                      /\ q = FlattenSeq([i \in DOMAIN actions |-> WrittenAs(actions[i])])
  OBVIOUS
<1>2. output'.items = items \o q /\ output'.skipping = OpensContent(actions)
  BY <1>1 DEF Written, OpensContent
<1>3. Path("item", d, q, e) BY <1>1, ActionsWritten
<1>4. Path("item", Outset, items \o q, e)
  <2>1. PICK level : level = "item" OBVIOUS
  <2>2. Path(level, Outset, items, d) /\ Path(level, d, q, e) BY <1>1, <1>3, <2>1
  <2>3. Path(level, Outset, items \o q, e) BY <2>2, PathJoined
  <2> QED BY <2>1, <2>3
<1> QED BY <1>2, <1>4

LEMMA RereadGoesOn ==
    ASSUME Placed, NEW P, NEW C, Course(P, C, Len(source)), ~Doomed(C[Len(source)], P[Len(source)]),
           NEW n \in 0 .. Len(source) - 1,
           output = [items |-> output.items, skipping |-> output.skipping],
           output.skipping \in BOOLEAN,
           DimensionsHoldNoTags, PayloadsFit, RereadSoFar(P, C, n),
           UNCHANGED <<request, analysis>>, output' = Written(P[n + 1].actions)
    PROVE  RereadSoFar(P, C, n + 1)'
<1>1. PICK c, p, b, m, x, i : /\ c = C[n] /\ p = P[n] /\ b = C[n + 1] /\ m = P[n + 1]
                              /\ x = source[n + 1] /\ i = n + 1
  OBVIOUS
<1>2. /\ Len(source) \in Nat /\ n \in 0 .. Len(source)
      /\ i \in 1 .. Len(source) /\ i \in 0 .. Len(source)
      /\ i - 1 = n /\ n \in Nat
  BY <1>1, SourceType DEF Placed
<1>3. /\ Legal(c) /\ Steady(c, p) /\ IsPatch(p) /\ Legal(b) /\ Steady(b, m) /\ IsPatch(m)
      /\ ~Doomed(b, m) /\ Turns(c, p, i, m, b)
  BY <1>1, <1>2 DEF Course
<1>4. x \in [form : Forms, name : STRING, ref : Refs, bytes : Nat] /\ source[i] = x
  <2>1. source[i] \in [form : Forms, name : STRING, ref : Refs, bytes : Nat]
    BY ONLY <1>2, Placed, PieceType DEF Placed
  <2> QED BY <1>1, <2>1
<1>5. /\ m = Transformed(p, request.upsert, wanted, Events(c, i, x)) /\ ~m.refused
      /\ b = After(c, x) /\ ~Refuses(c, x)
  BY <1>3, <1>4 DEF Turns
<1>6. source' = source /\ wanted' = wanted BY DEF source, wanted
<1>7. PICK d : /\ Path("item", Outset, output.items, d) /\ Sees(c, p, d)
               /\ output.skipping => Skips(P, C, n)
  BY <1>1 DEF RereadSoFar
<1>8. PICK actions : actions = m.actions OBVIOUS
<1>9. output' = Written(actions) BY <1>1, <1>8
<1>10. ASSUME NEW q, q = output'.items, NEW e, Path("item", Outset, q, e), Sees(b, m, e),
              output'.skipping => Skips(P, C, i)
       PROVE  RereadSoFar(P, C, n + 1)'
  <2>1. Path("item", Outset, q, e)' BY <1>10, PathPrimed
  <2>2. Sees(C[n + 1], P[n + 1], e)' BY <1>1, <1>10 DEF Sees
  <2>3. Skips(P, C, i)' <=> Skips(P, C, i) BY <1>6 DEF Skips, Held, Steady
  <2>4. \A s : s = i => (Skips(P, C, s)' <=> Skips(P, C, s))
    BY <1>6 DEF Skips, Held, Steady
  <2>5. output'.skipping => Skips(P, C, n + 1)' BY <1>1, <1>10, <2>4
  <2> QED BY <1>10, <2>1, <2>2, <2>5 DEF RereadSoFar
<1>11. CASE output.skipping
  <2>1. /\ output'.items = output.items /\ output'.skipping = ~ClosesContent(actions)
    <3>1. PICK flag \in BOOLEAN : flag = ~ClosesContent(actions) OBVIOUS
    <3>2. output' = [output EXCEPT !.skipping = flag]
      BY <1>9, <1>11, <3>1 DEF Written, ClosesContent
    <3> QED BY <3>1, <3>2
  <2>2. Held(c, p) BY <1>1, <1>7, <1>11 DEF Skips
  <2>3. PICK k \in 1 .. n : /\ source[k].name = "dimension" /\ source[k].form = "open"
                            /\ \A j \in k + 1 .. n : ~IsTag(source[j])
    BY <1>7, <1>11 DEF Skips
  <2>4. ~IsTag(x) \/ (x.name = "dimension" /\ x.form = "close")
    <3>1. request \in Requests BY DEF Placed
    <3> QED BY ONLY <3>1, <1>1, <2>3, DimensionsHoldNoTags, n \in 0 .. Len(source) - 1, SkippedPiece
  <2>5. /\ b = c /\ Held(b, m)
        /\ ~IsTag(x) => ~ClosesContent(m.actions)
        /\ IsTag(x) => ClosesContent(m.actions)
    <3>1. x = source[i] BY <1>4
    <3> QED BY ONLY <1>3, <2>2, <2>4, <3>1, HeldPiece
  <2>6. d = c BY <1>7, <2>2, HeldSees
  <2>7. Sees(b, m, d) BY <2>5, <2>6, HeldSees
  <2>8. output'.skipping => Skips(P, C, i)
    <3>1. SUFFICES ASSUME output'.skipping PROVE Skips(P, C, i) OBVIOUS
    <3>2. ~IsTag(x) BY <1>8, <2>1, <2>5, <3>1
    <3>3. \A j \in k + 1 .. i : j \in k + 1 .. n \/ j = i BY <1>1, <1>2
    <3>4. \A j \in k + 1 .. i : ~IsTag(source[j]) BY <1>4, <2>3, <3>2, <3>3
    <3>5. k \in 1 .. i BY <1>1, <1>2
    <3>6. Held(C[i], P[i]) BY <1>1, <2>5
    <3> QED BY <2>3, <3>4, <3>5, <3>6 DEF Skips
  <2>9. PICK q : q = output'.items OBVIOUS
  <2>10. Path("item", Outset, q, d) BY <1>7, <2>1, <2>9
  <2> QED BY <1>10, <2>7, <2>8, <2>9, <2>10
<1>12. CASE ~output.skipping /\ Opening(c, p, x)
  <2>1. /\ After(c, x) = c /\ Sees(c, p, c) /\ Sees(c, m, c) /\ ~m.replacing /\ OpensOne(c, m)
    BY ONLY Placed, <1>3, <1>4, <1>5, <1>12, OpeningGoes
  <2>2. PICK a : /\ actions = <<a>> /\ IsDimension(a) /\ ~a.closing /\ ~a.self
                 /\ Path("action", c, <<a>>, c)
    BY <1>8, <2>1 DEF OpensOne
  <2>3. b = c /\ Held(b, m)
    BY <1>3, <1>5, <1>12, <2>1 DEF Held, Opening
  <2>4. Held(c, p) BY <1>3, <1>12 DEF Held, Opening
  <2>5. d = c BY <1>7, <2>4, HeldSees
  <2>6. Path("action", d, actions, c) BY <2>2, <2>5
  <2>7. PICK q : q = output'.items OBVIOUS
  <2>8. Path("item", Outset, q, c)
    BY <1>2, <1>7, <1>9, <1>12, <2>6, <2>7, WritesQuietly
  <2>9. Skips(P, C, i)
    <3>1. i \in 1 .. i /\ \A j \in i + 1 .. i : FALSE BY <1>2
    <3>2. source[i].name = "dimension" /\ source[i].form = "open" BY <1>4, <1>12 DEF Opening
    <3>3. Held(C[i], P[i]) BY <1>1, <2>3
    <3> QED BY <3>1, <3>2, <3>3 DEF Skips
  <2>10. Sees(b, m, c) BY <2>1, <2>3
  <2> QED BY <1>10, <2>7, <2>8, <2>9, <2>10
<1>13. CASE ~output.skipping /\ ~Opening(c, p, x)
  <2>1. Goes(c, p, x, m)
    BY ONLY Placed, <1>3, <1>4, <1>5, <1>13, PieceGoes
  <2>2. PICK e : Sees(b, m, e) /\ From(d, m, e)
    BY <1>3, <1>5, <1>7, <2>1 DEF Goes
  <2>3. Path("quiet", d, actions, e) BY <1>8, <2>2 DEF From
  <2>4. ~OpensContent(actions) /\ Path("action", d, actions, e) BY <2>3, QuietWritten
  <2>5. PICK q : q = output'.items OBVIOUS
  <2>6. Path("item", Outset, q, e) /\ ~output'.skipping
    BY <1>2, <1>7, <1>9, <1>13, <2>4, <2>5, WritesQuietly
  <2> QED BY <1>10, <2>2, <2>5, <2>6
<1> QED BY <1>11, <1>12, <1>13

-----------------------------------------------------------------------------
(* Planning byte ranges.                                                   *)

\* The scanner's reading of the first n pieces.
Scanning(C, n) ==
    /\ C[0] = Outset
    /\ \A i \in 0 .. n : Legal(C[i])
    /\ \A i \in 1 .. n : ~Refuses(C[i - 1], source[i]) /\ C[i] = After(C[i - 1], source[i])

\* A range begins and ends between the cells of a row.
Begins(C, n, f) == f \in 1 .. n /\ C[f - 1] = InRowContext
WithinRow(C, n, range) ==
    \E f, l : /\ range = <<f, l>> /\ Begins(C, n, f)
              /\ l \in f .. n /\ C[l] = InRowContext

IsPlan(p) ==
    p = [found |-> p.found, active |-> p.active, dimension |-> p.dimension,
         refused |-> p.refused]

Planning(p, C, n) ==
    /\ IsPlan(p)
    /\ \A r \in DOMAIN p.found : r \in wanted /\ WithinRow(C, n, p.found[r])
    /\ C[n].inCell => Begins(C, n, p.active[1])

LEMMA RangedKeeps ==
    ASSUME NEW p, IsPlan(p), NEW ref, NEW first, NEW last, NEW n,
           n = Ranged(p, wanted, ref, first, last), ~n.refused
    PROVE  /\ IsPlan(n) /\ n.active = p.active
           /\ \A r \in DOMAIN n.found :
                 \/ r \in DOMAIN p.found /\ n.found[r] = p.found[r]
                 \/ r \in wanted /\ n.found[r] = <<first, last>>
<1>1. PICK hit, f, range : /\ hit = TargetAt(wanted, ref) /\ f = p.found
                           /\ range = <<first, last>>
  OBVIOUS
<1>2. PICK g : g = [r \in DOMAIN f \cup hit |-> IF r \in hit THEN range ELSE f[r]] OBVIOUS
<1>3. n = IF hit \cap DOMAIN f # {} THEN [p EXCEPT !.refused = TRUE] ELSE [p EXCEPT !.found = g]
  BY <1>1, <1>2 DEF Ranged
<1>4. [p EXCEPT !.refused = TRUE].refused = TRUE BY DEF IsPlan
<1>5. n = [p EXCEPT !.found = g] BY <1>3, <1>4
<1>6. IsPlan(n) /\ n.active = p.active /\ n.found = g BY <1>5 DEF IsPlan
<1>7. \A r \in DOMAIN g : (r \in DOMAIN f /\ g[r] = f[r]) \/ (r \in hit /\ g[r] = range)
  BY <1>2
<1>8. hit \subseteq wanted BY <1>1 DEF TargetAt
<1> QED BY <1>1, <1>6, <1>7, <1>8

LEMMA ScanningStarts ==
    \E C : Scanning(C, 0) /\ Planning(NoPlan, C, 0) /\ C[0] = Outset
<1> DEFINE C == [i \in 0 .. 0 |-> Outset]
<1>1. C[0] = Outset /\ (\A i \in 0 .. 0 : i = 0) /\ (\A i \in 1 .. 0 : FALSE) OBVIOUS
<1> HIDE DEF C
<1>2. Scanning(C, 0) BY <1>1, PlacesLegal DEF Scanning
<1>3. IsPlan(NoPlan) /\ DOMAIN NoPlan.found = {} BY DEF NoPlan, IsPlan
<1>4. ~C[0].inCell
  <2>1. ~Outset.inCell BY DEF Outset
  <2> QED BY <1>1, <2>1
<1> QED BY <1>1, <1>2, <1>3, <1>4 DEF Planning

LEMMA RangesKept ==
    ASSUME NEW C, NEW n \in Nat, NEW D, \A i \in 0 .. n : D[i] = C[i]
    PROVE  /\ \A f : Begins(C, n, f) => Begins(D, n + 1, f)
           /\ \A range : WithinRow(C, n, range) => WithinRow(D, n + 1, range)
<1>1. ASSUME NEW f, Begins(C, n, f) PROVE Begins(D, n + 1, f)
  <2>1. f \in 1 .. n /\ f - 1 \in 0 .. n BY <1>1 DEF Begins
  <2> QED BY <1>1, <2>1 DEF Begins
<1>2. ASSUME NEW range, WithinRow(C, n, range) PROVE WithinRow(D, n + 1, range)
  <2>1. PICK f, l : /\ range = <<f, l>> /\ Begins(C, n, f)
                    /\ l \in f .. n /\ C[l] = InRowContext
    BY <1>2 DEF WithinRow
  <2>2. f \in 1 .. n /\ l \in 0 .. n /\ l \in f .. n + 1 BY <2>1 DEF Begins
  <2> QED BY <1>1, <2>1, <2>2 DEF WithinRow
<1> QED BY <1>1, <1>2

\* What one piece makes of the plan.
LEMMA PlanningGoesOn ==
    ASSUME NEW p, NEW C, NEW n \in Nat, Planning(p, C, n), Legal(C[n]),
           NEW x, x = source[n + 1], ~Refuses(C[n], x), NEW D, \A i \in 0 .. n : D[i] = C[i],
           D[n + 1] = After(C[n], x), Legal(D[n + 1]),
           NEW q, q = Planned(p, wanted, n + 1, x), ~q.refused
    PROVE  Planning(q, D, n + 1)
<1>1. PICK c, d, k : c = C[n] /\ d = D[n + 1] /\ k = n + 1 OBVIOUS
<1>2. /\ Legal(c) /\ ~Refuses(c, x) /\ d = After(c, x) /\ Legal(d) /\ k \in Nat
      /\ k \in 1 .. k /\ k - 1 = n /\ n \in 0 .. n
  BY <1>1
<1>3. /\ \A f : Begins(C, n, f) => Begins(D, k, f)
      /\ \A range : WithinRow(C, n, range) => WithinRow(D, k, range)
  BY <1>1, RangesKept
<1>4. q = Planned(p, wanted, k, x) /\ D[n] = c /\ D[k] = d BY <1>1, <1>2
<1>5. IsPlan(p) /\ \A r \in DOMAIN p.found : r \in wanted /\ WithinRow(D, k, p.found[r])
  BY <1>3 DEF Planning
<1>6. c.inCell => Begins(D, k, p.active[1]) BY <1>1, <1>3 DEF Planning
<1>7. CASE x.name # "c" \/ ~IsTag(x)
  <2>1. q = p BY <1>4, <1>7 DEF Planned
  <2>2. d.inCell => c.inCell
    <3>1. CASE ~IsTag(x) BY <1>2, <3>1, OtherEffect
    <3>2. CASE IsTag(x) /\ x.name # "c" /\ x.name \in Boundary
      <4>1. PICK self \in BOOLEAN : self = (x.form # "self") OBVIOUS
      <4>2. x.name \in {"worksheet", "sheetData", "row"} BY <3>2 DEF Boundary
      <4>3. c \in Context BY <1>2 DEF Legal
      <4>4. DOMAIN c = {"opened", "closed", "seenData", "inData", "inRow", "inCell", "value"}
        BY <4>3 DEF Context
      <4>5. CASE x.form = "close"
        <5>1. d = AfterClosing(c, x.name) BY <1>2, <4>5 DEF After
        <5> QED BY <4>2, <4>4, <5>1 DEF AfterClosing, IsValueName
      <4>6. CASE x.form # "close"
        <5>1. d = AfterOpening(c, x.name, x.form = "self") BY <1>2, <3>2, <4>6 DEF After, IsTag
        <5> QED BY <4>2, <4>4, <5>1 DEF AfterOpening, IsValueName
      <4> QED BY <4>5, <4>6
    <3>3. CASE IsTag(x) /\ x.name \notin Boundary BY <1>2, <3>3, ValueEffect
    <3> QED BY <1>7, <3>1, <3>2, <3>3
  <2> QED BY <1>1, <1>4, <1>5, <1>6, <2>1, <2>2 DEF Planning
<1>8. CASE x.name = "c" /\ x.form = "open"
  <2>0. PICK out \in BOOLEAN : out = (x.form # "self") OBVIOUS
  <2>1. c.inRow /\ ~c.inCell
    <3>1. IsTag(x) /\ x.form # "close" BY <1>8 DEF IsTag
    <3> QED BY ONLY <3>1, <1>2, <1>8, <2>0, TagEffect
  <2>2. c = InRowContext BY <1>2, <2>1, LegalPlaces DEF Legal
  <2>3. q = [p EXCEPT !.active = <<k, x.ref>>] BY <1>4, <1>8 DEF Planned, IsTag
  <2>4. IsPlan(q) /\ q.found = p.found /\ q.active[1] = k BY <1>5, <2>3 DEF IsPlan
  <2>5. Begins(D, k, k) BY <1>2, <1>4, <2>2 DEF Begins
  <2> QED BY <1>1, <1>5, <2>4, <2>5 DEF Planning
<1>9. ASSUME NEW f, Begins(D, k, f), d = InRowContext, NEW ref, NEW m,
             m = Ranged(p, wanted, ref, f, k), ~m.refused
      PROVE  /\ IsPlan(m) /\ \A r \in DOMAIN m.found : r \in wanted /\ WithinRow(D, k, m.found[r])
             /\ ~d.inCell
  <2>1. /\ IsPlan(m)
        /\ \A r \in DOMAIN m.found : \/ r \in DOMAIN p.found /\ m.found[r] = p.found[r]
                                     \/ r \in wanted /\ m.found[r] = <<f, k>>
    BY <1>5, <1>9, RangedKeeps
  <2>2. k \in f .. k BY <1>2, <1>9 DEF Begins
  <2>3. WithinRow(D, k, <<f, k>>) BY <1>4, <1>9, <2>2 DEF WithinRow
  <2>4. ~d.inCell BY <1>9 DEF InRowContext
  <2> QED BY <1>5, <2>1, <2>3, <2>4
<1>10. CASE x.name = "c" /\ x.form = "self"
  <2>0. PICK out \in BOOLEAN : out = (x.form # "self") OBVIOUS
  <2>1. c.inRow /\ ~c.inCell /\ d = [c EXCEPT !.inCell = FALSE]
    <3>1. IsTag(x) /\ x.form # "close" BY <1>10 DEF IsTag
    <3>2. c.inRow /\ ~c.inCell /\ d = [c EXCEPT !.inCell = out]
      BY ONLY <3>1, <1>2, <1>10, <2>0, TagEffect
    <3>3. out = FALSE BY <1>10, <2>0
    <3> QED BY <3>2, <3>3
  <2>2. c = InRowContext BY <1>2, <2>1, LegalPlaces DEF Legal
  <2>3. d = InRowContext BY <2>1, <2>2 DEF InRowContext
  <2>4. q = Ranged(p, wanted, x.ref, k, k) BY <1>4, <1>10 DEF Planned, IsTag
  <2>5. Begins(D, k, k) BY <1>2, <1>4, <2>2 DEF Begins
  <2> QED BY <1>1, <1>9, <2>3, <2>4, <2>5 DEF Planning
<1>11. CASE x.name = "c" /\ x.form = "close"
  <2>1. c.inCell /\ c.value = "" /\ d = [c EXCEPT !.inCell = FALSE]
    <3>1. IsTag(x) BY <1>11 DEF IsTag
    <3> QED BY ONLY <3>1, <1>2, <1>11, TagEffect
  <2>2. d = InRowContext
    <3>1. d.inRow /\ d.inData /\ ~d.inCell BY <1>2, <2>1 DEF Legal, Context
    <3> QED BY <1>2, <3>1, LegalPlaces
  <2>3. PICK m : m = Ranged(p, wanted, p.active[2], p.active[1], k) OBVIOUS
  <2>4. q = [m EXCEPT !.active = <<0, NoRef>>] BY <1>4, <1>11, <2>3 DEF Planned, IsTag
  <2>5. IsPlan(m)
    <3>1. m = [p EXCEPT !.refused = TRUE]
          \/ \E g : m = [p EXCEPT !.found = g]
      BY <2>3 DEF Ranged
    <3> QED BY <1>5, <3>1 DEF IsPlan
  <2>6. IsPlan(q) /\ q.found = m.found /\ q.refused = m.refused BY <2>4, <2>5 DEF IsPlan
  <2>7. PICK f, ref : f = p.active[1] /\ ref = p.active[2] OBVIOUS
  <2>8. Begins(D, k, f) BY <1>6, <2>1, <2>7
  <2>9. \A r \in DOMAIN m.found : r \in wanted /\ WithinRow(D, k, m.found[r])
    BY <1>9, <2>2, <2>3, <2>6, <2>7, <2>8
  <2>10. ~d.inCell BY <2>2 DEF InRowContext
  <2> QED BY <1>1, <1>4, <2>6, <2>9, <2>10 DEF Planning
<1> QED BY <1>7, <1>8, <1>10, <1>11 DEF IsTag

-----------------------------------------------------------------------------
(* What the ranges leave and replace, read back.                           *)

LEMMA CopiedItem ==
    ASSUME NEW c, NEW at, NEW x, x = source[at], ~Refuses(c, x)
    PROVE  Path("item", c, <<CopyOf(source, at)>>, After(c, x))
<1>1. PICK y : y = CopyOf(source, at) OBVIOUS
<1>2. y.item = "copy" /\ y.at = at BY <1>1 DEF CopyOf
<1>3. PiecesOf(y) = <<x>> BY <1>2, ItemPieces
<1> QED BY <1>1, <1>3, PiecePath

LEMMA PayloadPut ==
    ASSUME request \in Requests, PayloadsFit, NEW r \in wanted
    PROVE  Path("item", InRowContext, <<Synthetic("cell", "CellStart", "c", r, FALSE)>>,
                InRowContext)
<1>1. PICK y : y = Synthetic("cell", "CellStart", "c", r, FALSE) OBVIOUS
<1>2. y.item \in {"cell", "insert"} /\ y.ref \in wanted BY <1>1 DEF Synthetic
<1>3. Path("item", InRowContext, <<y>>, InRowContext) BY <1>2, PayloadItem
<1> QED BY <1>1, <1>3

LEMMA RangedPath ==
    ASSUME request \in Requests, PayloadsFit, NEW p, NEW C, Scanning(C, Len(source)),
           Planning(p, C, Len(source))
    PROVE  Path("item", Outset, RangedOutput(p, source), C[Len(source)])
<1>1. PICK n \in Nat : n = Len(source) BY SourceType
<1>2. DOMAIN source = 1 .. n
  <2>1. PICK S : S = [form : Forms, name : STRING, ref : Refs, bytes : Nat] OBVIOUS
  <2>2. source \in Seq(S) BY <2>1, SourceType DEF Markup
  <2> QED BY <1>1, <2>2
<1>3. PICK hits, found : hits = DOMAIN p.found /\ found = p.found OBVIOUS
<1>4. ASSUME NEW r \in hits
      PROVE  /\ r \in wanted /\ found[r][1] \in 1 .. n /\ found[r][2] \in 1 .. n
             /\ C[found[r][1] - 1] = InRowContext /\ C[found[r][2]] = InRowContext
            /\ found[r][1] <= found[r][2]
  <2>1. r \in wanted /\ WithinRow(C, n, found[r]) BY <1>1, <1>3 DEF Planning
  <2>2. PICK f, l : /\ found[r] = <<f, l>> /\ Begins(C, n, f)
                    /\ l \in f .. n /\ C[l] = InRowContext
    BY <2>1 DEF WithinRow
  <2>3. f \in 1 .. n /\ C[f - 1] = InRowContext BY <2>2 DEF Begins
  <2>4. l \in 1 .. n BY <2>2, <2>3
  <2>5. found[r][1] = f /\ found[r][2] = l BY <2>2
  <2> QED BY <2>1, <2>2, <2>3, <2>4, <2>5
<1> DEFINE inside(at) == {r \in hits : found[r][1] <= at /\ at <= found[r][2]}
           ss == [at \in 1 .. n |->
                    CASE inside(at) = {} -> <<CopyOf(source, at)>>
                      [] \E r \in hits : found[r][1] = at ->
                            <<Synthetic("cell", "CellStart", "c",
                                        CHOOSE r \in hits : found[r][1] = at, FALSE)>>
                      [] OTHER -> << >>]
           Amid(at) == \E r \in hits : found[r][1] <= at /\ at < found[r][2]
           k == [at \in 0 .. n |-> IF Amid(at) THEN InRowContext ELSE C[at]]
<1>5. RangedOutput(p, source) = FlattenSeq(ss)
  BY <1>2, <1>3 DEF RangedOutput
<1>6. k[0] = Outset /\ k[n] = C[n]
  <2>1. ~Amid(0) BY <1>4
  <2>2. ~Amid(n) BY <1>4
  <2>3. C[0] = Outset BY DEF Scanning
  <2> QED BY <2>1, <2>2, <2>3
<1>7. IsList(ss) /\ Len(ss) = n BY DEF IsList
<1>8. ASSUME NEW at \in 1 .. n PROVE Path("item", k[at - 1], ss[at], k[at])
  <2>1. /\ at \in 0 .. n /\ at - 1 \in 0 .. n
        /\ k[at] = IF Amid(at) THEN InRowContext ELSE C[at]
        /\ k[at - 1] = IF Amid(at - 1) THEN InRowContext ELSE C[at - 1]
    OBVIOUS
  <2>2. /\ \A r \in hits : r \in inside(at) <=> found[r][1] <= at /\ at <= found[r][2]
        /\ Amid(at) <=> \E r \in hits : found[r][1] <= at /\ at < found[r][2]
        /\ Amid(at - 1) <=> \E r \in hits : found[r][1] <= at - 1 /\ at - 1 < found[r][2]
        /\ inside(at) \subseteq hits
    OBVIOUS
  <2>3. ss[at] = CASE inside(at) = {} -> <<CopyOf(source, at)>>
                   [] \E r \in hits : found[r][1] = at ->
                         <<Synthetic("cell", "CellStart", "c",
                                     CHOOSE r \in hits : found[r][1] = at, FALSE)>>
                   [] OTHER -> << >>
    OBVIOUS
  <2> HIDE DEF inside, ss, Amid, k
  <2>4. CASE inside(at) = {}
    <3>1. ~Amid(at) /\ ~Amid(at - 1) BY <1>4, <2>2, <2>4
    <3>2. k[at] = C[at] /\ k[at - 1] = C[at - 1] BY <2>1, <3>1
    <3>3. ~\E r \in hits : found[r][1] = at BY <1>4, <2>2, <2>4
    <3>4. ss[at] = <<CopyOf(source, at)>> BY <2>3, <2>4, <3>3
    <3>5. PICK c, x : c = C[at - 1] /\ x = source[at] OBVIOUS
    <3>6. ~Refuses(c, x) /\ C[at] = After(c, x) BY <1>1, <3>5 DEF Scanning
    <3> QED BY <3>2, <3>4, <3>5, <3>6, CopiedItem
  <2>5. CASE \E r \in hits : found[r][1] = at
    <3>1. PICK r : r = CHOOSE s \in hits : found[s][1] = at OBVIOUS
    <3>2. r \in hits /\ found[r][1] = at BY <2>5, <3>1
    <3>3. found[r][2] \in 1 .. n /\ r \in wanted /\ C[at - 1] = InRowContext
      BY <1>4, <3>2
    <3>4. k[at - 1] = InRowContext BY <2>1, <3>3
    <3>5. at <= found[r][2] /\ C[found[r][2]] = InRowContext BY <1>4, <3>2
    <3>6. inside(at) # {} BY <2>2, <3>2, <3>5
    <3>7. ss[at] = <<Synthetic("cell", "CellStart", "c", r, FALSE)>>
      BY <2>3, <2>5, <3>1, <3>6
    <3>8. k[at] = InRowContext
      <4>1. CASE at = found[r][2] BY <2>1, <3>5, <4>1
      <4>2. CASE at < found[r][2] BY <2>1, <2>2, <3>2, <4>2
      <4> QED BY <3>3, <3>5, <4>1, <4>2
    <3> QED BY <3>3, <3>4, <3>7, <3>8, PayloadPut
  <2>6. CASE inside(at) # {} /\ ~\E r \in hits : found[r][1] = at
    <3>1. PICK r \in hits : found[r][1] <= at /\ at <= found[r][2] BY <2>2, <2>6
    <3>2. found[r][1] # at BY <2>6
    <3>3. /\ found[r][1] \in 1 .. n /\ found[r][2] \in 1 .. n
          /\ C[found[r][2]] = InRowContext
      BY <1>4
    <3>4. found[r][1] <= at - 1 /\ at - 1 < found[r][2] BY <3>1, <3>2, <3>3
    <3>5. k[at - 1] = InRowContext BY <2>1, <2>2, <3>4
    <3>6. k[at] = InRowContext
      <4>1. CASE at = found[r][2] BY <2>1, <3>3, <4>1
      <4>2. CASE at < found[r][2] BY <2>1, <2>2, <3>1, <4>2
      <4> QED BY <3>1, <3>3, <4>1, <4>2
    <3>7. ss[at] = << >> BY <2>3, <2>6
    <3> QED BY <3>5, <3>6, <3>7, PathNone
  <2> QED BY <2>4, <2>5, <2>6
<1> HIDE DEF ss, k
<1>9. Path("item", k[0], FlattenSeq(ss), k[Len(ss)])
  <2>1. PICK level : level = "item" OBVIOUS
  <2>2. \A i \in 1 .. Len(ss) : Path(level, k[i - 1], ss[i], k[i]) BY <1>7, <1>8, <2>1
  <2>3. Path(level, k[0], FlattenSeq(ss), k[Len(ss)]) BY <1>7, <2>2, PathFlattened
  <2> QED BY <2>1, <2>3
<1> QED BY <1>1, <1>5, <1>6, <1>7, <1>9

-----------------------------------------------------------------------------
(* What holds while the worksheet is read and rewritten.                   *)

Indexing(C) ==
    \E p, n : /\ p = plan /\ n = scan.at /\ scan.ctx = C[n]
              /\ Scanning(C, n) /\ Planning(p, C, n)

Following(P, C) ==
    \E n : /\ n = scan.at /\ patch = P[n] /\ scan.ctx = C[n]
           /\ Course(P, C, n)

Rewriting(P, C) ==
    /\ \E n : n = scan.at /\ patch = P[n] /\ scan.ctx = C[n]
    /\ Course(P, C, Len(source)) /\ ~Doomed(C[Len(source)], P[Len(source)])
    /\ output = [items |-> output.items, skipping |-> output.skipping]
    /\ output.skipping \in BOOLEAN
    /\ DimensionsHoldNoTags /\ PayloadsFit => \E n : n = scan.at /\ RereadSoFar(P, C, n)

ReadsBack == \E q, d : q = output.items /\ Path("item", Outset, q, d) /\ ~RefusesEnd(d)

RereadInv ==
    /\ pass \in Passes => Placed
    /\ pass = "start" => plan = NoPlan
    /\ pass = "index" => \E C : Indexing(C)
    /\ pass = "analyze" => \E P, C : Following(P, C)
    /\ pass = "write" => \E P, C : Rewriting(P, C)
    /\ Rewritten /\ DimensionsHoldNoTags /\ PayloadsFit => ReadsBack

LEMMA Unchanging ==
    ASSUME request' = request
    PROVE  /\ source' = source /\ wanted' = wanted
           /\ Placed' <=> Placed
           /\ DimensionsHoldNoTags' <=> DimensionsHoldNoTags
           /\ PayloadsFit' <=> PayloadsFit
           /\ \A P, C, n : Course(P, C, n)' <=> Course(P, C, n)
           /\ \A C, n : Scanning(C, n)' <=> Scanning(C, n)
           /\ \A p, C, n : Planning(p, C, n)' <=> Planning(p, C, n)
           /\ \A c, p : Doomed(c, p)' <=> Doomed(c, p)
           /\ \A P, C, n : Skips(P, C, n)' <=> Skips(P, C, n)
<1>1. source' = source /\ wanted' = wanted BY DEF source, wanted
<1>2. Placed' <=> Placed BY <1>1 DEF Placed
<1>3. DimensionsHoldNoTags' <=> DimensionsHoldNoTags BY <1>1 DEF DimensionsHoldNoTags
<1>4. PayloadsFit' <=> PayloadsFit BY DEF PayloadsFit
<1>5. \A c, p : Steady(c, p)' <=> Steady(c, p) BY DEF Steady
<1>6. \A c, p : Doomed(c, p)' <=> Doomed(c, p) BY DEF Doomed
<1>7. \A c, p, i, n, b : Turns(c, p, i, n, b)' <=> Turns(c, p, i, n, b) BY <1>1 DEF Turns
<1>8. ASSUME NEW P, NEW C, NEW n PROVE Course(P, C, n)' <=> Course(P, C, n)
  BY <1>5, <1>6, <1>7 DEF Course
<1>9. ASSUME NEW C, NEW n PROVE Scanning(C, n)' <=> Scanning(C, n) BY <1>1 DEF Scanning
<1>10. ASSUME NEW p, NEW C, NEW n PROVE Planning(p, C, n)' <=> Planning(p, C, n)
  BY <1>1 DEF Planning
<1>11. ASSUME NEW P, NEW C, NEW n PROVE Skips(P, C, n)' <=> Skips(P, C, n)
  BY <1>1, <1>5 DEF Skips, Held
<1> QED BY <1>1, <1>2, <1>3, <1>4, <1>6, <1>8, <1>9, <1>10, <1>11

\* A step that neither passes a piece nor writes.
LEMMA RereadKept ==
    ASSUME RereadInv, UNCHANGED <<request, pass, plan, patch, analysis, output>>,
           scan'.at = scan.at, scan'.ctx = scan.ctx
    PROVE  RereadInv'
<1>1. request' = request /\ UNCHANGED <<request, analysis>> OBVIOUS
<1>2. ASSUME NEW q, NEW d, Path("item", Outset, q, d) PROVE Path("item", Outset, q, d)'
  BY <1>1, <1>2, PathPrimed
<1>3. \A C : Indexing(C) => Indexing(C)' BY <1>1, Unchanging DEF Indexing
<1>4. \A P, C : Following(P, C) => Following(P, C)' BY <1>1, Unchanging DEF Following
<1>5. ReadsBack => ReadsBack' BY <1>2 DEF ReadsBack
<1>6. ASSUME NEW P, NEW C, NEW n, RereadSoFar(P, C, n) PROVE RereadSoFar(P, C, n)'
  BY <1>1, <1>2, <1>6, Unchanging DEF RereadSoFar, Sees
<1>7. ASSUME NEW P, NEW C, Rewriting(P, C) PROVE Rewriting(P, C)'
  <2>1. /\ source' = source /\ (DimensionsHoldNoTags' <=> DimensionsHoldNoTags)
        /\ (PayloadsFit' <=> PayloadsFit)
        /\ \A n : Course(P, C, n)' <=> Course(P, C, n)
        /\ \A n : Doomed(C[n], P[n])' <=> Doomed(C[n], P[n])
    BY <1>1, Unchanging
  <2>2. Course(P, C, Len(source))' /\ ~Doomed(C[Len(source)], P[Len(source)])'
    BY <1>7, <2>1 DEF Rewriting
  <2>3. DimensionsHoldNoTags' /\ PayloadsFit' => (\E n : n = scan.at /\ RereadSoFar(P, C, n))'
    BY <1>6, <1>7, <2>1 DEF Rewriting
  <2> QED BY <1>7, <2>2, <2>3 DEF Rewriting
<1>8. Rewritten' <=> Rewritten BY DEF Rewritten
<1> QED BY <1>1, <1>3, <1>4, <1>5, <1>7, <1>8, Unchanging DEF RereadInv

\* A step that ends the call without a worksheet.
LEMMA RereadEnded ==
    ASSUME pass' \in {"refused", "failed", "rejected"}
    PROVE  RereadInv'
BY DEF RereadInv, Passes, Rewritten

LEMMA RereadAnalysisEntered ==
    ASSUME Placed, request' = request, Enter("analyze")
    PROVE  RereadInv'
<1>1. pass' = "analyze" /\ scan'.at = 0 /\ scan'.ctx = Outset /\ patch' = Idle
  BY DEF Enter, Fresh
<1>2. PICK P, C : Course(P, C, 0) /\ P[0] = Idle /\ C[0] = Outset BY CourseStarts
<1>3. Course(P, C, 0)' /\ Placed' BY <1>2, Unchanging
<1>4. Following(P, C)' BY <1>1, <1>2, <1>3 DEF Following
<1> QED BY <1>1, <1>3, <1>4 DEF RereadInv, Rewritten

LEMMA RereadIndexEntered ==
    ASSUME Placed, request' = request, Enter("index"), plan' = NoPlan
    PROVE  RereadInv'
<1>1. pass' = "index" /\ scan'.at = 0 /\ scan'.ctx = Outset
  BY DEF Enter, Fresh
<1>2. PICK C, p : Scanning(C, 0) /\ p = NoPlan /\ Planning(p, C, 0) /\ C[0] = Outset
  BY ScanningStarts
<1>3. Scanning(C, 0)' /\ Planning(p, C, 0)' /\ Placed' BY <1>2, Unchanging
<1>4. Indexing(C)' BY <1>1, <1>2, <1>3 DEF Indexing
<1> QED BY <1>1, <1>3, <1>4 DEF RereadInv, Rewritten

LEMMA RereadFails ==
    ASSUME RereadInv, Fail, pass \in Passes
    PROVE  RereadInv'
<1>1. CASE pass = "index"
  <2>1. request' = request /\ Enter("analyze") BY <1>1 DEF Fail
  <2> QED BY <2>1, RereadAnalysisEntered DEF RereadInv
<1>2. CASE pass # "index"
  <2>1. pass' = "failed" BY <1>2 DEF Fail, End
  <2> QED BY <2>1, RereadEnded
<1> QED BY <1>1, <1>2

LEMMA RereadInit == Init => RereadInv
BY DEF Init, RereadInv, Passes, Rewritten

\* The targets of a plan that is not refused have places.
LEMMA TargetsPlaced ==
    ASSUME request \in Requests, request.targets # << >>,
           ~PlanRefuses(request.targets, MaxPayload)
    PROVE  Placed
<1>1. Selectors(wanted) BY TargetsAreSelectors
<1>2. PICK targets : targets = request.targets OBVIOUS
<1>3. /\ targets \in Seq([ref : Refs, payload : Markup])
      /\ \A i \in DOMAIN targets : Readable(targets[i].ref) => targets[i].ref.row > 0
  BY <1>2, RequestsAssumption
<1>4. wanted = {targets[i].ref : i \in DOMAIN targets} BY <1>2 DEF wanted, Wanted
<1>5. \A i \in DOMAIN targets : Readable(targets[i].ref) BY <1>2 DEF PlanRefuses
<1>6. \A r \in wanted : Readable(r) /\ r.row > 0 BY <1>3, <1>4, <1>5
<1>7. wanted # {}
  <2>1. PICK S : S = [ref : Refs, payload : Markup] OBVIOUS
  <2>2. targets \in Seq(S) /\ targets # << >> BY <1>2, <1>3, <2>1
  <2>3. 1 \in DOMAIN targets BY <2>2
  <2> QED BY <1>4, <2>3
<1> QED BY <1>1, <1>6, <1>7 DEF Placed

-----------------------------------------------------------------------------
(* The steps of the three passes.                                          *)

LEMMA RereadScans ==
    ASSUME WindowInv, RereadInv, ScanPiece, ~Fail
    PROVE  RereadInv'
<1>1. PICK n : n = scan.at OBVIOUS
<1>2. PICK x, k, next : /\ k = n + 1 /\ x = source[k]
                        /\ next = Planned(plan, wanted, k, x)
  OBVIOUS
<1>3. /\ pass = "index" /\ ~ScannerRefuses(scan.ctx, x) /\ ~next.refused /\ scan' = Passed
      /\ plan' = [next EXCEPT !.dimension = @ \/ ScannerSeesDimension(scan.ctx, x)]
      /\ UNCHANGED <<request, pass, patch, analysis, output>>
  BY <1>1, <1>2 DEF ScanPiece
<1>4. n \in Nat /\ scan.at < Len(source) BY <1>1, SourceType DEF WindowInv, ScanPiece, Starved
<1>5. PICK C : Indexing(C) BY <1>3 DEF RereadInv
<1>6. PICK p : /\ p = plan /\ scan.ctx = C[n] /\ Scanning(C, n) /\ Planning(p, C, n)
  BY <1>1, <1>5 DEF Indexing
<1>7. PICK ctx : ctx = After(C[n], x) OBVIOUS
<1>8. ~Refuses(C[n], x) /\ Legal(C[n])
  BY <1>3, <1>4, <1>6 DEF ScannerRefuses, Scanning
<1>9. Legal(ctx) BY <1>7, <1>8, LegalStep
<1> DEFINE D == [i \in 0 .. k |-> IF i = k THEN ctx ELSE C[i]]
<1>10. /\ D[k] = ctx /\ \A i \in 0 .. n : D[i] = C[i]
  BY <1>2, <1>4
<1> HIDE DEF D
<1>11. Scanning(D, k)
  <2>1. 0 \in 0 .. n /\ n \in 0 .. n BY <1>4
  <2>2. \A i \in 0 .. k : i \in 0 .. n \/ i = k BY <1>2, <1>4
  <2>3. \A i \in 1 .. k : (i \in 1 .. n /\ i \in 0 .. n /\ i - 1 \in 0 .. n)
                          \/ (i = k /\ i - 1 = n)
    BY <1>2, <1>4
  <2>4. D[0] = Outset BY <1>6, <1>10, <2>1 DEF Scanning
  <2>5. \A i \in 0 .. k : Legal(D[i]) BY <1>6, <1>9, <1>10, <2>2 DEF Scanning
  <2>6. ASSUME NEW i \in 1 .. k
        PROVE  ~Refuses(D[i - 1], source[i]) /\ D[i] = After(D[i - 1], source[i])
    <3>1. CASE i = k
      <4>1. i - 1 = n /\ D[n] = C[n] /\ D[i] = ctx BY <1>10, <2>1, <2>3, <3>1, <1>2, <1>4
      <4> QED BY <1>2, <1>7, <1>8, <3>1, <4>1
    <3>2. CASE i # k
      <4>1. i \in 1 .. n /\ D[i - 1] = C[i - 1] /\ D[i] = C[i] BY <1>10, <2>3, <3>2
      <4> QED BY <1>6, <4>1 DEF Scanning
    <3> QED BY <3>1, <3>2
  <2> QED BY <2>4, <2>5, <2>6 DEF Scanning
<1>12. Planning(next, D, k)
  <2>1. next = Planned(p, wanted, n + 1, x) BY <1>2, <1>6
  <2>2. x = source[n + 1] /\ D[n + 1] = After(C[n], x) /\ Legal(D[n + 1])
    BY <1>2, <1>7, <1>9, <1>10
  <2>3. Planning(next, D, n + 1)
    BY ONLY <1>3, <1>4, <1>6, <1>8, <1>10, <2>1, <2>2, PlanningGoesOn
  <2> QED BY <1>2, <2>3
<1>13. PICK after : after = plan' OBVIOUS
<1>14. Planning(after, D, k)
  <2>1. PICK flag : flag = (next.dimension \/ ScannerSeesDimension(scan.ctx, x)) OBVIOUS
  <2>2. after = [next EXCEPT !.dimension = flag] BY <1>3, <1>13, <2>1
  <2>3. IsPlan(next) BY <1>12 DEF Planning
  <2>4. IsPlan(after) /\ after.found = next.found /\ after.active = next.active
    BY <2>2, <2>3 DEF IsPlan
  <2> QED BY <1>12, <2>4 DEF Planning
<1>15. scan'.at = k /\ scan'.ctx = D[k]
  BY <1>1, <1>2, <1>3, <1>6, <1>7, <1>10 DEF Passed, WindowInv
<1>16. Scanning(D, k)' /\ Planning(after, D, k)' BY <1>3, <1>11, <1>14, Unchanging
<1>17. Indexing(D)' BY <1>13, <1>15, <1>16 DEF Indexing
<1>18. Placed' /\ pass' = "index" BY <1>3, Unchanging DEF RereadInv, Passes
<1> QED BY <1>17, <1>18 DEF RereadInv, Rewritten

LEMMA RereadFollows ==
    ASSUME WindowInv, RereadInv, TransformPiece, pass = "analyze", ~Fail
    PROVE  RereadInv'
<1>1. PICK n, k, x, next : /\ n = scan.at /\ k = n + 1 /\ x = source[k]
                           /\ next = Transformed(patch, request.upsert, wanted,
                                                 Events(scan.ctx, k, x))
  OBVIOUS
<1>2. /\ ~Refuses(scan.ctx, x) /\ ~next.refused /\ patch' = next /\ scan' = Passed
      /\ UNCHANGED <<request, pass, plan, output>>
  BY <1>1 DEF TransformPiece
<1>3. n \in Nat /\ k \in 1 .. Len(source) /\ Len(source) \in Nat
  BY <1>1, SourceType DEF WindowInv, TransformPiece, Starved
<1>4. PICK P, C : Following(P, C) BY DEF RereadInv
<1>5. patch = P[n] /\ scan.ctx = C[n] /\ Course(P, C, n) BY <1>1, <1>4 DEF Following
<1>6. PICK ctx : ctx = After(C[n], x) OBVIOUS
<1>7. Turns(C[n], P[n], n + 1, next, ctx) BY <1>1, <1>2, <1>5, <1>6 DEF Turns
<1>8. Placed BY DEF RereadInv, Passes
<1>9. PICK Q, D : Course(Q, D, k) /\ Q[k] = next /\ D[k] = ctx
  <2>1. n + 1 \in 1 .. Len(source) BY <1>1, <1>3
  <2>2. \E Q, D : Course(Q, D, n + 1) /\ Q[n + 1] = next /\ D[n + 1] = ctx
    BY ONLY <1>3, <1>5, <1>7, <1>8, <2>1, CourseGoesOn
  <2> QED BY <1>1, <2>2
<1>10. scan'.at = k /\ scan'.ctx = ctx
  BY <1>1, <1>2, <1>5, <1>6 DEF Passed, WindowInv
<1>11. Course(Q, D, k)' /\ Placed' BY <1>2, <1>8, <1>9, Unchanging
<1>12. Following(Q, D)' BY <1>2, <1>9, <1>10, <1>11 DEF Following
<1> QED BY <1>2, <1>11, <1>12 DEF RereadInv, Rewritten

LEMMA RereadWrites ==
    ASSUME WindowInv, RereadInv, TransformPiece, pass = "write", ~Fail
    PROVE  RereadInv'
<1>1. PICK n, k, x, next : /\ n = scan.at /\ k = n + 1 /\ x = source[k]
                           /\ next = Transformed(patch, request.upsert, wanted,
                                                 Events(scan.ctx, k, x))
  OBVIOUS
<1>2. /\ patch' = next /\ scan' = Passed /\ output' = Written(next.actions)
      /\ UNCHANGED <<request, pass, plan, analysis>>
  BY <1>1 DEF TransformPiece
<1>3. /\ n \in Nat /\ n \in 0 .. Len(source) - 1 /\ k \in 1 .. Len(source)
      /\ Len(source) \in Nat /\ k - 1 = n
  BY <1>1, SourceType DEF WindowInv, TransformPiece, Starved
<1>4. PICK P, C : Rewriting(P, C) BY DEF RereadInv
<1>5. /\ patch = P[n] /\ scan.ctx = C[n] /\ Course(P, C, Len(source))
      /\ ~Doomed(C[Len(source)], P[Len(source)])
      /\ output = [items |-> output.items, skipping |-> output.skipping]
      /\ output.skipping \in BOOLEAN
      /\ DimensionsHoldNoTags /\ PayloadsFit => RereadSoFar(P, C, n)
  BY <1>1, <1>4 DEF Rewriting
<1>6. Turns(C[n], P[n], k, P[k], C[k]) BY <1>3, <1>5 DEF Course
<1>7. next = P[k] /\ C[k] = After(scan.ctx, x) BY <1>1, <1>5, <1>6 DEF Turns
<1>8. scan'.at = k /\ scan'.ctx = C[k]
  BY <1>1, <1>2, <1>7 DEF Passed, WindowInv
<1>9. Placed BY DEF RereadInv, Passes
<1>10. ASSUME DimensionsHoldNoTags, PayloadsFit PROVE RereadSoFar(P, C, k)'
  <2>1. output' = Written(P[n + 1].actions) /\ UNCHANGED <<request, analysis>>
    BY <1>1, <1>2, <1>7
  <2>2. RereadSoFar(P, C, n) BY <1>5, <1>10
  <2>3. RereadSoFar(P, C, n + 1)'
    BY ONLY <1>3, <1>5, <1>9, <1>10, <2>1, <2>2, RereadGoesOn
  <2>4. \A i, j : i = j => (RereadSoFar(P, C, i)' => RereadSoFar(P, C, j)') OBVIOUS
  <2> QED BY <1>1, <2>3, <2>4
<1>11. /\ output' = [items |-> output'.items, skipping |-> output'.skipping]
       /\ output'.skipping \in BOOLEAN
  <2>1. PICK actions : actions = next.actions OBVIOUS
  <2>2. output' = Written(actions) BY <1>2, <2>1
  <2>3. CASE output.skipping
    <3>1. PICK flag \in BOOLEAN : flag = ~ClosesContent(actions) OBVIOUS
    <3>2. output' = [output EXCEPT !.skipping = flag]
      BY <2>2, <2>3, <3>1 DEF Written, ClosesContent
    <3> QED BY <1>5, <3>1, <3>2
  <2>4. CASE ~output.skipping
    <3>1. PICK flag \in BOOLEAN : flag = OpensContent(actions) BY DEF OpensContent
    <3>2. PICK items :
            items = output.items \o FlattenSeq([i \in DOMAIN actions |-> WrittenAs(actions[i])])
      OBVIOUS
    <3>3. output' = [items |-> items, skipping |-> flag]
      BY <2>2, <2>4, <3>1, <3>2 DEF Written, OpensContent
    <3> QED BY <3>1, <3>3
  <2> QED BY <2>3, <2>4
<1>12. /\ source' = source /\ (DimensionsHoldNoTags' <=> DimensionsHoldNoTags)
       /\ (PayloadsFit' <=> PayloadsFit) /\ Placed'
       /\ \A m : Course(P, C, m)' <=> Course(P, C, m)
       /\ \A m : Doomed(C[m], P[m])' <=> Doomed(C[m], P[m])
  BY <1>2, <1>9, Unchanging
<1>13. Course(P, C, Len(source))' /\ ~Doomed(C[Len(source)], P[Len(source)])'
  BY <1>5, <1>12
<1>14. DimensionsHoldNoTags' /\ PayloadsFit' => (\E m : m = scan.at /\ RereadSoFar(P, C, m))'
  BY <1>8, <1>10, <1>12
<1>15. Rewriting(P, C)'
  BY <1>2, <1>7, <1>8, <1>11, <1>13, <1>14 DEF Rewriting
<1> QED BY <1>2, <1>12, <1>15 DEF RereadInv, Rewritten

-----------------------------------------------------------------------------
(* The ends of the three passes.                                           *)

LEMMA RereadPlanEnds ==
    ASSUME WindowInv, RereadInv, EndPlan, ~Fail
    PROVE  RereadInv'
<1>1. /\ pass = "index" /\ scan.at = Len(source) /\ ~RefusesEnd(scan.ctx)
      /\ output' = [Blank EXCEPT !.items = RangedOutput(plan, source)] /\ pass' = "indexed"
      /\ UNCHANGED <<request, plan, analysis>>
  BY DEF EndPlan, Ended, End
<1>2. PICK C : Indexing(C) BY <1>1 DEF RereadInv
<1>3. PICK p : /\ p = plan /\ scan.ctx = C[Len(source)] /\ Scanning(C, Len(source))
               /\ Planning(p, C, Len(source))
  BY <1>1, <1>2 DEF Indexing
<1>4. ASSUME PayloadsFit PROVE ReadsBack'
  <2>1. PICK q, d : q = RangedOutput(p, source) /\ d = C[Len(source)] OBVIOUS
  <2>2. Path("item", Outset, q, d) BY <1>3, <1>4, <2>1, RangedPath DEF WindowInv
  <2>3. Path("item", Outset, q, d)' BY <1>1, <2>2, PathPrimed
  <2>4. q = output'.items BY <1>1, <1>3, <2>1 DEF Blank
  <2>5. ~RefusesEnd(d) BY <1>1, <1>3, <2>1
  <2> QED BY <2>3, <2>4, <2>5 DEF ReadsBack
<1>5. PayloadsFit' => PayloadsFit BY <1>1, Unchanging
<1> QED BY <1>1, <1>4, <1>5 DEF RereadInv, Passes

\* Once every target was met or inserted the worksheet can be completed.
LEMMA NotDoomed ==
    ASSUME Placed, NEW c, NEW p, Steady(c, p), ~RefusesEnd(c), Missing(p, wanted) = {}
    PROVE  ~Doomed(c, p)
<1>1. c.opened BY DEF RefusesEnd
<1>2. wanted \subseteq p.matched \cup p.inserted BY DEF Missing
<1>3. ~request.upsert => p.matched # {} BY <1>2 DEF Placed, Steady
<1> QED BY <1>1, <1>3 DEF Doomed

LEMMA RereadAnalysisEnds ==
    ASSUME WindowInv, CoverInv, RereadInv, EndAnalysis, ~Fail
    PROVE  RereadInv'
<1>1. /\ pass = "analyze" /\ scan.at = Len(source) /\ ~RefusesEnd(scan.ctx)
      /\ Missing(patch, wanted) = {} /\ Enter("write")
      /\ UNCHANGED <<request, plan, analysis, output>>
  BY DEF EndAnalysis, Ended
<1>2. PICK P, C : Following(P, C) BY <1>1 DEF RereadInv
<1>3. PICK n : n = Len(source) OBVIOUS
<1>4. patch = P[n] /\ scan.ctx = C[n] /\ Course(P, C, n) BY <1>1, <1>2, <1>3 DEF Following
<1>5. n \in Nat /\ n \in 0 .. n /\ 0 \in 0 .. n BY <1>3, SourceType DEF WindowInv
<1>6. Placed BY <1>1 DEF RereadInv, Passes
<1>7. ~Doomed(C[n], P[n])
  <2>1. Steady(C[n], P[n]) BY <1>4, <1>5 DEF Course
  <2> QED BY <1>1, <1>4, <1>6, <2>1, NotDoomed
<1>8. /\ pass' = "write" /\ scan'.at = 0 /\ scan'.ctx = Outset /\ patch' = Idle
      /\ P[0] = Idle /\ C[0] = Outset
  BY <1>1, <1>4 DEF Enter, Fresh, Course
<1>9. output' = [items |-> << >>, skipping |-> FALSE] BY <1>1 DEF CoverInv, Blank
<1>10. /\ output'.items = << >> /\ output'.skipping = FALSE
       /\ output' = [items |-> output'.items, skipping |-> output'.skipping]
  BY <1>9
<1>11. RereadSoFar(P, C, 0)'
  <2>1. PICK level, q : level = "item" /\ q = << >> OBVIOUS
  <2>2. Path(level, Outset, q, Outset) BY <2>1, PathNone
  <2>3. Path(level, Outset, q, Outset)' BY <1>1, <2>2, PathPrimed
  <2>4. Sees(C[0], P[0], Outset)
    <3>1. ~Idle.replacing /\ ~Outset.opened BY DEF Outset, Idle
    <3> QED BY <1>8, <3>1 DEF Sees
  <2>5. Sees(C[0], P[0], Outset)' BY <2>4 DEF Sees
  <2>6. q = output'.items /\ ~output'.skipping BY <1>10, <2>1
  <2> QED BY <2>1, <2>3, <2>5, <2>6 DEF RereadSoFar
<1>12. /\ source' = source /\ Placed'
       /\ Course(P, C, n)' /\ ~Doomed(C[n], P[n])'
  BY <1>1, <1>4, <1>6, <1>7, Unchanging
<1>13. Course(P, C, Len(source))' /\ ~Doomed(C[Len(source)], P[Len(source)])'
  BY <1>3, <1>12
<1>14. Rewriting(P, C)' BY <1>8, <1>10, <1>11, <1>13 DEF Rewriting
<1> QED BY <1>8, <1>12, <1>14 DEF RereadInv, Rewritten

LEMMA RereadWriteEnds ==
    ASSUME WindowInv, RereadInv, EndWrite, ~Fail
    PROVE  RereadInv'
<1>1. /\ pass = "write" /\ scan.at = Len(source) /\ ~RefusesEnd(scan.ctx)
      /\ pass' \in {"rejected", "streamed"}
      /\ UNCHANGED <<request, plan, analysis, output>>
  BY DEF EndWrite, Ended, End
<1>2. CASE pass' = "rejected" BY <1>2, RereadEnded
<1>3. CASE pass' = "streamed"
  <2>1. PICK P, C : Rewriting(P, C) BY <1>1 DEF RereadInv
  <2>2. PICK n, c, p : n = Len(source) /\ c = C[n] /\ p = P[n] OBVIOUS
  <2>3. scan.ctx = c /\ Course(P, C, n) BY <1>1, <2>1, <2>2 DEF Rewriting
  <2>4. Steady(c, p)
    <3>1. n \in 0 .. n BY <2>2, SourceType DEF WindowInv
    <3> QED BY <2>2, <2>3, <3>1 DEF Course
  <2>5. ASSUME DimensionsHoldNoTags, PayloadsFit PROVE ReadsBack'
    <3>1. RereadSoFar(P, C, n) BY <1>1, <2>1, <2>2, <2>5 DEF Rewriting
    <3>2. PICK q, d : /\ q = output.items /\ Path("item", Outset, q, d) /\ Sees(c, p, d)
      BY <2>2, <3>1 DEF RereadSoFar
    <3>3. c.opened /\ c.closed /\ ~c.inCell BY <1>1, <2>3 DEF RefusesEnd
    <3>4. Over(d) BY <2>4, <3>2, <3>3 DEF Sees, Steady
    <3>5. Path("item", Outset, q, d)' BY <1>1, <3>2, PathPrimed
    <3>6. q = output'.items /\ ~RefusesEnd(d) BY <1>1, <3>2, <3>4 DEF Over
    <3> QED BY <3>5, <3>6 DEF ReadsBack
  <2>6. (DimensionsHoldNoTags' => DimensionsHoldNoTags) /\ (PayloadsFit' => PayloadsFit)
    BY <1>1, Unchanging
  <2> QED BY <1>3, <2>5, <2>6 DEF RereadInv, Passes
<1> QED BY <1>1, <1>2, <1>3

LEMMA RereadStep == WindowInv /\ CoverInv /\ RereadInv /\ [Next]_vars => RereadInv'
<1> SUFFICES ASSUME WindowInv, CoverInv, RereadInv, [Next]_vars PROVE RereadInv'
  OBVIOUS
<1>1. CASE UNCHANGED vars \/ Done
  BY <1>1, RereadKept DEF vars, Done
<1>2. CASE Start
  <2>1. pass = "start" /\ UNCHANGED <<request, plan, analysis, output>> BY <1>2 DEF Start
  <2>2. CASE End("refused") BY <2>2, RereadEnded DEF End
  <2>3. CASE /\ request.targets # << >> /\ ~PlanRefuses(request.targets, MaxPayload)
             /\ Enter(IF Indexable THEN "index" ELSE "analyze")
    <3>1. Placed BY <2>3, TargetsPlaced DEF WindowInv
    <3>2. plan' = NoPlan BY <2>1 DEF RereadInv
    <3>3. CASE Enter("analyze") BY <2>1, <3>1, <3>3, RereadAnalysisEntered
    <3>4. CASE Enter("index") BY <2>1, <3>1, <3>2, <3>4, RereadIndexEntered
    <3> QED BY <2>3, <3>3, <3>4
  <2> QED BY <1>2, <2>2, <2>3 DEF Start
<1>3. CASE InflateFails
  BY <1>3, RereadEnded DEF InflateFails, End
<1>4. CASE ReadChunk
  <2>1. UNCHANGED <<request, pass, plan, patch, analysis, output>> BY <1>4 DEF ReadChunk
  <2>2. scan'.at = scan.at /\ scan'.ctx = scan.ctx BY <1>4 DEF ReadChunk, WindowInv
  <2> QED BY <2>1, <2>2, RereadKept
<1>5. CASE ReadFails
  BY <1>5, RereadFails DEF ReadFails
<1>6. CASE Refill
  <2>1. UNCHANGED <<request, pass, plan, patch, analysis, output>> BY <1>6 DEF Refill
  <2>2. scan'.at = scan.at /\ scan'.ctx = scan.ctx
    BY <1>6 DEF Refill, Filled, FilledInPlace, WindowInv
  <2> QED BY <2>1, <2>2, RereadKept
<1>7. CASE Overflow
  BY <1>7, RereadFails DEF Overflow
<1>8. CASE ScanPiece
  <2>1. pass = "index" BY <1>8 DEF ScanPiece
  <2>2. CASE Fail BY <2>1, <2>2, RereadFails DEF Passes
  <2>3. CASE ~Fail BY <1>8, <2>3, RereadScans
  <2> QED BY <2>2, <2>3
<1>9. CASE TransformPiece
  <2>1. pass \in {"analyze", "write"} BY <1>9 DEF TransformPiece
  <2>2. CASE Fail BY <2>1, <2>2, RereadFails DEF Passes
  <2>3. CASE ~Fail BY <1>9, <2>1, <2>3, RereadFollows, RereadWrites
  <2> QED BY <2>2, <2>3
<1>10. CASE EndPlan
  <2>1. CASE Fail BY <1>10, <2>1, RereadFails DEF EndPlan, Passes
  <2>2. CASE ~Fail BY <1>10, <2>2, RereadPlanEnds
  <2> QED BY <2>1, <2>2
<1>11. CASE EndAnalysis
  <2>1. CASE Fail BY <1>11, <2>1, RereadFails DEF EndAnalysis, Passes
  <2>2. CASE ~Fail BY <1>11, <2>2, RereadAnalysisEnds
  <2> QED BY <2>1, <2>2
<1>12. CASE EndWrite
  <2>1. CASE Fail BY <1>12, <2>1, RereadFails DEF EndWrite, Passes
  <2>2. CASE ~Fail BY <1>12, <2>2, RereadWriteEnds
  <2> QED BY <2>1, <2>2
<1> QED BY <1>1, <1>2, <1>3, <1>4, <1>5, <1>6, <1>7, <1>8, <1>9, <1>10, <1>11, <1>12
        DEF Next, Step

\* What reads back is accepted.
LEMMA ReadBackIsAccepted ==
    ASSUME ReadsBack
    PROVE  Accepted(OutputPieces)
<1>1. PICK q, d : q = output.items /\ Path("item", Outset, q, d) /\ ~RefusesEnd(d) BY DEF ReadsBack
<1>2. PICK n \in Nat : n = Len(q) BY <1>1 DEF Path, IsList
<1>3. DOMAIN q = 1 .. n
  <2>1. q = [i \in 1 .. n |-> q[i]] BY <1>1, <1>2 DEF Path, IsList
  <2> QED BY <2>1
<1>4. PICK k : /\ k[0] = Outset /\ k[n] = d
               /\ \A i \in 1 .. n : Moves("item", k[i - 1], q[i], k[i])
  BY <1>1, <1>2 DEF Path
<1> DEFINE ss == [i \in 1 .. n |-> PiecesOf(q[i])]
<1>5. IsList(ss) /\ Len(ss) = n BY DEF IsList
<1>6. \A i \in 1 .. n : ss[i] = PiecesOf(q[i]) OBVIOUS
<1>7. OutputPieces = FlattenSeq(ss) BY <1>1, <1>3 DEF OutputPieces
<1> HIDE DEF ss
<1>8. ASSUME NEW i \in 1 .. n PROVE Path("piece", k[i - 1], ss[i], k[i])
  <2>1. PICK e, x, f : e = k[i - 1] /\ x = q[i] /\ f = k[i] OBVIOUS
  <2>2. Moves("item", e, x, f) BY <1>4, <2>1
  <2>3. Path("piece", e, PiecesOf(x), f) BY <2>2, PathsRead
  <2> QED BY <1>6, <2>1, <2>3
<1>9. Path("piece", k[0], FlattenSeq(ss), k[n])
  <2>1. PICK level : level = "piece" OBVIOUS
  <2>2. \A i \in 1 .. Len(ss) : Path(level, k[i - 1], ss[i], k[i]) BY <1>5, <1>8, <2>1
  <2>3. Path(level, k[0], FlattenSeq(ss), k[Len(ss)]) BY <1>5, <2>2, PathFlattened
  <2> QED BY <1>5, <2>1, <2>3
<1>10. PICK pieces : pieces = FlattenSeq(ss) OBVIOUS
<1>11. Path("piece", Outset, pieces, d) BY <1>4, <1>9, <1>10
<1>12. Accepted(pieces) BY <1>1, <1>11, PathIsAccepted
<1> QED BY <1>7, <1>10, <1>12

(* Whatever a patched worksheet was, what is written of it is a worksheet  *)
(* again: the event reader takes it from its first piece to its end, so    *)
(* that the sheet can be patched once more.  Where the reader of the       *)
(* output is follows from where the reader of the source is and from       *)
(* whether a cell is being replaced; the transformer opens, closes and     *)
(* fills rows, data and worksheet only where that allows it                *)
(* (src/worksheet_transformer.cpp:309-422, 582-599, 817-1051), and byte    *)
(* ranges begin and end between the cells of a row.                        *)
THEOREM RewrittenIsAWorksheet == Spec => []OutputIsAWorksheet
<1>1. RereadInv => OutputIsAWorksheet
  BY ReadBackIsAccepted DEF RereadInv, OutputIsAWorksheet, PayloadsFit
<1> QED BY <1>1, RereadInit, RereadStep, CoverInit, CoverStep, WindowHolds, PTL DEF Spec
=============================================================================
