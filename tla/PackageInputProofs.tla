------------------------- MODULE PackageInputProofs -------------------------
(***************************************************************************)
(* Theorems about PackageInput, for every file that the scenes hold, every *)
(* chunk sequence, every patch and every number of calls and changes.      *)
(***************************************************************************)
EXTENDS PackageInput, DataInduction

(***************************************************************************)
(* Pieces of sequences                                                     *)
(***************************************************************************)
LEMMA BytesType ==
    ASSUME NEW U, NEW file \in Seq(U), NEW from \in Nat, NEW count \in Nat,
           from + count <= Len(file)
    PROVE  /\ Bytes(file, from, count) \in Seq(U)
           /\ Len(Bytes(file, from, count)) = count
           /\ \A k \in 1 .. count : Bytes(file, from, count)[k] = file[from + k]
BY DEF Bytes

\* A part of a part is a part.
LEMMA BytesOfBytes ==
    ASSUME NEW U, NEW file \in Seq(U), NEW from \in Nat, NEW count \in Nat,
           from + count <= Len(file),
           NEW at \in Nat, NEW length \in Nat, at + length <= count
    PROVE  Bytes(Bytes(file, from, count), at, length) = Bytes(file, from + at, length)
<1> DEFINE whole == Bytes(file, from, count)
<1> DEFINE a == Bytes(whole, at, length)
<1> DEFINE b == Bytes(file, from + at, length)
<1>1. /\ whole \in Seq(U) /\ Len(whole) = count
      /\ \A k \in 1 .. count : whole[k] = file[from + k]
  BY BytesType
<1>2. /\ a \in Seq(U) /\ Len(a) = length
      /\ \A k \in 1 .. length : a[k] = whole[at + k]
  <2> HIDE DEF whole
  <2> QED BY <1>1, BytesType
<1>3. /\ b \in Seq(U) /\ Len(b) = length
      /\ \A k \in 1 .. length : b[k] = file[(from + at) + k]
  <2>1. PICK q \in Nat : q = from + at OBVIOUS
  <2>2. q + length <= Len(file) BY <2>1
  <2> QED BY <2>1, <2>2, BytesType
<1>4. ASSUME NEW k \in 1 .. length PROVE a[k] = b[k]
  <2> HIDE DEF a, b, whole
  <2>1. at + k \in 1 .. count /\ from + (at + k) = (from + at) + k OBVIOUS
  <2> QED BY <1>1, <1>2, <1>3, <2>1
<1> HIDE DEF a, b
<1>5. a = b
  BY <1>2, <1>3, <1>4, SeqEqual
<1> QED BY <1>5 DEF a, b

\* Parts that follow each other are a part.
LEMMA BytesMeet ==
    ASSUME NEW U, NEW file \in Seq(U), NEW from \in Nat, NEW m \in Nat, NEW n \in Nat,
           from + m + n <= Len(file)
    PROVE  Bytes(file, from, m) \o Bytes(file, from + m, n) = Bytes(file, from, m + n)
<1>1. PICK b \in Nat : b = from + m
  OBVIOUS
<1>2. PICK c \in Nat : c = from + m + n
  OBVIOUS
<1>3. SubSeq(file, from + 1, b) \o SubSeq(file, b + 1, c) = SubSeq(file, from + 1, c)
  BY <1>1, <1>2, PiecesMeet
<1>4. from + (m + n) = c /\ b + n = c
  BY <1>1, <1>2
<1> QED BY <1>1, <1>3, <1>4 DEF Bytes

(***************************************************************************)
(* Chunks                                                                  *)
(***************************************************************************)
\* A store of files, as far as chunks name them.
Store(fs) == \A path \in {"package", "staged"} : fs[path] = Gone \/ fs[path] \in Seq(Units)

ChunksWith(crcs) ==
    [kind : {"memory", "file"}, data : Seq(Units), path : {"", "package", "staged"},
     ranged : BOOLEAN, offset : Nat, length : Nat, size : {Unset} \cup Nat, crc : crcs]

\* Chunks that name a file if they are no memory.
Placed(crcs) == {c \in ChunksWith(crcs) : c.kind = "file" => c.path # ""}

Parts == Placed({Unset} \cup Seq(Units))

\* Chunks whose content is all there.
Sound(c, fs) ==
    c.kind = "file" => /\ fs[c.path] \in Seq(Units)
                       /\ PayloadOffset(c) + PayloadSize(c, fs) <= Len(fs[c.path])

SoundParts(fs) == {c \in Parts : Sound(c, fs)}

LEMMA MeasuredSound ==
    ASSUME NEW crcs, NEW c \in Placed(crcs), NEW fs, Store(fs), SizeHolds(c, fs)
    PROVE  Sound(c, fs)
<1>1. CASE c.kind = "memory"
  BY <1>1 DEF Sound
<1>2. CASE c.kind = "file"
  <2>1. /\ c.path \in {"package", "staged"} /\ c.ranged \in BOOLEAN
        /\ c.offset \in Nat /\ c.length \in Nat
    BY <1>2 DEF Placed, ChunksWith
  <2>2. Measurable(c, fs)
    BY <1>2 DEF SizeHolds
  <2>3. fs[c.path] \in Seq(Units)
    BY <2>1, <2>2 DEF Store, Measurable
  <2>4. PayloadOffset(c) + PayloadSize(c, fs) <= Len(fs[c.path])
    BY <1>2, <2>1, <2>2, <2>3 DEF Measurable, PayloadOffset, PayloadSize
  <2> QED BY <2>3, <2>4 DEF Sound
<1> QED BY <1>1, <1>2 DEF Placed, ChunksWith

LEMMA PayloadType ==
    ASSUME NEW crcs, NEW c \in Placed(crcs), NEW fs, Sound(c, fs)
    PROVE  /\ PayloadOffset(c) \in Nat
           /\ PayloadSize(c, fs) \in Nat
           /\ Payload(c, fs) \in Seq(Units)
           /\ Len(Payload(c, fs)) = PayloadSize(c, fs)
           /\ c.kind = "file" =>
                 Payload(c, fs) = Bytes(fs[c.path], PayloadOffset(c), PayloadSize(c, fs))
           /\ c.kind = "memory" => Payload(c, fs) = c.data
<1>0. /\ c.kind \in {"memory", "file"} /\ c.data \in Seq(Units) /\ c.ranged \in BOOLEAN
      /\ c.offset \in Nat /\ c.length \in Nat
  BY DEF Placed, ChunksWith
<1>1. CASE c.kind = "memory"
  <2>1. PayloadOffset(c) \in Nat
    BY <1>0 DEF PayloadOffset
  <2>2. PayloadSize(c, fs) = Len(c.data) /\ Payload(c, fs) = c.data
    BY <1>1 DEF Payload, PayloadSize
  <2> QED BY <1>0, <1>1, <2>1, <2>2
<1>2. CASE c.kind = "file"
  <2>1. /\ fs[c.path] \in Seq(Units)
        /\ PayloadOffset(c) + PayloadSize(c, fs) <= Len(fs[c.path])
    BY <1>2 DEF Sound
  <2>2. PayloadOffset(c) \in Nat /\ PayloadSize(c, fs) \in Nat
    BY <1>0, <1>2, <2>1 DEF PayloadOffset, PayloadSize
  <2>3. Payload(c, fs) = Bytes(fs[c.path], PayloadOffset(c), PayloadSize(c, fs))
    BY <1>2 DEF Payload
  <2>4. /\ Bytes(fs[c.path], PayloadOffset(c), PayloadSize(c, fs)) \in Seq(Units)
        /\ Len(Bytes(fs[c.path], PayloadOffset(c), PayloadSize(c, fs))) = PayloadSize(c, fs)
    BY <2>1, <2>2, BytesType
  <2> QED BY <1>2, <2>2, <2>3, <2>4
<1> QED BY <1>0, <1>1, <1>2

\* What is read for a part of a chunk is that part of its content.
LEMMA PartIsPart ==
    ASSUME NEW c \in Parts, NEW fs, Sound(c, fs), NEW o,
           o.offset \in Nat, o.length \in Nat, o.offset + o.length <= PayloadSize(c, fs)
    PROVE  /\ PartBytes(c, o, fs) = Bytes(Payload(c, fs), o.offset, o.length)
           /\ PartBytes(c, o, fs) \in Seq(Units)
<1>0. /\ PayloadOffset(c) \in Nat /\ PayloadSize(c, fs) \in Nat
      /\ Payload(c, fs) \in Seq(Units) /\ Len(Payload(c, fs)) = PayloadSize(c, fs)
      /\ c.kind = "file" =>
            Payload(c, fs) = Bytes(fs[c.path], PayloadOffset(c), PayloadSize(c, fs))
      /\ c.kind = "memory" => Payload(c, fs) = c.data
  BY PayloadType DEF Parts
<1>1. PartBytes(c, o, fs) = Bytes(Payload(c, fs), o.offset, o.length)
  <2>1. CASE c.kind = "memory"
    BY <1>0, <2>1 DEF PartBytes
  <2>2. CASE c.kind = "file"
    <3>1. /\ fs[c.path] \in Seq(Units)
          /\ PayloadOffset(c) + PayloadSize(c, fs) <= Len(fs[c.path])
      BY <2>2 DEF Sound
    <3>2. Bytes(Bytes(fs[c.path], PayloadOffset(c), PayloadSize(c, fs)), o.offset, o.length)
            = Bytes(fs[c.path], PayloadOffset(c) + o.offset, o.length)
      BY <1>0, <3>1, BytesOfBytes
    <3> QED BY <1>0, <2>2, <3>2 DEF PartBytes
  <2> QED BY <2>1, <2>2 DEF Parts, Placed, ChunksWith
<1>2. Bytes(Payload(c, fs), o.offset, o.length) \in Seq(Units)
  BY <1>0, BytesType
<1> QED BY <1>1, <1>2

\* A range cut out of a file chunk is a chunk with that content.
LEMMA CutOutIsPart ==
    ASSUME NEW c \in Parts, NEW fs, Sound(c, fs), NEW o, c.kind = "file",
           o.offset \in Nat, o.length \in Nat, o.offset + o.length <= PayloadSize(c, fs)
    PROVE  /\ CutOut(c, o) \in SoundParts(fs)
           /\ Payload(CutOut(c, o), fs) = PartBytes(c, o, fs)
<1>0. /\ c.path \in {"package", "staged"} /\ PayloadOffset(c) \in Nat
      /\ PayloadSize(c, fs) \in Nat
      /\ fs[c.path] \in Seq(Units)
      /\ PayloadOffset(c) + PayloadSize(c, fs) <= Len(fs[c.path])
  <2>1. PayloadOffset(c) \in Nat /\ PayloadSize(c, fs) \in Nat
    BY PayloadType DEF Parts
  <2> QED BY <2>1 DEF Parts, Placed, ChunksWith, Sound
<1> DEFINE at == PayloadOffset(c) + o.offset
<1> DEFINE r == Chunk("file", << >>, c.path, TRUE, at, o.length)
<1> DEFINE d == CutOut(c, o)
<1>1. d = [r EXCEPT !.size = o.length]
  BY DEF CutOut, FileRange
<1>2. /\ r \in Parts /\ r.kind = "file" /\ r.data = << >> /\ r.path = c.path /\ r.ranged
      /\ r.offset = at /\ r.length = o.length
  <2>1. << >> \in Seq(Units) /\ at \in Nat
    BY <1>0
  <2>2. r \in ChunksWith({Unset} \cup Seq(Units))
    <3> HIDE DEF at
    <3> QED BY <1>0, <2>1 DEF Chunk, ChunksWith
  <2> HIDE DEF at
  <2> QED BY <1>0, <2>2 DEF Parts, Placed, Chunk
<1> HIDE DEF d, r
<1>3. /\ d \in Parts /\ d.kind = "file" /\ d.path = c.path /\ d.ranged
      /\ d.offset = at /\ d.length = o.length
  BY <1>1, <1>2 DEF Parts, Placed, ChunksWith
<1>6. PayloadOffset(d) = PayloadOffset(c) + o.offset /\ PayloadSize(d, fs) = o.length
  BY <1>3 DEF PayloadOffset, PayloadSize
<1>4. Sound(d, fs)
  BY <1>0, <1>3, <1>6 DEF Sound
<1>5. Payload(d, fs) = PartBytes(c, o, fs)
  BY <1>3, <1>6 DEF Payload, PartBytes
<1> QED BY <1>3, <1>4, <1>5 DEF d, SoundParts

(***************************************************************************)
(* Sizes and overlaps                                                      *)
(***************************************************************************)
LEMMA BeforeStep ==
    ASSUME NEW sizes \in Seq(Nat)
    PROVE  /\ Before(sizes, 1) = 0
           /\ \A i \in 1 .. Len(sizes) + 1 : Before(sizes, i) \in Nat
           /\ \A i \in 1 .. Len(sizes) : Before(sizes, i + 1) = Before(sizes, i) + sizes[i]
           /\ Total(sizes) = Before(sizes, Len(sizes) + 1)
<1>1. \A i : Before(sizes, i) = Sum(SubSeq(sizes, 1, i - 1))
  BY DEF Before, Sum
<1>2. Before(sizes, 1) = 0
  <2>1. SubSeq(sizes, 1, 1 - 1) = << >> OBVIOUS
  <2> QED BY <1>1, <2>1, SumEmpty
<1>3. ASSUME NEW i \in 1 .. Len(sizes) + 1 PROVE Before(sizes, i) \in Nat
  <2>1. SubSeq(sizes, 1, i - 1) \in Seq(Nat) OBVIOUS
  <2> QED BY <1>1, <2>1, SumType
<1>4. ASSUME NEW i \in 1 .. Len(sizes)
      PROVE  Before(sizes, i + 1) = Before(sizes, i) + sizes[i]
  <2>1. Sum(SubSeq(sizes, 1, i)) = Sum(SubSeq(sizes, 1, i - 1)) + sizes[i]
    BY SumPrefix
  <2>2. (i + 1) - 1 = i OBVIOUS
  <2>3. Before(sizes, i + 1) = Sum(SubSeq(sizes, 1, i)) BY <1>1, <2>2
  <2> QED BY <1>1, <2>1, <2>3
<1>5. Total(sizes) = Before(sizes, Len(sizes) + 1)
  <2>1. (Len(sizes) + 1) - 1 = Len(sizes) /\ SubSeq(sizes, 1, Len(sizes)) = sizes
    OBVIOUS
  <2>2. Before(sizes, Len(sizes) + 1) = Sum(sizes) BY <1>1, <2>1
  <2> QED BY <2>2 DEF Total, Sum
<1> QED BY <1>2, <1>3, <1>4, <1>5

\* What a chunk has in a range is inside the chunk.
LEMMA OverlapInside ==
    ASSUME NEW sizes \in Seq(Nat), NEW offset \in Nat, NEW length \in Nat,
           NEW i \in Met(sizes, offset, length)
    PROVE  /\ i \in 1 .. Len(sizes)
           /\ Overlap(sizes, i, offset, length).offset \in Nat
           /\ Overlap(sizes, i, offset, length).length \in Nat
           /\ Overlap(sizes, i, offset, length).offset
                = Larger(offset, Before(sizes, i)) - Before(sizes, i)
           /\ Overlap(sizes, i, offset, length).offset + Overlap(sizes, i, offset, length).length
                = Smaller(offset + length, Before(sizes, i) + sizes[i]) - Before(sizes, i)
           /\ Overlap(sizes, i, offset, length).offset + Overlap(sizes, i, offset, length).length
                <= sizes[i]
<1>1. /\ i \in 1 .. Len(sizes) /\ length > 0
      /\ Before(sizes, i) + sizes[i] > offset /\ Before(sizes, i) < offset + length
  BY DEF Met
<1>2. PICK b \in Nat : b = Before(sizes, i)
  <2>1. i \in 1 .. Len(sizes) + 1 BY <1>1
  <2> QED BY <2>1, BeforeStep
<1>3. sizes[i] \in Nat
  BY <1>1
<1>4. PICK from \in Nat : from = Larger(offset, b) /\ from >= offset /\ from >= b
                          /\ (from = offset \/ from = b)
  BY <1>2 DEF Larger
<1>5. PICK end \in Nat : /\ end = Smaller(offset + length, b + sizes[i])
                         /\ end <= offset + length /\ end <= b + sizes[i]
                         /\ (end = offset + length \/ end = b + sizes[i])
  BY <1>2, <1>3 DEF Smaller
<1>6. /\ Overlap(sizes, i, offset, length).offset = from - b
      /\ Overlap(sizes, i, offset, length).length = end - from
  BY <1>2, <1>4, <1>5 DEF Overlap
<1>7. from <= end
  BY <1>1, <1>2, <1>3, <1>4, <1>5
<1>8. from - b \in Nat /\ end - from \in Nat /\ (from - b) + (end - from) = end - b
      /\ end - b <= sizes[i]
  <2>1. PICK size \in Nat : size = sizes[i] /\ end <= b + size BY <1>3, <1>5
  <2>2. from >= b BY <1>4
  <2>3. from - b \in Nat BY <2>2
  <2>4. end - from \in Nat BY <1>7
  <2>5. (from - b) + (end - from) = end - b OBVIOUS
  <2>6. end - b <= size BY <2>1
  <2> QED BY <2>1, <2>3, <2>4, <2>5, <2>6
<1> QED BY <1>1, <1>2, <1>4, <1>5, <1>6, <1>8, Zenon

(***************************************************************************)
(* Contents                                                                *)
(***************************************************************************)
Payloads(cs, fs) == [i \in DOMAIN cs |-> Payload(cs[i], fs)]
Content(cs, fs) == FlattenSeq(Payloads(cs, fs))

LEMMA SoundPayload ==
    ASSUME NEW fs, NEW c \in SoundParts(fs)
    PROVE  Payload(c, fs) \in Seq(Units) /\ Len(Payload(c, fs)) = PayloadSize(c, fs)
           /\ PayloadSize(c, fs) \in Nat
BY PayloadType DEF SoundParts, Parts

LEMMA PayloadsType ==
    ASSUME NEW fs, NEW cs \in Seq(SoundParts(fs))
    PROVE  /\ Payloads(cs, fs) \in Seq(Seq(Units))
           /\ Len(Payloads(cs, fs)) = Len(cs)
           /\ \A i \in 1 .. Len(cs) : Payloads(cs, fs)[i] = Payload(cs[i], fs)
<1>1. ASSUME NEW i \in 1 .. Len(cs) PROVE Payload(cs[i], fs) \in Seq(Units)
  <2>1. cs[i] \in SoundParts(fs) OBVIOUS
  <2> QED BY <2>1, SoundPayload
<1> QED BY <1>1 DEF Payloads

LEMMA ContentType ==
    ASSUME NEW fs, NEW cs \in Seq(SoundParts(fs))
    PROVE  Content(cs, fs) \in Seq(Units)
BY PayloadsType, FlattenType DEF Content

LEMMA ContentAppend ==
    ASSUME NEW fs, NEW cs \in Seq(SoundParts(fs)), NEW c \in SoundParts(fs)
    PROVE  /\ Append(cs, c) \in Seq(SoundParts(fs))
           /\ Content(Append(cs, c), fs) = Content(cs, fs) \o Payload(c, fs)
<1>1. Append(cs, c) \in Seq(SoundParts(fs))
  OBVIOUS
<1>2. Payloads(Append(cs, c), fs) = Append(Payloads(cs, fs), Payload(c, fs))
  <2>1. PICK p \in Seq(Seq(Units)) :
           /\ p = Payloads(cs, fs) /\ Len(p) = Len(cs)
           /\ \A i \in 1 .. Len(cs) : p[i] = Payload(cs[i], fs)
    BY PayloadsType
  <2>2. PICK q \in Seq(Seq(Units)) :
           /\ q = Payloads(Append(cs, c), fs) /\ Len(q) = Len(Append(cs, c))
           /\ \A i \in 1 .. Len(Append(cs, c)) : q[i] = Payload(Append(cs, c)[i], fs)
    BY <1>1, PayloadsType
  <2>3. Len(Append(cs, c)) = Len(cs) + 1
        /\ \A i \in 1 .. Len(cs) : Append(cs, c)[i] = cs[i]
        /\ Append(cs, c)[Len(cs) + 1] = c
    OBVIOUS
  <2>4. Payload(c, fs) \in Seq(Units) BY SoundPayload
  <2>5. Append(p, Payload(c, fs)) \in Seq(Seq(Units))
        /\ Len(Append(p, Payload(c, fs))) = Len(cs) + 1
        /\ \A i \in 1 .. Len(cs) : Append(p, Payload(c, fs))[i] = p[i]
        /\ Append(p, Payload(c, fs))[Len(cs) + 1] = Payload(c, fs)
    BY <2>1, <2>4
  <2>6. \A i \in 1 .. Len(cs) + 1 : q[i] = Append(p, Payload(c, fs))[i]
    BY <2>1, <2>2, <2>3, <2>5
  <2>7. q = Append(p, Payload(c, fs))
    BY <2>2, <2>3, <2>5, <2>6, SeqEqual
  <2> QED BY <2>1, <2>2, <2>7
<1>3. FlattenSeq(Append(Payloads(cs, fs), Payload(c, fs)))
        = FlattenSeq(Payloads(cs, fs)) \o Payload(c, fs)
  <2>1. Payloads(cs, fs) \in Seq(Seq(Units)) /\ Payload(c, fs) \in Seq(Units)
    BY PayloadsType, SoundPayload
  <2> QED BY <2>1, FlattenAppend
<1> QED BY <1>1, <1>2, <1>3 DEF Content

\* A memory chunk with the checksum of its bytes.
LEMMA MemorySound ==
    ASSUME NEW fs, NEW data \in Seq(Units)
    PROVE  /\ [Memory(data) EXCEPT !.crc = data] \in SoundParts(fs)
           /\ Payload([Memory(data) EXCEPT !.crc = data], fs) = data
<1> DEFINE r == Chunk("memory", data, "", FALSE, 0, 0)
<1> DEFINE m == Memory(data)
<1> DEFINE c == [m EXCEPT !.crc = data]
<1>1. r \in Parts /\ r.kind = "memory" /\ r.data = data
  <2>1. r \in ChunksWith({Unset} \cup Seq(Units))
    BY DEF Chunk, ChunksWith
  <2> QED BY <2>1 DEF Parts, Placed, Chunk
<1>2. m = [r EXCEPT !.size = Len(data)]
  BY DEF Memory
<1> HIDE DEF r, m
<1>3. m \in Parts /\ m.kind = "memory" /\ m.data = data
  <2>1. Len(data) \in Nat OBVIOUS
  <2> QED BY <1>1, <1>2, <2>1 DEF Parts, Placed, ChunksWith
<1>4. c \in Parts /\ c.kind = "memory" /\ c.data = data
  BY <1>3 DEF Parts, Placed, ChunksWith
<1> HIDE DEF c
<1>5. c \in SoundParts(fs) /\ Payload(c, fs) = data
  BY <1>4 DEF SoundParts, Sound, Payload
<1> QED BY <1>5 DEF c, m

\* Memory joined to a sequence of chunks is joined to its content.
LEMMA WithMemoryContent ==
    ASSUME NEW fs, NEW cs \in Seq(SoundParts(fs)), NEW data \in Seq(Units)
    PROVE  /\ WithMemory(cs, data) \in Seq(SoundParts(fs))
           /\ Content(WithMemory(cs, data), fs) = Content(cs, fs) \o data
<1>0. Content(cs, fs) \in Seq(Units)
  BY ContentType
<1>1. CASE data = << >>
  <2>1. Content(cs, fs) \o data = Content(cs, fs) BY <1>0, <1>1
  <2> QED BY <1>1, <2>1 DEF WithMemory
<1>2. CASE data # << >> /\ cs # << >> /\ Last(cs).kind = "memory"
  <2>1. /\ Front(cs) \in Seq(SoundParts(fs)) /\ Last(cs) \in SoundParts(fs)
        /\ cs = Append(Front(cs), Last(cs))
    BY <1>2 DEF Front, Last
  <2>2. /\ Last(cs).data \in Seq(Units) /\ Payload(Last(cs), fs) = Last(cs).data
    BY <1>2, <2>1 DEF SoundParts, Parts, Placed, ChunksWith, Payload
  <2>3. PICK joined \in Seq(Units) : joined = Last(cs).data \o data
    <3>1. Last(cs).data \o data \in Seq(Units) BY <2>2, ConcatProperties
    <3> QED BY <3>1
  <2>4. WithMemory(cs, data) = Append(Front(cs), [Memory(joined) EXCEPT !.crc = joined])
    BY <1>2, <2>3 DEF WithMemory
  <2>5. PICK c \in SoundParts(fs) :
          c = [Memory(joined) EXCEPT !.crc = joined] /\ Payload(c, fs) = joined
    BY MemorySound
  <2>6. /\ Append(Front(cs), c) \in Seq(SoundParts(fs))
        /\ Content(Append(Front(cs), c), fs) = Content(Front(cs), fs) \o joined
    BY <2>1, <2>5, ContentAppend
  <2>7. Content(cs, fs) = Content(Front(cs), fs) \o Last(cs).data
    BY <2>1, <2>2, ContentAppend
  <2>8. Content(Front(cs), fs) \in Seq(Units)
    BY <2>1, ContentType
  <2>9. Content(Front(cs), fs) \o (Last(cs).data \o data)
          = (Content(Front(cs), fs) \o Last(cs).data) \o data
    <3>1. PICK x \in Seq(Units) : x = Last(cs).data BY <2>2
    <3>2. PICK y \in Seq(Units) : y = Content(Front(cs), fs) BY <2>8
    <3>3. y \o (x \o data) = (y \o x) \o data BY ConcatAssociative
    <3> QED BY <3>1, <3>2, <3>3
  <2> QED BY <2>3, <2>4, <2>5, <2>6, <2>7, <2>9
<1>3. CASE data # << >> /\ ~(cs # << >> /\ Last(cs).kind = "memory")
  <2>1. PICK c \in SoundParts(fs) :
          c = [Memory(data) EXCEPT !.crc = data] /\ Payload(c, fs) = data
    BY MemorySound
  <2>2. WithMemory(cs, data) = Append(cs, c)
    BY <1>3, <2>1 DEF WithMemory
  <2> QED BY <2>1, <2>2, ContentAppend
<1> QED BY <1>1, <1>2, <1>3

LEMMA WithPartContent ==
    ASSUME NEW fs, NEW cs \in Seq(SoundParts(fs)), NEW c \in SoundParts(fs), NEW o,
           o.offset \in Nat, o.length \in Nat, o.offset + o.length <= PayloadSize(c, fs)
    PROVE  /\ WithPart(cs, c, o) \in Seq(SoundParts(fs))
           /\ PartBytes(c, o, fs) = Bytes(Payload(c, fs), o.offset, o.length)
           /\ PartBytes(c, o, fs) \in Seq(Units)
           /\ Content(WithPart(cs, c, o), fs) = Content(cs, fs) \o PartBytes(c, o, fs)
<1>0. c \in Parts /\ Sound(c, fs)
  BY DEF SoundParts
<1>1. /\ PartBytes(c, o, fs) = Bytes(Payload(c, fs), o.offset, o.length)
      /\ PartBytes(c, o, fs) \in Seq(Units)
  BY <1>0, PartIsPart
<1>2. CASE c.kind = "memory"
  <2>1. WithPart(cs, c, o) = WithMemory(cs, PartBytes(c, o, fs))
    BY <1>2 DEF WithPart, PartBytes
  <2> QED BY <1>1, <2>1, WithMemoryContent
<1>3. CASE c.kind # "memory"
  <2>1. c.kind = "file"
    BY <1>0, <1>3 DEF Parts, Placed, ChunksWith
  <2>2. CutOut(c, o) \in SoundParts(fs) /\ Payload(CutOut(c, o), fs) = PartBytes(c, o, fs)
    BY <1>0, <2>1, CutOutIsPart
  <2>3. WithPart(cs, c, o) = Append(cs, CutOut(c, o))
    BY <1>3 DEF WithPart
  <2> QED BY <1>1, <2>2, <2>3, ContentAppend
<1> QED BY <1>2, <1>3

(***************************************************************************)
(* Ranges                                                                  *)
(***************************************************************************)
\* The part of s that a range meets grows, with t, by the part of t that the
\* range meets.
LEMMA RangeMisses ==
    ASSUME NEW U, NEW s \in Seq(U), NEW t \in Seq(U), NEW offset \in Nat, NEW length \in Nat,
           ~ (/\ length > 0
              /\ Len(s) + Len(t) > offset
              /\ Len(s) < offset + length)
    PROVE  SubSeq(s \o t, offset + 1, Smaller(offset + length, Len(s) + Len(t)))
             = SubSeq(s, offset + 1, Smaller(offset + length, Len(s)))
<1>1. PICK e \in Nat : e = Smaller(offset + length, Len(s)) /\ e <= Len(s)
                       /\ e <= offset + length /\ (e = Len(s) \/ e = offset + length)
  BY DEF Smaller
<1>2. PICK f \in Nat : f = Smaller(offset + length, Len(s) + Len(t))
                       /\ f <= Len(s) + Len(t) /\ f <= offset + length
                       /\ (f = Len(s) + Len(t) \/ f = offset + length)
  BY DEF Smaller
<1>3. CASE length = 0 \/ Len(s) + Len(t) <= offset
  <2>1. e < offset + 1 /\ f < offset + 1 BY <1>1, <1>2, <1>3
  <2>2. SubSeq(s, offset + 1, e) = << >> /\ SubSeq(s \o t, offset + 1, f) = << >>
    BY <2>1, SubSeqEmpty
  <2> QED BY <1>1, <1>2, <2>2
<1>4. CASE offset + length <= Len(s)
  <2>1. f = offset + length /\ e = f /\ f <= Len(s) BY <1>1, <1>2, <1>4
  <2>2. SubSeq(s \o t, offset + 1, f) = SubSeq(s, offset + 1, f)
    BY <2>1, PieceLeft
  <2> QED BY <1>1, <1>2, <2>1, <2>2
<1>5. (length = 0 \/ Len(s) + Len(t) <= offset) \/ offset + length <= Len(s)
  BY LenProperties
<1> QED BY <1>3, <1>4, <1>5, Zenon

LEMMA RangeMeets ==
    ASSUME NEW U, NEW s \in Seq(U), NEW t \in Seq(U), NEW offset \in Nat, NEW length \in Nat,
           Len(s) + Len(t) > offset, Len(s) < offset + length
    PROVE  SubSeq(s \o t, offset + 1, Smaller(offset + length, Len(s) + Len(t)))
             = SubSeq(s, offset + 1, Smaller(offset + length, Len(s)))
                 \o SubSeq(t, (Larger(offset, Len(s)) - Len(s)) + 1,
                           Smaller(offset + length, Len(s) + Len(t)) - Len(s))
<1>1. Smaller(offset + length, Len(s)) = Len(s)
  BY DEF Smaller
<1>2. PICK f \in Nat : f = Smaller(offset + length, Len(s) + Len(t))
                       /\ f <= Len(s) + Len(t) /\ Len(s) <= f
  BY DEF Smaller
<1>3. CASE offset <= Len(s)
  <2>1. Larger(offset, Len(s)) - Len(s) = 0 /\ 0 + 1 = 1
    BY <1>3 DEF Larger
  <2>2. SubSeq(s \o t, offset + 1, f) = SubSeq(s, offset + 1, Len(s)) \o SubSeq(t, 1, f - Len(s))
    BY <1>2, <1>3, PieceAcross
  <2> QED BY <1>1, <1>2, <2>1, <2>2
<1>4. CASE offset > Len(s)
  <2>1. Larger(offset, Len(s)) = offset
    BY <1>4 DEF Larger
  <2>2. SubSeq(s \o t, offset + 1, f) = SubSeq(t, (offset - Len(s)) + 1, f - Len(s))
    BY <1>2, <1>4, PieceRight, SMTT(30)
  <2>3. SubSeq(s, offset + 1, Len(s)) = << >>
    BY <1>4, SubSeqEmpty
  <2>4. SubSeq(t, (offset - Len(s)) + 1, f - Len(s)) \in Seq(U)
    <3>1. \A k \in (offset - Len(s)) + 1 .. f - Len(s) : k \in 1 .. Len(t)
      BY <1>2, <1>4
    <3>2. \A k \in (offset - Len(s)) + 1 .. f - Len(s) : t[k] \in U
      BY <3>1
    <3>3. (offset - Len(s)) + 1 \in Int /\ f - Len(s) \in Int BY <1>2
    <3> QED BY <3>2, <3>3, SubSeqProperties
  <2>5. << >> \o SubSeq(t, (offset - Len(s)) + 1, f - Len(s))
          = SubSeq(t, (offset - Len(s)) + 1, f - Len(s))
    BY <2>4, ConcatEmptySeq
  <2> QED BY <1>1, <1>2, <2>1, <2>2, <2>3, <2>5
<1>5. offset <= Len(s) \/ offset > Len(s)
  BY LenProperties
<1> QED BY <1>3, <1>4, <1>5, Zenon

\* What the i-th chunk has in a range.
Portion(cs, sizes, i, offset, length, fs) ==
    IF i \notin Met(sizes, offset, length) THEN << >>
    ELSE PartBytes(cs[i], Overlap(sizes, i, offset, length), fs)

\* The sizes are those of the contents, and every chunk is all there.
Measured(cs, sizes, fs) ==
    /\ cs \in Seq(SoundParts(fs))
    /\ sizes = Sizes(cs, fs)

LEMMA MeasuredSizes ==
    ASSUME NEW fs, NEW cs, NEW sizes, Measured(cs, sizes, fs)
    PROVE  /\ sizes \in Seq(Nat) /\ Len(sizes) = Len(cs)
           /\ \A i \in 1 .. Len(cs) :
                 /\ cs[i] \in SoundParts(fs)
                 /\ sizes[i] = PayloadSize(cs[i], fs)
                 /\ sizes[i] = Len(Payload(cs[i], fs))
<1>1. cs \in Seq(SoundParts(fs)) /\ Len(cs) \in Nat
  BY DEF Measured
<1>2. ASSUME NEW i \in 1 .. Len(cs)
      PROVE  /\ cs[i] \in SoundParts(fs)
             /\ PayloadSize(cs[i], fs) \in Nat
             /\ PayloadSize(cs[i], fs) = Len(Payload(cs[i], fs))
  <2>1. cs[i] \in SoundParts(fs) BY <1>1
  <2> QED BY <2>1, SoundPayload
<1>3. sizes = [i \in 1 .. Len(cs) |-> PayloadSize(cs[i], fs)]
  BY <1>1 DEF Measured, Sizes
<1> QED BY <1>1, <1>2, <1>3

LEMMA PortionIs ==
    ASSUME NEW fs, NEW cs, NEW sizes, Measured(cs, sizes, fs),
           NEW offset \in Nat, NEW length \in Nat, NEW i \in 1 .. Len(cs),
           i \in Met(sizes, offset, length)
    PROVE  /\ Portion(cs, sizes, i, offset, length, fs) \in Seq(Units)
           /\ Portion(cs, sizes, i, offset, length, fs) =
                SubSeq(Payload(cs[i], fs), (Larger(offset, Before(sizes, i)) - Before(sizes, i)) + 1,
                  Smaller(offset + length, Before(sizes, i) + sizes[i]) - Before(sizes, i))
<1> DEFINE o == Overlap(sizes, i, offset, length)
<1>1. /\ sizes \in Seq(Nat) /\ cs[i] \in SoundParts(fs) /\ sizes[i] = PayloadSize(cs[i], fs)
  BY MeasuredSizes
<1>2. /\ o.offset \in Nat /\ o.length \in Nat
      /\ o.offset = Larger(offset, Before(sizes, i)) - Before(sizes, i)
      /\ o.offset + o.length
           = Smaller(offset + length, Before(sizes, i) + sizes[i]) - Before(sizes, i)
      /\ o.offset + o.length <= sizes[i]
  BY <1>1, OverlapInside
<1>3. Portion(cs, sizes, i, offset, length, fs) = PartBytes(cs[i], o, fs)
  BY DEF Portion
<1> HIDE DEF o
<1>4. /\ PartBytes(cs[i], o, fs) = Bytes(Payload(cs[i], fs), o.offset, o.length)
      /\ PartBytes(cs[i], o, fs) \in Seq(Units)
  BY <1>1, <1>2, PartIsPart DEF SoundParts
<1>5. Bytes(Payload(cs[i], fs), o.offset, o.length)
        = SubSeq(Payload(cs[i], fs), o.offset + 1, o.offset + o.length)
  BY DEF Bytes
<1> QED BY <1>2, <1>3, <1>4, <1>5, Zenon

\* The lengths of the joined payloads are the offsets of the chunks.
LEMMA JoinedLengths ==
    ASSUME NEW fs, NEW cs, NEW sizes, Measured(cs, sizes, fs),
           NEW g, Joining(g, Payloads(cs, fs), Units)
    PROVE  /\ \A n \in 0 .. Len(cs) : g[n] \in Seq(Units)
           /\ g[0] = << >>
           /\ \A n \in 1 .. Len(cs) : g[n] = g[n - 1] \o Payload(cs[n], fs)
           /\ \A n \in 0 .. Len(cs) : Len(g[n]) = Before(sizes, n + 1)
           /\ g[Len(cs)] = Content(cs, fs)
<1> DEFINE N == Len(cs)
<1>1. /\ cs \in Seq(SoundParts(fs)) /\ N \in Nat
      /\ sizes \in Seq(Nat) /\ Len(sizes) = N
      /\ \A i \in 1 .. N : cs[i] \in SoundParts(fs) /\ sizes[i] = Len(Payload(cs[i], fs))
  BY MeasuredSizes DEF Measured
<1>2. PICK ps \in Seq(Seq(Units)) :
         /\ ps = Payloads(cs, fs) /\ Len(ps) = N
         /\ \A i \in 1 .. N : ps[i] = Payload(cs[i], fs)
  BY <1>1, PayloadsType
<1>3. /\ g \in [0 .. N -> Seq(Units)] /\ g[0] = << >>
      /\ \A n \in 1 .. N : g[n] = g[n - 1] \o ps[n]
  <2>1. /\ g \in [0 .. Len(ps) -> Seq(Units)] /\ g[0] = << >>
        /\ \A n \in 1 .. Len(ps) : g[n] = g[n - 1] \o ps[n]
    BY <1>2, JoiningStep
  <2> QED BY <1>2, <2>1
<1>4. g[N] = Content(cs, fs)
  BY <1>2, JoiningFlattens DEF Content
<1> DEFINE Good == {n \in 0 .. N : Len(g[n]) = Before(sizes, n + 1)}
<1>5. 0 \in Good
  <2>1. Len(g[0]) = 0 /\ 0 + 1 = 1 BY <1>3
  <2>2. Before(sizes, 1) = 0 BY <1>1, BeforeStep
  <2> QED BY <1>1, <2>1, <2>2
<1>6. ASSUME NEW n \in 0 .. N - 1, n \in Good PROVE n + 1 \in Good
  <2>1. n + 1 \in 1 .. N /\ (n + 1) - 1 = n /\ n \in 0 .. N BY <1>1
  <2>2. g[n + 1] = g[n] \o ps[n + 1] BY <1>3, <2>1
  <2>3. g[n] \in Seq(Units) /\ ps[n + 1] \in Seq(Units) BY <1>2, <1>3, <2>1, SMTT(30)
  <2>4. Len(g[n + 1]) = Len(g[n]) + Len(ps[n + 1]) BY <2>2, <2>3, ConcatProperties
  <2>5. Len(ps[n + 1]) = sizes[n + 1] BY <1>1, <1>2, <2>1
  <2>6. Before(sizes, (n + 1) + 1) = Before(sizes, n + 1) + sizes[n + 1]
    BY <1>1, <2>1, BeforeStep
  <2>7. Len(g[n]) = Before(sizes, n + 1) BY <1>6
  <2> QED BY <1>1, <2>1, <2>4, <2>5, <2>6, <2>7
<1>7. Good = 0 .. N
  <2> HIDE DEF Good
  <2>1. Good \in SUBSET (0 .. N) BY DEF Good
  <2> QED BY <1>1, <1>5, <1>6, <2>1, UpToBound
<1>8. ASSUME NEW n \in 0 .. N PROVE Len(g[n]) = Before(sizes, n + 1)
  BY <1>7
<1>9. ASSUME NEW n \in 1 .. N PROVE g[n] = g[n - 1] \o Payload(cs[n], fs)
  BY <1>2, <1>3
<1> QED BY <1>3, <1>4, <1>8, <1>9

\* h[n] is h[0] and what the first n chunks have in a range.
Collects(h, cs, sizes, offset, length, fs) ==
    /\ h[0] \in Seq(Units)
    /\ \A n \in 1 .. Len(cs) :
          h[n] = h[n - 1] \o Portion(cs, sizes, n, offset, length, fs)

\* Joining what the chunks have in a range gives the range of the content.
LEMMA PortionsJoin ==
    ASSUME NEW fs, NEW cs, NEW sizes, Measured(cs, sizes, fs),
           NEW offset \in Nat, NEW length \in Nat, offset + length <= Total(sizes),
           NEW h, Collects(h, cs, sizes, offset, length, fs)
    PROVE  h[Len(cs)] = h[0] \o Bytes(Content(cs, fs), offset, length)
<1> DEFINE N == Len(cs)
<1>1. /\ cs \in Seq(SoundParts(fs)) /\ N \in Nat
      /\ sizes \in Seq(Nat) /\ Len(sizes) = N
      /\ \A i \in 1 .. N : cs[i] \in SoundParts(fs) /\ sizes[i] = Len(Payload(cs[i], fs))
  BY MeasuredSizes DEF Measured
<1>2. PICK g : /\ \A n \in 0 .. N : g[n] \in Seq(Units)
               /\ g[0] = << >>
               /\ \A n \in 1 .. N : g[n] = g[n - 1] \o Payload(cs[n], fs)
               /\ \A n \in 0 .. N : Len(g[n]) = Before(sizes, n + 1)
               /\ g[N] = Content(cs, fs)
  <2>1. Payloads(cs, fs) \in Seq(Seq(Units)) BY <1>1, PayloadsType
  <2>2. PICK g : Joining(g, Payloads(cs, fs), Units) BY <2>1, JoiningExists
  <2> QED BY <2>2, JoinedLengths
<1>0. /\ h[0] \in Seq(Units)
      /\ \A n \in 1 .. N : h[n] = h[n - 1] \o Portion(cs, sizes, n, offset, length, fs)
  BY DEF Collects
<1> DEFINE In(n) == SubSeq(g[n], offset + 1, Smaller(offset + length, Len(g[n])))
<1> DEFINE Good == {n \in 0 .. N : In(n) \in Seq(Units) /\ h[n] = h[0] \o In(n)}
<1>3. 0 \in Good
  <2>1. Len(g[0]) = 0 /\ Smaller(offset + length, 0) = 0
    BY <1>2 DEF Smaller
  <2>2. In(0) = << >>
    BY <2>1, SubSeqEmpty
  <2>3. h[0] \o << >> = h[0] /\ << >> \in Seq(Units)
    BY <1>0, ConcatEmptySeq
  <2>4. In(0) \in Seq(Units) /\ h[0] = h[0] \o In(0)
    BY <2>2, <2>3, Zenon
  <2> HIDE DEF In
  <2> QED BY <1>1, <2>4
<1>4. ASSUME NEW n \in 0 .. N - 1, n \in Good PROVE n + 1 \in Good
  <2>1. n + 1 \in 1 .. N /\ (n + 1) - 1 = n /\ n \in 0 .. N BY <1>1
  <2>2. PICK s \in Seq(Units) : s = g[n] /\ Len(s) = Before(sizes, n + 1)
    BY <1>2, <2>1
  <2>3. PICK t \in Seq(Units) : t = Payload(cs[n + 1], fs) /\ Len(t) = sizes[n + 1]
    <3>1. cs[n + 1] \in SoundParts(fs) BY <1>1, <2>1
    <3> QED BY <1>1, <2>1, <3>1, SoundPayload
  <2>4. g[n + 1] = s \o t /\ Len(s \o t) = Len(s) + Len(t)
    <3>1. g[n + 1] = g[n] \o Payload(cs[n + 1], fs) BY <1>2, <2>1
    <3> QED BY <2>2, <2>3, <3>1, ConcatProperties
  <2>5. In(n) = SubSeq(s, offset + 1, Smaller(offset + length, Len(s)))
    BY <2>2
  <2>6. In(n + 1) = SubSeq(s \o t, offset + 1, Smaller(offset + length, Len(s) + Len(t)))
    BY <2>4
  <2> DEFINE p == Portion(cs, sizes, n + 1, offset, length, fs)
  <2>7. h[n + 1] = h[n] \o p /\ In(n) \in Seq(Units) /\ h[n] = h[0] \o In(n)
    <3> HIDE DEF In
    <3>1. h[n + 1] = h[(n + 1) - 1] \o p BY <1>0, <2>1
    <3> QED BY <1>4, <2>1, <3>1
  <2>8. n + 1 \in Met(sizes, offset, length) <=>
           length > 0 /\ Len(s) + Len(t) > offset /\ Len(s) < offset + length
    BY <1>1, <2>1, <2>2, <2>3 DEF Met
  <2>9. In(n + 1) = In(n) \o p /\ p \in Seq(Units)
    <3>1. CASE n + 1 \notin Met(sizes, offset, length)
      <4>1. p = << >> BY <3>1 DEF Portion
      <4>2. SubSeq(s \o t, offset + 1, Smaller(offset + length, Len(s) + Len(t)))
              = SubSeq(s, offset + 1, Smaller(offset + length, Len(s)))
        BY <2>8, <3>1, RangeMisses
      <4>3. In(n + 1) = In(n)
        BY <2>5, <2>6, <4>2, Zenon
      <4> HIDE DEF In
      <4>4. In(n) \o << >> = In(n) BY <2>7, ConcatEmptySeq
      <4>5. << >> \in Seq(Units) OBVIOUS
      <4> QED BY <4>1, <4>3, <4>4, <4>5, Zenon
    <3>2. CASE n + 1 \in Met(sizes, offset, length)
      <4>1. /\ p \in Seq(Units)
            /\ p = SubSeq(t, (Larger(offset, Len(s)) - Len(s)) + 1,
                          Smaller(offset + length, Len(s) + Len(t)) - Len(s))
        BY <2>1, <2>2, <2>3, <3>2, PortionIs
      <4>2. SubSeq(s \o t, offset + 1, Smaller(offset + length, Len(s) + Len(t)))
              = SubSeq(s, offset + 1, Smaller(offset + length, Len(s)))
                  \o SubSeq(t, (Larger(offset, Len(s)) - Len(s)) + 1,
                            Smaller(offset + length, Len(s) + Len(t)) - Len(s))
        BY <2>8, <3>2, RangeMeets
      <4> HIDE DEF p
      <4> QED BY <2>5, <2>6, <4>1, <4>2, Zenon
    <3> QED BY <3>1, <3>2
  <2> HIDE DEF In, p
  <2>10. In(n + 1) \in Seq(Units) BY <2>7, <2>9, ConcatProperties
  <2>11. h[n + 1] = h[0] \o In(n + 1)
    <3>1. PICK x \in Seq(Units), y \in Seq(Units), z \in Seq(Units) :
             x = h[0] /\ y = In(n) /\ z = p
      BY <1>0, <2>7, <2>9
    <3>2. (x \o y) \o z = x \o (y \o z)
      BY ConcatAssociative, SMTT(30)
    <3> QED BY <2>7, <2>9, <3>1, <3>2, Zenon
  <2>12. n + 1 \in 0 .. N BY <1>1, <2>1
  <2> QED BY <2>10, <2>11, <2>12
<1>5. N \in Good
  <2> HIDE DEF Good
  <2>1. Good \in SUBSET (0 .. N) BY DEF Good
  <2>2. Good = 0 .. N BY <1>1, <1>3, <1>4, <2>1, UpToBound
  <2> QED BY <1>1, <2>2
<1>6. In(N) = Bytes(Content(cs, fs), offset, length)
  <2>1. Len(g[N]) = Total(sizes)
    <3>1. Total(sizes) = Before(sizes, N + 1) BY <1>1, BeforeStep
    <3>2. N \in 0 .. N BY <1>1
    <3>3. Len(g[N]) = Before(sizes, N + 1) BY <1>2, <3>2
    <3> QED BY <3>1, <3>3
  <2>2. Total(sizes) \in Nat
    <3>0. N \in 0 .. N BY <1>1
    <3>1. g[N] \in Seq(Units) BY <1>2, <3>0
    <3> QED BY <2>1, <3>1, LenProperties
  <2>3. Smaller(offset + length, Total(sizes)) = offset + length
    BY <2>2 DEF Smaller
  <2> QED BY <1>2, <2>1, <2>3, Zenon DEF Bytes
<1> HIDE DEF In
<1> QED BY <1>5, <1>6

LEMMA ContentLength ==
    ASSUME NEW fs, NEW cs, NEW sizes, Measured(cs, sizes, fs)
    PROVE  /\ Content(cs, fs) \in Seq(Units)
           /\ Len(Content(cs, fs)) = Total(sizes)
           /\ Total(sizes) \in Nat
<1> DEFINE N == Len(cs)
<1>1. /\ cs \in Seq(SoundParts(fs)) /\ N \in Nat
      /\ sizes \in Seq(Nat) /\ Len(sizes) = N
  BY MeasuredSizes DEF Measured
<1>2. Content(cs, fs) \in Seq(Units)
  BY <1>1, ContentType
<1>3. PICK g : /\ \A n \in 0 .. N : Len(g[n]) = Before(sizes, n + 1)
               /\ g[N] = Content(cs, fs)
  <2>1. Payloads(cs, fs) \in Seq(Seq(Units)) BY <1>1, PayloadsType
  <2>2. PICK g : Joining(g, Payloads(cs, fs), Units) BY <2>1, JoiningExists
  <2> QED BY <2>2, JoinedLengths
<1>4. Len(Content(cs, fs)) = Total(sizes)
  <2>1. N \in 0 .. N BY <1>1
  <2>2. Total(sizes) = Before(sizes, N + 1) BY <1>1, BeforeStep
  <2> QED BY <1>3, <2>1, <2>2
<1> QED BY <1>2, <1>4, LenProperties

\* Reading a range of a chunk sequence gives the range of its content.
LEMMA RangeBytesContent ==
    ASSUME NEW fs, NEW cs, NEW sizes, Measured(cs, sizes, fs),
           NEW offset \in Nat, NEW length \in Nat, offset + length <= Total(sizes)
    PROVE  RangeBytes(cs, sizes, offset, length, fs) = Bytes(Content(cs, fs), offset, length)
<1> DEFINE N == Len(cs)
<1> DEFINE ps == [i \in DOMAIN cs |-> Portion(cs, sizes, i, offset, length, fs)]
<1>1. cs \in Seq(SoundParts(fs)) /\ N \in Nat /\ DOMAIN cs = 1 .. N
  BY DEF Measured
<1>2. \A i \in 1 .. N : Portion(cs, sizes, i, offset, length, fs) \in Seq(Units)
  <2> SUFFICES ASSUME NEW i \in 1 .. N
               PROVE  Portion(cs, sizes, i, offset, length, fs) \in Seq(Units)
    OBVIOUS
  <2>1. CASE i \in Met(sizes, offset, length)
    BY <2>1, PortionIs
  <2>2. CASE i \notin Met(sizes, offset, length)
    <3>1. << >> \in Seq(Units) OBVIOUS
    <3> QED BY <2>2, <3>1 DEF Portion
  <2> QED BY <2>1, <2>2
<1>3. /\ ps \in Seq(Seq(Units)) /\ Len(ps) = N
      /\ \A i \in 1 .. N : ps[i] = Portion(cs, sizes, i, offset, length, fs)
  BY <1>1, <1>2
<1>4. RangeBytes(cs, sizes, offset, length, fs) = FlattenSeq(ps)
  BY DEF RangeBytes, Portion
<1> HIDE DEF ps
<1>5. PICK h : Joining(h, ps, Units)
  BY <1>3, JoiningExists
<1>6. /\ h[0] = << >>
      /\ \A n \in 1 .. N : h[n] = h[n - 1] \o Portion(cs, sizes, n, offset, length, fs)
  <2>1. /\ h[0] = << >>
        /\ \A n \in 1 .. Len(ps) : h[n] = h[n - 1] \o ps[n]
    BY <1>3, <1>5, JoiningStep
  <2> QED BY <1>3, <2>1
<1>7. FlattenSeq(ps) = h[N]
  BY <1>3, <1>5, JoiningFlattens
<1>8. h[N] = << >> \o Bytes(Content(cs, fs), offset, length)
  <2>1. Collects(h, cs, sizes, offset, length, fs) BY <1>6 DEF Collects
  <2>2. \A g : Collects(g, cs, sizes, offset, length, fs) =>
                g[Len(cs)] = g[0] \o Bytes(Content(cs, fs), offset, length)
    BY PortionsJoin, Zenon
  <2>3. h[N] = h[0] \o Bytes(Content(cs, fs), offset, length)
    BY <2>1, <2>2
  <2> QED BY <1>6, <2>3
<1>9. << >> \o Bytes(Content(cs, fs), offset, length) = Bytes(Content(cs, fs), offset, length)
  <2>1. PICK b \in Seq(Units) : b = Bytes(Content(cs, fs), offset, length)
    BY ContentLength, BytesType
  <2>2. << >> \o b = b BY ConcatEmptySeq
  <2> QED BY <2>1, <2>2
<1> QED BY <1>4, <1>7, <1>8, <1>9

\* Cutting the range out gives chunks with that content.
LEMMA WithRangeContent ==
    ASSUME NEW fs, NEW cs, NEW sizes, Measured(cs, sizes, fs),
           NEW output \in Seq(SoundParts(fs)),
           NEW offset \in Nat, NEW length \in Nat, offset + length <= Total(sizes)
    PROVE  /\ WithRange(output, cs, sizes, offset, length) \in Seq(SoundParts(fs))
           /\ Content(WithRange(output, cs, sizes, offset, length), fs)
                = Content(output, fs) \o Bytes(Content(cs, fs), offset, length)
<1> DEFINE N == Len(cs)
<1> DEFINE X == Seq(SoundParts(fs))
<1> DEFINE O(n) == Overlap(sizes, n, offset, length)
<1> DEFINE Eq(f) == f = [n \in 0 .. N |->
                           IF n = 0 THEN output
                           ELSE IF n \notin Met(sizes, offset, length) THEN f[n - 1]
                           ELSE WithPart(f[n - 1], cs[n], O(n))]
<1>1. cs \in X /\ N \in Nat /\ sizes \in Seq(Nat)
  BY MeasuredSizes DEF Measured
<1>2. WithRange(output, cs, sizes, offset, length) = (CHOOSE f : Eq(f))[N]
  BY DEF WithRange
<1>3. ASSUME NEW n \in 1 .. N, n \in Met(sizes, offset, length), NEW x \in X
      PROVE  /\ WithPart(x, cs[n], O(n)) \in X
             /\ Content(WithPart(x, cs[n], O(n)), fs)
                  = Content(x, fs) \o PartBytes(cs[n], O(n), fs)
  <2>1. cs[n] \in SoundParts(fs) /\ sizes[n] = PayloadSize(cs[n], fs)
    BY MeasuredSizes
  <2>2. O(n).offset \in Nat /\ O(n).length \in Nat /\ O(n).offset + O(n).length <= sizes[n]
    BY <1>1, <1>3, OverlapInside
  <2> HIDE DEF O
  <2> QED BY <2>1, <2>2, WithPartContent
<1>4. \E f : Eq(f)
  <2> DEFINE To(n, x) == IF n \notin Met(sizes, offset, length) THEN x
                         ELSE WithPart(x, cs[n], O(n))
  <2> DEFINE step == [n \in 1 .. N |-> [x \in X |-> To(n, x)]]
  <2>1. step \in [1 .. N -> [X -> X]]
    <3> HIDE DEF X, O
    <3>1. \A n \in 1 .. N, x \in X : To(n, x) \in X BY <1>3
    <3> HIDE DEF To
    <3> QED BY <3>1
  <2>2. PICK f : Steps(f, N, X, output, step)
    <3> HIDE DEF step
    <3> QED BY <1>1, <2>1, RecursionExists
  <2>3. ASSUME NEW n \in 1 .. N PROVE f[n] = To(n, f[n - 1])
    <3>1. n - 1 \in 0 .. N BY <1>1
    <3>2. f[n] = step[n][f[n - 1]] /\ f[n - 1] \in X
      <4> HIDE DEF step, X
      <4> QED BY <2>2, <3>1 DEF Steps
    <3> HIDE DEF X, To
    <3> QED BY <3>2
  <2>4. f[0] = output /\ f = [n \in 0 .. N |-> f[n]]
    <3> HIDE DEF step, X
    <3> QED BY <2>2 DEF Steps
  <2>5. Eq(f)
    <3> HIDE DEF O, X
    <3>1. \A n \in 0 .. N : n # 0 => n \in 1 .. N BY <1>1
    <3>2. \A n \in 0 .. N :
             f[n] = IF n = 0 THEN output
                    ELSE IF n \notin Met(sizes, offset, length) THEN f[n - 1]
                    ELSE WithPart(f[n - 1], cs[n], O(n))
      BY <2>3, <2>4, <3>1
    <3> QED BY <2>4, <3>2
  <2> HIDE DEF Eq
  <2> QED BY <2>5
<1> DEFINE f == CHOOSE f : Eq(f)
<1>5. Eq(f)
  <2> HIDE DEF Eq
  <2> QED BY <1>4
<1>6. /\ f[0] = output
      /\ \A n \in 1 .. N : f[n] = IF n \notin Met(sizes, offset, length) THEN f[n - 1]
                                  ELSE WithPart(f[n - 1], cs[n], O(n))
  <2> HIDE DEF f, O
  <2>1. \A n \in 0 .. N :
           f[n] = IF n = 0 THEN output
                  ELSE IF n \notin Met(sizes, offset, length) THEN f[n - 1]
                  ELSE WithPart(f[n - 1], cs[n], O(n))
    <3> HIDE DEF N
    <3> QED BY <1>5
  <2>2. 0 \in 0 .. N /\ \A n \in 1 .. N : n \in 0 .. N /\ n # 0 BY <1>1
  <2> QED BY <2>1, <2>2
<1> HIDE DEF f, O
<1> DEFINE Good == {n \in 0 .. N : f[n] \in X}
<1>7. Good = 0 .. N
  <2>1. 0 \in Good
    BY <1>1, <1>6
  <2>2. ASSUME NEW n \in 0 .. N - 1, n \in Good PROVE n + 1 \in Good
    <3>1. n + 1 \in 1 .. N /\ (n + 1) - 1 = n /\ n + 1 \in 0 .. N BY <1>1
    <3>2. f[n] \in X BY <2>2
    <3> HIDE DEF X
    <3>3. f[n + 1] \in X BY <1>3, <1>6, <3>1, <3>2
    <3> QED BY <3>1, <3>3
  <2>3. Good \in SUBSET (0 .. N) OBVIOUS
  <2> HIDE DEF Good
  <2> QED BY <1>1, <2>1, <2>2, <2>3, UpToBound
<1>8. \A n \in 0 .. N : f[n] \in X
  BY <1>7
<1> DEFINE h == [n \in 0 .. N |-> Content(f[n], fs)]
<1>9. h[0] = Content(output, fs) /\ h[0] \in Seq(Units)
  <2>1. h[0] = Content(output, fs) BY <1>1, <1>6
  <2> HIDE DEF h
  <2> QED BY <2>1, ContentType
<1>10. ASSUME NEW n \in 1 .. N
       PROVE  h[n] = h[n - 1] \o Portion(cs, sizes, n, offset, length, fs)
  <2>1. n \in 0 .. N /\ n - 1 \in 0 .. N /\ f[n - 1] \in X BY <1>1, <1>8
  <2>2. h[n] = Content(f[n], fs) /\ h[n - 1] = Content(f[n - 1], fs) BY <2>1
  <2> HIDE DEF h
  <2>3. CASE n \in Met(sizes, offset, length)
    <3>1. Portion(cs, sizes, n, offset, length, fs) = PartBytes(cs[n], O(n), fs)
      BY <2>3 DEF Portion, O
    <3>2. f[n] = WithPart(f[n - 1], cs[n], O(n)) BY <1>6, <2>3
    <3>3. Content(WithPart(f[n - 1], cs[n], O(n)), fs)
            = Content(f[n - 1], fs) \o PartBytes(cs[n], O(n), fs)
      <4> HIDE DEF X
      <4> QED BY <1>3, <2>1, <2>3
    <3> QED BY <2>2, <3>1, <3>2, <3>3
  <2>4. CASE n \notin Met(sizes, offset, length)
    <3>1. Portion(cs, sizes, n, offset, length, fs) = << >> BY <2>4 DEF Portion
    <3>2. f[n] = f[n - 1] BY <1>6, <2>4
    <3>3. PICK c \in Seq(Units) : c = Content(f[n - 1], fs) BY <2>1, ContentType
    <3>4. c \o << >> = c BY ConcatEmptySeq
    <3> QED BY <2>2, <3>1, <3>2, <3>3, <3>4
  <2> QED BY <2>3, <2>4
<1>11. h[N] = h[0] \o Bytes(Content(cs, fs), offset, length)
  <2> HIDE DEF h
  <2>1. Collects(h, cs, sizes, offset, length, fs) BY <1>9, <1>10 DEF Collects
  <2>2. \A g : Collects(g, cs, sizes, offset, length, fs) =>
                g[Len(cs)] = g[0] \o Bytes(Content(cs, fs), offset, length)
    BY PortionsJoin, Zenon
  <2> QED BY <2>1, <2>2
<1>12. N \in 0 .. N /\ h[N] = Content(f[N], fs)
  BY <1>1
<1> HIDE DEF h
<1> QED BY <1>2, <1>8, <1>9, <1>11, <1>12 DEF f

(***************************************************************************)
(* Patches                                                                 *)
(***************************************************************************)
\* What is kept before the n-th rewrite, and what the rewrite puts there.
Piece(content, rewrites, n) ==
    Bytes(content, End(rewrites, n - 1), rewrites[n].from - End(rewrites, n - 1))
      \o rewrites[n].payload

Remainder(content, rewrites) ==
    Bytes(content, End(rewrites, Len(rewrites)), Len(content) - End(rewrites, Len(rewrites)))

Pieces(content, rewrites) == [n \in DOMAIN rewrites |-> Piece(content, rewrites, n)]

Ordered(rewrites, length) ==
    /\ rewrites \in Seq(Rewrites)
    /\ \A n \in 1 .. Len(rewrites) :
          /\ End(rewrites, n - 1) <= rewrites[n].from
          /\ rewrites[n].from <= rewrites[n].to
          /\ rewrites[n].to <= length

LEMMA RewriteFields ==
    ASSUME NEW rewrites \in Seq(Rewrites), NEW n \in 1 .. Len(rewrites)
    PROVE  /\ rewrites[n].from \in Nat /\ rewrites[n].to \in Nat
           /\ rewrites[n].payload \in Seq(Units)
<1>1. rewrites[n] \in Rewrites
  OBVIOUS
<1> QED BY <1>1 DEF Rewrites

\* Where a rewrite ends and the next begins.
LEMMA RewriteBounds ==
    ASSUME NEW length \in Nat, NEW rewrites, Ordered(rewrites, length)
    PROVE  /\ \A n \in 0 .. Len(rewrites) :
                 End(rewrites, n) \in Nat /\ End(rewrites, n) <= length
           /\ \A n \in 1 .. Len(rewrites) :
                 /\ End(rewrites, n - 1) \in Nat
                 /\ rewrites[n].from - End(rewrites, n - 1) \in Nat
                 /\ End(rewrites, n - 1) + (rewrites[n].from - End(rewrites, n - 1)) <= length
                 /\ rewrites[n].payload \in Seq(Units)
           /\ length - End(rewrites, Len(rewrites)) \in Nat
           /\ End(rewrites, Len(rewrites)) + (length - End(rewrites, Len(rewrites))) <= length
<1>0. rewrites \in Seq(Rewrites) /\ Len(rewrites) \in Nat
  BY DEF Ordered
<1>1. ASSUME NEW n \in 0 .. Len(rewrites)
      PROVE  End(rewrites, n) \in Nat /\ End(rewrites, n) <= length
  <2>1. CASE n = 0 BY <2>1 DEF End
  <2>2. CASE n # 0
    <3>1. n \in 1 .. Len(rewrites) BY <1>0, <2>2
    <3>2. rewrites[n].to \in Nat BY <1>0, <3>1, RewriteFields
    <3>3. rewrites[n].to <= length BY <3>1 DEF Ordered
    <3> QED BY <2>2, <3>2, <3>3 DEF End
  <2> QED BY <2>1, <2>2
<1>2. ASSUME NEW n \in 1 .. Len(rewrites)
      PROVE  /\ End(rewrites, n - 1) \in Nat
             /\ rewrites[n].from - End(rewrites, n - 1) \in Nat
             /\ End(rewrites, n - 1) + (rewrites[n].from - End(rewrites, n - 1)) <= length
             /\ rewrites[n].payload \in Seq(Units)
  <2>1. n - 1 \in 0 .. Len(rewrites) BY <1>0
  <2>2. PICK e \in Nat : e = End(rewrites, n - 1) BY <1>1, <2>1
  <2>3. PICK from \in Nat, to \in Nat : from = rewrites[n].from /\ to = rewrites[n].to
    BY <1>0, RewriteFields
  <2>4. e <= from /\ from <= to /\ to <= length BY <2>2, <2>3 DEF Ordered
  <2>5. from - e \in Nat /\ e + (from - e) <= length BY <2>4
  <2> QED BY <1>0, <2>2, <2>3, <2>5, RewriteFields, Zenon
<1>3. /\ length - End(rewrites, Len(rewrites)) \in Nat
      /\ End(rewrites, Len(rewrites)) + (length - End(rewrites, Len(rewrites))) <= length
  <2>1. Len(rewrites) \in 0 .. Len(rewrites) BY <1>0
  <2>2. PICK e \in Nat : e = End(rewrites, Len(rewrites)) /\ e <= length BY <1>1, <2>1
  <2>3. length - e \in Nat /\ e + (length - e) <= length BY <2>2
  <2> QED BY <2>2, <2>3, Zenon
<1> QED BY <1>1, <1>2, <1>3, Zenon

LEMMA PiecesType ==
    ASSUME NEW content \in Seq(Units), NEW rewrites, Ordered(rewrites, Len(content))
    PROVE  /\ Pieces(content, rewrites) \in Seq(Seq(Units))
           /\ Len(Pieces(content, rewrites)) = Len(rewrites)
           /\ \A n \in 1 .. Len(rewrites) :
                 /\ Pieces(content, rewrites)[n] = Piece(content, rewrites, n)
                 /\ Bytes(content, End(rewrites, n - 1),
                          rewrites[n].from - End(rewrites, n - 1)) \in Seq(Units)
           /\ Remainder(content, rewrites) \in Seq(Units)
<1>0. Len(rewrites) \in Nat /\ DOMAIN rewrites = 1 .. Len(rewrites) /\ Len(content) \in Nat
  BY DEF Ordered
<1>1. ASSUME NEW n \in 1 .. Len(rewrites)
      PROVE  /\ Bytes(content, End(rewrites, n - 1),
                      rewrites[n].from - End(rewrites, n - 1)) \in Seq(Units)
             /\ Piece(content, rewrites, n) \in Seq(Units)
  <2>1. /\ End(rewrites, n - 1) \in Nat
        /\ rewrites[n].from - End(rewrites, n - 1) \in Nat
        /\ End(rewrites, n - 1) + (rewrites[n].from - End(rewrites, n - 1)) <= Len(content)
        /\ rewrites[n].payload \in Seq(Units)
    BY <1>0, RewriteBounds
  <2>2. Bytes(content, End(rewrites, n - 1),
              rewrites[n].from - End(rewrites, n - 1)) \in Seq(Units)
    BY <2>1, BytesType
  <2> QED BY <2>1, <2>2, ConcatProperties DEF Piece
<1>2. Remainder(content, rewrites) \in Seq(Units)
  <2>1. /\ Len(rewrites) \in 0 .. Len(rewrites)
        /\ Len(content) - End(rewrites, Len(rewrites)) \in Nat
        /\ End(rewrites, Len(rewrites))
             + (Len(content) - End(rewrites, Len(rewrites))) <= Len(content)
    BY <1>0, RewriteBounds
  <2>2. End(rewrites, Len(rewrites)) \in Nat
    BY <1>0, <2>1, RewriteBounds
  <2> QED BY <2>1, <2>2, BytesType DEF Remainder
<1> QED BY <1>0, <1>1, <1>2 DEF Pieces

\* The recursion of Spliced computes the pieces, one behind the other.
LEMMA SplicedIs ==
    ASSUME NEW content \in Seq(Units), NEW rewrites, Ordered(rewrites, Len(content))
    PROVE  Spliced(content, rewrites)
             = FlattenSeq(Pieces(content, rewrites)) \o Remainder(content, rewrites)
<1> DEFINE R == Len(rewrites)
<1> DEFINE ks == Pieces(content, rewrites)
<1> DEFINE Eq(f) == f = [n \in 1 .. R + 1 |->
            IF n = R + 1
            THEN Bytes(content, End(rewrites, n - 1), Len(content) - End(rewrites, n - 1))
            ELSE (Bytes(content, End(rewrites, n - 1),
                        rewrites[n].from - End(rewrites, n - 1))
                   \o rewrites[n].payload) \o f[n + 1]]
<1>0. R \in Nat
  BY DEF Ordered
<1>1. /\ ks \in Seq(Seq(Units)) /\ Len(ks) = R
      /\ \A n \in 1 .. R : ks[n] = Piece(content, rewrites, n)
      /\ Remainder(content, rewrites) \in Seq(Units)
  BY PiecesType
<1> HIDE DEF ks
<1>2. Spliced(content, rewrites) = (CHOOSE f : Eq(f))[1]
  BY DEF Spliced
<1>3. \E f : Eq(f)
  <2>1. PICK f \in [1 .. Len(ks) + 1 -> Seq(Units)] : Trailing(f, ks, Remainder(content, rewrites))
    BY <1>1, TrailingExists
  <2>2. f = [n \in 1 .. R + 1 |-> f[n]]
    BY <1>1, <2>1
  <2>3. ASSUME NEW n \in 1 .. R + 1
        PROVE  f[n] = IF n = R + 1
                      THEN Bytes(content, End(rewrites, n - 1),
                                 Len(content) - End(rewrites, n - 1))
                      ELSE (Bytes(content, End(rewrites, n - 1),
                                  rewrites[n].from - End(rewrites, n - 1))
                             \o rewrites[n].payload) \o f[n + 1]
    <3>1. CASE n = R + 1
      <4>1. n - 1 = R BY <1>0, <3>1
      <4>2. f[R + 1] = Remainder(content, rewrites) BY <1>1, <2>1 DEF Trailing
      <4> QED BY <3>1, <4>1, <4>2 DEF Remainder
    <3>2. CASE n # R + 1
      <4>1. n \in 1 .. R BY <1>0, <3>2
      <4>2. f[n] = ks[n] \o f[n + 1] BY <1>1, <2>1, <4>1 DEF Trailing
      <4>3. ks[n] = Piece(content, rewrites, n) BY <1>1, <4>1
      <4> QED BY <3>2, <4>2, <4>3 DEF Piece
    <3> QED BY <3>1, <3>2
  <2>4. Eq(f)
    <3> HIDE DEF R
    <3> QED BY <2>2, <2>3
  <2> HIDE DEF Eq
  <2> QED BY <2>4
<1> DEFINE f == CHOOSE f : Eq(f)
<1>4. Eq(f)
  <2> HIDE DEF Eq
  <2> QED BY <1>3
<1>5. \A n \in 1 .. R + 1 :
         f[n] = IF n = R + 1
                THEN Bytes(content, End(rewrites, n - 1),
                           Len(content) - End(rewrites, n - 1))
                ELSE (Bytes(content, End(rewrites, n - 1),
                            rewrites[n].from - End(rewrites, n - 1))
                       \o rewrites[n].payload) \o f[n + 1]
  <2> HIDE DEF f, R
  <2> QED BY <1>4
<1> HIDE DEF f
<1>6. Trailing(f, ks, Remainder(content, rewrites))
  <2>1. R + 1 \in 1 .. R + 1 /\ (R + 1) - 1 = R BY <1>0
  <2>2. f[R + 1] = Remainder(content, rewrites) BY <1>5, <2>1 DEF Remainder
  <2>3. ASSUME NEW n \in 1 .. R PROVE f[n] = ks[n] \o f[n + 1]
    <3>1. n \in 1 .. R + 1 /\ n # R + 1 BY <1>0
    <3>2. ks[n] = Piece(content, rewrites, n) BY <1>1
    <3> QED BY <1>5, <3>1, <3>2 DEF Piece
  <2> QED BY <1>1, <2>2, <2>3 DEF Trailing
<1>7. f[1] = FlattenSeq(ks) \o Remainder(content, rewrites)
  BY <1>1, <1>6, TrailingFlattens
<1> QED BY <1>2, <1>7 DEF f, ks

\* Emitting the ranges gives the same,
LEMMA PatchEmittedIs ==
    ASSUME NEW fs, NEW cs, NEW sizes, Measured(cs, sizes, fs),
           NEW rewrites, Ordered(rewrites, Total(sizes))
    PROVE  PatchEmitted(cs, sizes, rewrites, fs)
             = FlattenSeq(Pieces(Content(cs, fs), rewrites)) \o Remainder(Content(cs, fs), rewrites)
<1> DEFINE c == Content(cs, fs)
<1> DEFINE R == Len(rewrites)
<1>1. c \in Seq(Units) /\ Len(c) = Total(sizes) /\ Total(sizes) \in Nat
  BY ContentLength
<1>2. R \in Nat /\ DOMAIN rewrites = 1 .. R
  BY DEF Ordered
<1>3. ASSUME NEW n \in 1 .. R
      PROVE  RangeBytes(cs, sizes, End(rewrites, n - 1),
                        rewrites[n].from - End(rewrites, n - 1), fs)
               = Bytes(c, End(rewrites, n - 1), rewrites[n].from - End(rewrites, n - 1))
  <2>1. /\ End(rewrites, n - 1) \in Nat
        /\ rewrites[n].from - End(rewrites, n - 1) \in Nat
        /\ End(rewrites, n - 1) + (rewrites[n].from - End(rewrites, n - 1)) <= Total(sizes)
    BY <1>1, RewriteBounds
  <2> QED BY <2>1, RangeBytesContent
<1>4. RangeBytes(cs, sizes, End(rewrites, R), Total(sizes) - End(rewrites, R), fs)
        = Remainder(c, rewrites)
  <2>0. R \in 0 .. R BY <1>2
  <2>1. /\ End(rewrites, R) \in Nat
        /\ Total(sizes) - End(rewrites, R) \in Nat
        /\ End(rewrites, R) + (Total(sizes) - End(rewrites, R)) <= Total(sizes)
    BY <1>1, <2>0, RewriteBounds
  <2>2. RangeBytes(cs, sizes, End(rewrites, R), Total(sizes) - End(rewrites, R), fs)
          = Bytes(c, End(rewrites, R), Total(sizes) - End(rewrites, R))
    BY <2>1, RangeBytesContent
  <2> QED BY <1>1, <2>2, Zenon DEF Remainder
<1>5. [n \in DOMAIN rewrites |->
         RangeBytes(cs, sizes, End(rewrites, n - 1),
                    rewrites[n].from - End(rewrites, n - 1), fs) \o rewrites[n].payload]
        = Pieces(c, rewrites)
  <2> HIDE DEF c
  <2> QED BY <1>2, <1>3 DEF Pieces, Piece
<1>6. PatchEmitted(cs, sizes, rewrites, fs)
        = FlattenSeq([n \in DOMAIN rewrites |->
             RangeBytes(cs, sizes, End(rewrites, n - 1),
                        rewrites[n].from - End(rewrites, n - 1), fs) \o rewrites[n].payload])
          \o RangeBytes(cs, sizes, End(rewrites, R), Total(sizes) - End(rewrites, R), fs)
  BY DEF PatchEmitted
<1> HIDE DEF c, R
<1>7. PatchEmitted(cs, sizes, rewrites, fs) = FlattenSeq(Pieces(c, rewrites)) \o Remainder(c, rewrites)
  BY <1>4, <1>5, <1>6, Zenon
<1> QED BY <1>7 DEF c

\* and so does cutting the ranges out, without reading a file.
LEMMA PatchedIs ==
    ASSUME NEW fs, NEW cs, NEW sizes, Measured(cs, sizes, fs),
           NEW rewrites, Ordered(rewrites, Total(sizes))
    PROVE  /\ Patched(cs, sizes, rewrites) \in Seq(SoundParts(fs))
           /\ Content(Patched(cs, sizes, rewrites), fs)
                = FlattenSeq(Pieces(Content(cs, fs), rewrites)) \o Remainder(Content(cs, fs), rewrites)
<1> DEFINE c == Content(cs, fs)
<1> DEFINE R == Len(rewrites)
<1> DEFINE X == Seq(SoundParts(fs))
<1> DEFINE ks == Pieces(c, rewrites)
<1> DEFINE Kept(n, x) == WithRange(x, cs, sizes, End(rewrites, n - 1),
                                   rewrites[n].from - End(rewrites, n - 1))
<1> DEFINE To(n, x) == WithMemory(Kept(n, x), rewrites[n].payload)
<1> DEFINE Eq(f) == f = [n \in 0 .. R |-> IF n = 0 THEN << >> ELSE To(n, f[n - 1])]
<1>1. c \in Seq(Units) /\ Len(c) = Total(sizes) /\ Total(sizes) \in Nat
  BY ContentLength
<1>2. R \in Nat /\ DOMAIN rewrites = 1 .. R
  BY DEF Ordered
<1>3. /\ ks \in Seq(Seq(Units)) /\ Len(ks) = R
      /\ \A n \in 1 .. R :
            /\ ks[n] = Piece(c, rewrites, n)
            /\ Bytes(c, End(rewrites, n - 1),
                     rewrites[n].from - End(rewrites, n - 1)) \in Seq(Units)
      /\ Remainder(c, rewrites) \in Seq(Units)
  <2>1. Ordered(rewrites, Len(c)) BY <1>1
  <2> HIDE DEF c
  <2> QED BY <1>1, <2>1, PiecesType
<1>4. Patched(cs, sizes, rewrites)
        = WithRange((CHOOSE f : Eq(f))[R], cs, sizes, End(rewrites, R),
                    Total(sizes) - End(rewrites, R))
  BY DEF Patched
<1>5. ASSUME NEW n \in 1 .. R, NEW x \in X
      PROVE  /\ To(n, x) \in X
             /\ Content(To(n, x), fs) = Content(x, fs) \o Piece(c, rewrites, n)
  <2>1. /\ End(rewrites, n - 1) \in Nat
        /\ rewrites[n].from - End(rewrites, n - 1) \in Nat
        /\ End(rewrites, n - 1) + (rewrites[n].from - End(rewrites, n - 1)) <= Total(sizes)
        /\ rewrites[n].payload \in Seq(Units)
    BY <1>1, RewriteBounds
  <2>2. /\ Kept(n, x) \in X
        /\ Content(Kept(n, x), fs)
             = Content(x, fs) \o Bytes(c, End(rewrites, n - 1),
                                       rewrites[n].from - End(rewrites, n - 1))
    BY <2>1, WithRangeContent
  <2> HIDE DEF Kept, c
  <2>3. /\ To(n, x) \in X
        /\ Content(To(n, x), fs) = Content(Kept(n, x), fs) \o rewrites[n].payload
    BY <2>1, <2>2, WithMemoryContent
  <2> HIDE DEF To
  <2>4. PICK u \in Seq(Units), v \in Seq(Units), w \in Seq(Units) :
           /\ u = Content(x, fs) /\ w = rewrites[n].payload
           /\ v = Bytes(c, End(rewrites, n - 1), rewrites[n].from - End(rewrites, n - 1))
    BY <1>3, <2>1, ContentType
  <2>5. (u \o v) \o w = u \o (v \o w)
    BY ConcatAssociative
  <2>6. Piece(c, rewrites, n) = v \o w
    BY <2>4 DEF Piece
  <2> QED BY <2>2, <2>3, <2>4, <2>5, <2>6, Zenon
<1>6. << >> \in X
  OBVIOUS
<1>7. \E f : Eq(f)
  <2> DEFINE step == [n \in 1 .. R |-> [x \in X |-> To(n, x)]]
  <2>1. step \in [1 .. R -> [X -> X]]
    <3> HIDE DEF X, To
    <3> QED BY <1>5
  <2>2. PICK f : Steps(f, R, X, << >>, step)
    <3> HIDE DEF step, X
    <3> QED BY <1>2, <1>6, <2>1, RecursionExists
  <2>3. f[0] = << >> /\ f = [n \in 0 .. R |-> f[n]]
    <3> HIDE DEF step, X
    <3> QED BY <2>2 DEF Steps
  <2>4. ASSUME NEW n \in 1 .. R PROVE f[n] = To(n, f[n - 1])
    <3>1. n - 1 \in 0 .. R BY <1>2
    <3>2. f[n] = step[n][f[n - 1]] /\ f[n - 1] \in X
      <4> HIDE DEF step, X
      <4> QED BY <2>2, <3>1 DEF Steps
    <3> HIDE DEF X, To
    <3> QED BY <3>2
  <2>5. \A n \in 0 .. R : f[n] = IF n = 0 THEN << >> ELSE To(n, f[n - 1])
    <3>1. \A n \in 0 .. R : n # 0 => n \in 1 .. R BY <1>2
    <3> HIDE DEF To, R
    <3> QED BY <2>3, <2>4, <3>1
  <2>6. Eq(f)
    <3> HIDE DEF To, R
    <3> QED BY <2>3, <2>5
  <2> HIDE DEF Eq
  <2> QED BY <2>6
<1> DEFINE f == CHOOSE f : Eq(f)
<1>8. Eq(f)
  <2> HIDE DEF Eq
  <2> QED BY <1>7
<1>9. f[0] = << >> /\ \A n \in 1 .. R : f[n] = To(n, f[n - 1])
  <2> HIDE DEF f, To
  <2>1. \A n \in 0 .. R : f[n] = IF n = 0 THEN << >> ELSE To(n, f[n - 1])
    <3> HIDE DEF R
    <3> QED BY <1>8
  <2>2. 0 \in 0 .. R /\ \A n \in 1 .. R : n \in 0 .. R /\ n # 0 BY <1>2
  <2> QED BY <2>1, <2>2
<1> HIDE DEF f, To, c, ks
<1> DEFINE Good == {n \in 0 .. R : f[n] \in X}
<1>10. Good = 0 .. R
  <2>1. 0 \in Good
    <3>1. 0 \in 0 .. R BY <1>2
    <3> HIDE DEF X
    <3> QED BY <1>6, <1>9, <3>1
  <2>2. ASSUME NEW n \in 0 .. R - 1, n \in Good PROVE n + 1 \in Good
    <3>1. n + 1 \in 1 .. R /\ (n + 1) - 1 = n /\ n + 1 \in 0 .. R BY <1>2
    <3>2. f[n] \in X BY <2>2
    <3> HIDE DEF X
    <3>3. f[n + 1] = To(n + 1, f[n])
      BY <1>9, <3>1
    <3>4. f[n + 1] \in X BY <1>5, <3>1, <3>2, <3>3
    <3> QED BY <3>1, <3>4
  <2>3. Good \in SUBSET (0 .. R) OBVIOUS
  <2> HIDE DEF Good
  <2> QED BY <1>2, <2>1, <2>2, <2>3, UpToBound
<1>11. \A n \in 0 .. R : f[n] \in X
  BY <1>10
<1> HIDE DEF X
<1> DEFINE h == [n \in 0 .. R |-> Content(f[n], fs)]
<1>12. Joining(h, ks, Units)
  <2>1. h[0] = << >>
    <3>1. h[0] = Content(<< >>, fs) BY <1>2, <1>9
    <3>2. Payloads(<< >>, fs) = << >> BY DEF Payloads
    <3>3. Content(<< >>, fs) = << >> BY <3>2, FlattenEmpty DEF Content
    <3> QED BY <3>1, <3>3
  <2>2. h \in [0 .. R -> Seq(Units)]
    <3>1. \A n \in 0 .. R : Content(f[n], fs) \in Seq(Units)
      BY <1>11, ContentType DEF X
    <3> QED BY <3>1
  <2>3. ASSUME NEW n \in 1 .. R PROVE h[n] = Joins(ks, Units)[n][h[n - 1]]
    <3>1. n \in 0 .. R /\ n - 1 \in 0 .. R BY <1>2
    <3>2. h[n] = Content(f[n], fs) /\ h[n - 1] = Content(f[n - 1], fs) BY <3>1
    <3>3. h[n - 1] \in Seq(Units) BY <2>2, <3>1
    <3> HIDE DEF h
    <3>4. f[n - 1] \in X BY <1>11, <3>1
    <3>5. Content(f[n], fs) = Content(f[n - 1], fs) \o ks[n]
      BY <1>3, <1>5, <1>9, <3>4
    <3>6. Joins(ks, Units)[n][h[n - 1]] = h[n - 1] \o ks[n]
      BY <1>3, <3>3 DEF Joins
    <3> QED BY <3>2, <3>5, <3>6
  <2> HIDE DEF h
  <2> QED BY <1>3, <2>1, <2>2, <2>3 DEF Joining, Steps
<1>13. FlattenSeq(ks) = Content(f[R], fs)
  <2>1. R \in 0 .. R BY <1>2
  <2>2. h[R] = Content(f[R], fs) BY <2>1
  <2> HIDE DEF h
  <2> QED BY <1>3, <1>12, <2>2, JoiningFlattens
<1>14. /\ End(rewrites, R) \in Nat
       /\ Total(sizes) - End(rewrites, R) \in Nat
       /\ End(rewrites, R) + (Total(sizes) - End(rewrites, R)) <= Total(sizes)
  <2>1. R \in 0 .. R BY <1>2
  <2> QED BY <1>1, <2>1, RewriteBounds
<1>15. f[R] \in Seq(SoundParts(fs))
  <2>1. R \in 0 .. R BY <1>2
  <2> QED BY <1>11, <2>1 DEF X
<1>16. /\ Patched(cs, sizes, rewrites) \in Seq(SoundParts(fs))
       /\ Content(Patched(cs, sizes, rewrites), fs)
            = Content(f[R], fs) \o Bytes(c, End(rewrites, R), Total(sizes) - End(rewrites, R))
  <2>1. Patched(cs, sizes, rewrites)
          = WithRange(f[R], cs, sizes, End(rewrites, R), Total(sizes) - End(rewrites, R))
    BY <1>4 DEF f
  <2> HIDE DEF R
  <2>2. \A y \in Seq(SoundParts(fs)) :
          /\ WithRange(y, cs, sizes, End(rewrites, R), Total(sizes) - End(rewrites, R))
               \in Seq(SoundParts(fs))
          /\ Content(WithRange(y, cs, sizes, End(rewrites, R),
                               Total(sizes) - End(rewrites, R)), fs)
               = Content(y, fs) \o Bytes(c, End(rewrites, R), Total(sizes) - End(rewrites, R))
    BY <1>14, WithRangeContent DEF c
  <2> QED BY <1>15, <2>1, <2>2
<1>17. Remainder(c, rewrites) = Bytes(c, End(rewrites, R), Total(sizes) - End(rewrites, R))
  BY <1>1 DEF Remainder
<1> QED BY <1>13, <1>16, <1>17 DEF c, ks

Recorded(c, crc, fs) == [c EXCEPT !.size = PayloadSize(c, fs), !.crc = crc]

\* Recording the size, or the checksum, of a chunk leaves its content.
LEMMA RecordedContent ==
    ASSUME NEW crcs, NEW c \in Placed(crcs), NEW fs, Sound(c, fs), NEW to,
           NEW crc \in to
    PROVE  /\ Recorded(c, crc, fs) \in Placed(to) /\ Sound(Recorded(c, crc, fs), fs)
           /\ Payload(Recorded(c, crc, fs), fs) = Payload(c, fs)
           /\ Recorded(c, crc, fs).crc = crc
           /\ Recorded(c, crc, fs).size \in Nat
           /\ Recorded(c, crc, fs).kind = c.kind
<1> DEFINE d == Recorded(c, crc, fs)
<1>1. PayloadSize(c, fs) \in Nat
  BY PayloadType
<1>2. /\ d \in ChunksWith(to) /\ d.crc = crc /\ d.size \in Nat
      /\ d.kind = c.kind /\ d.data = c.data /\ d.path = c.path /\ d.ranged = c.ranged
      /\ d.offset = c.offset /\ d.length = c.length
  BY <1>1 DEF Placed, ChunksWith, Recorded
<1> HIDE DEF d
<1>3. PayloadOffset(d) = PayloadOffset(c) /\ PayloadSize(d, fs) = PayloadSize(c, fs)
  BY <1>2 DEF PayloadOffset, PayloadSize
<1>4. d \in Placed(to)
  BY <1>2 DEF Placed
<1>5. Sound(d, fs)
  BY <1>2, <1>3, Zenon DEF Sound
<1>6. Payload(d, fs) = Payload(c, fs)
  <2>1. CASE c.kind = "memory"
    BY <1>2, <2>1, Zenon DEF Payload
  <2>2. CASE c.kind # "memory"
    <3>1. Payload(d, fs) = Bytes(fs[d.path], PayloadOffset(d), PayloadSize(d, fs))
      BY <1>2, <2>2, Zenon DEF Payload
    <3>2. Payload(c, fs) = Bytes(fs[c.path], PayloadOffset(c), PayloadSize(c, fs))
      BY <2>2, Zenon DEF Payload
    <3>3. fs[d.path] = fs[c.path]
      BY <1>2, Zenon
    <3> QED BY <1>3, <3>1, <3>2, <3>3, Zenon
  <2> QED BY <2>1, <2>2
<1> QED BY <1>2, <1>4, <1>5, <1>6 DEF d

LEMMA MeasuredOnlyContent ==
    ASSUME NEW fs, NEW cs \in Seq(SoundParts(fs))
    PROVE  /\ MeasuredOnly(cs, fs) \in Seq(SoundParts(fs))
           /\ Content(MeasuredOnly(cs, fs), fs) = Content(cs, fs)
<1> DEFINE D(i) == [cs[i] EXCEPT !.size = PayloadSize(cs[i], fs)]
<1>1. ASSUME NEW i \in 1 .. Len(cs)
      PROVE  D(i) \in SoundParts(fs) /\ Payload(D(i), fs) = Payload(cs[i], fs)
  <2>1. cs[i] \in Parts /\ Sound(cs[i], fs)
    <3>1. cs[i] \in SoundParts(fs) OBVIOUS
    <3> QED BY <3>1 DEF SoundParts
  <2>2. cs[i].crc \in {Unset} \cup Seq(Units)
    BY <2>1 DEF Parts, Placed, ChunksWith
  <2>3. D(i) = [cs[i] EXCEPT !.size = PayloadSize(cs[i], fs), !.crc = cs[i].crc]
    BY <2>1 DEF Parts, Placed, ChunksWith
  <2> HIDE DEF D
  <2>4. D(i) \in Parts /\ Sound(D(i), fs) /\ Payload(D(i), fs) = Payload(cs[i], fs)
    <3> DEFINE to == {Unset} \cup Seq(Units)
    <3>1. PICK c \in Placed(to) : c = cs[i] /\ Sound(c, fs)
      BY <2>1 DEF Parts
    <3>2. PICK crc \in to : crc = cs[i].crc
      BY <2>2
    <3> HIDE DEF to
    <3>3. D(i) = Recorded(c, crc, fs)
      BY <2>3, <3>1, <3>2 DEF Recorded
    <3>4. /\ Recorded(c, crc, fs) \in Placed(to) /\ Sound(Recorded(c, crc, fs), fs)
          /\ Payload(Recorded(c, crc, fs), fs) = Payload(c, fs)
      BY <3>1, RecordedContent
    <3> QED BY <3>1, <3>3, <3>4 DEF Parts, to
  <2> QED BY <2>4 DEF SoundParts
<1>2. MeasuredOnly(cs, fs) = [i \in 1 .. Len(cs) |-> D(i)]
  BY DEF MeasuredOnly
<1> HIDE DEF D
<1>3. MeasuredOnly(cs, fs) \in Seq(SoundParts(fs))
  BY <1>1, <1>2
<1>4. Payloads(MeasuredOnly(cs, fs), fs) = Payloads(cs, fs)
  BY <1>1, <1>2 DEF Payloads
<1> QED BY <1>3, <1>4 DEF Content

(***************************************************************************)
(* Extractions                                                             *)
(***************************************************************************)
FileStore ==
    files = [package |-> files.package, staged |-> files.staged,
             output |-> files.output, temporary |-> files.temporary,
             backup |-> files.backup]

FeedStore ==
    feed = [entry |-> feed.entry, stream |-> feed.stream, taken |-> feed.taken]

\* What the last extraction left, whatever is going on.
LeftWhole ==
    result.call = "extract" =>
        /\ IF result.ok THEN files.output = result.data
           ELSE \/ files.output = kept
                \/ files.output = Gone /\ files.backup = kept
        /\ "remove" \notin Faults => files.temporary = Gone

\* An extraction under way has written what it has taken to its temporary
\* file, and has not touched the output.
ExtractionInv ==
    /\ FileStore
    /\ FeedStore
    /\ task = "extract" =>
          /\ result = NoResult
          /\ files.output = kept
          /\ files.temporary = feed.taken
    /\ LeftWhole

LEMMA ExtractionInit == Init => ExtractionInv
<1> SUFFICES ASSUME Init PROVE ExtractionInv
  OBVIOUS
<1>1. FileStore /\ FeedStore
  BY DEF Init, FileStore, FeedStore, NoFeed
<1>2. task # "extract" /\ result.call # "extract"
  BY DEF Init, NoResult
<1> QED BY <1>1, <1>2 DEF ExtractionInv, LeftWhole

\* A call that ends takes the temporary file away, unless it cannot.
LEMMA TemporaryGoes ==
    ASSUME FileStore, NEW out, NEW back,
           WithoutTemporary([files EXCEPT !.output = out, !.backup = back])
    PROVE  /\ FileStore' /\ files'.output = out /\ files'.backup = back
           /\ "remove" \notin Faults => files'.temporary = Gone
<1>1. CASE files' = [files EXCEPT !.output = out, !.backup = back]
                   /\ "remove" \in Faults
  BY <1>1 DEF FileStore
<1>2. CASE files' = [[files EXCEPT !.output = out, !.backup = back] EXCEPT !.temporary = Gone]
  BY <1>2 DEF FileStore
<1> QED BY <1>1, <1>2 DEF WithoutTemporary

LEMMA ExtractionStep == ExtractionInv /\ [Next]_vars => ExtractionInv'
<1> SUFFICES ASSUME ExtractionInv, [Next]_vars PROVE ExtractionInv'
  OBVIOUS
<1>0. FileStore /\ FeedStore /\ LeftWhole
  BY DEF ExtractionInv
<1>1. ASSUME NEW call \in Tasks \ {"extract"}, Begins(call),
             FileStore', FeedStore'
      PROVE  ExtractionInv'
  BY <1>1 DEF Begins, ExtractionInv, LeftWhole, NoResult
<1>2. ASSUME UNCHANGED <<files, feed>> PROVE FileStore' /\ FeedStore'
  BY <1>0, <1>2 DEF FileStore, FeedStore
<1>3. ASSUME UNCHANGED <<files, reading>> PROVE ExtractionInv'
  BY <1>3 DEF reading, ExtractionInv, FileStore, FeedStore, LeftWhole
<1>4. ASSUME UNCHANGED <<files, feed, result, kept>>, task' # "extract"
      PROVE  ExtractionInv'
  BY <1>0, <1>4 DEF ExtractionInv, FileStore, FeedStore, LeftWhole
<1>5. CASE Open
  BY <1>3, <1>5 DEF Open
<1>6. ASSUME NEW e \in reader.entries, ReadEntry(e) PROVE ExtractionInv'
  <2>1. Begins("read") /\ UNCHANGED files /\ feed' = [NoFeed EXCEPT !.entry = e]
    BY <1>6 DEF ReadEntry
  <2>2. FileStore' /\ FeedStore'
    BY <1>0, <2>1 DEF FileStore, FeedStore, NoFeed
  <2> QED BY <1>1, <2>1, <2>2 DEF Tasks
<1>7. ASSUME NEW e \in reader.entries, ExtractEntry(e) PROVE ExtractionInv'
  <2>1. /\ task' = "extract" /\ result' = NoResult /\ kept' = files.output
        /\ feed' = [NoFeed EXCEPT !.entry = e]
        /\ files' = [files EXCEPT !.temporary = << >>]
    BY <1>7 DEF ExtractEntry, Begins
  <2>2. FeedStore' /\ feed'.taken = << >>
    BY <2>1 DEF FeedStore, NoFeed
  <2>3. FileStore' /\ files'.output = files.output /\ files'.temporary = << >>
    BY <1>0, <2>1 DEF FileStore
  <2> QED BY <2>1, <2>2, <2>3 DEF ExtractionInv, LeftWhole, NoResult
<1>8. ASSUME NEW sequence, Stage(sequence) PROVE ExtractionInv'
  BY <1>1, <1>2, <1>8 DEF Stage, Tasks
<1>9. ASSUME NEW e \in reader.entries, StageEntry(e) PROVE ExtractionInv'
  BY <1>8, <1>9 DEF StageEntry
<1>10. CASE OpenStream
  <2>1. PICK data : feed' = [feed EXCEPT !.stream = data]
    BY <1>10 DEF OpenStream
  <2>2. FeedStore' /\ feed'.taken = feed.taken
    BY <1>0, <2>1 DEF FeedStore
  <2> QED BY <1>0, <1>10, <2>2 DEF OpenStream, ExtractionInv, FileStore, LeftWhole
<1>11. CASE Take
  <2>1. PICK data :
          /\ feed' = [feed EXCEPT !.taken = @ \o data]
          /\ files' = IF task = "extract"
                      THEN [files EXCEPT !.temporary = @ \o data] ELSE files
    BY <1>11 DEF Take
  <2>2. UNCHANGED <<task, result, kept>>
    BY <1>11 DEF Take
  <2>3. FeedStore' /\ feed'.taken = feed.taken \o data
    BY <1>0, <2>1 DEF FeedStore
  <2>4. CASE task = "extract"
    <3>1. FileStore' /\ files'.temporary = files.temporary \o data
          /\ files'.output = files.output
      BY <1>0, <2>1, <2>4 DEF FileStore
    <3>2. result = NoResult /\ files.output = kept /\ files.temporary = feed.taken
      BY <2>4 DEF ExtractionInv
    <3>3. LeftWhole'
      BY <2>2, <3>2 DEF LeftWhole, NoResult
    <3> QED BY <2>2, <2>3, <3>1, <3>2, <3>3 DEF ExtractionInv
  <2>5. CASE task # "extract"
    BY <1>0, <2>1, <2>2, <2>3, <2>5 DEF ExtractionInv, FileStore, LeftWhole
  <2> QED BY <2>4, <2>5
<1>12. ASSUME NEW ok, Ends(ok) PROVE FeedStore' /\ task' # "extract" /\ result'.call = task
                                     /\ result'.ok = ok /\ (ok => result'.data = feed.taken)
  BY <1>12 DEF Ends, FeedStore, NoFeed
<1>13. CASE FinishRead
  BY <1>0, <1>12, <1>13 DEF FinishRead, ExtractionInv, FileStore, LeftWhole
<1>14. CASE FailEntry
  <2>1. FeedStore' /\ task' # "extract" /\ result'.call = task /\ ~result'.ok
        /\ kept' = kept
    BY <1>12, <1>14 DEF FailEntry
  <2>2. CASE task = "extract"
    <3>1. WithoutTemporary(files) BY <1>14, <2>2 DEF FailEntry
    <3>2. files = [files EXCEPT !.output = files.output, !.backup = files.backup]
      BY <1>0 DEF FileStore
    <3>3. WithoutTemporary([files EXCEPT !.output = files.output, !.backup = files.backup])
      BY <3>1, <3>2
    <3>4. FileStore' /\ files'.output = files.output
          /\ ("remove" \notin Faults => files'.temporary = Gone)
      BY <1>0, <3>3, TemporaryGoes
    <3> QED BY <2>1, <2>2, <3>4 DEF ExtractionInv, LeftWhole
  <2>3. CASE task # "extract"
    <3>1. UNCHANGED files BY <1>14, <2>3 DEF FailEntry
    <3> QED BY <1>0, <2>1, <2>3, <3>1 DEF ExtractionInv, LeftWhole, FileStore
  <2> QED BY <2>2, <2>3
<1>15. CASE Commit
  <2>1. FeedStore' /\ task' # "extract" /\ task = "extract" /\ result'.ok
        /\ result'.data = feed.taken
    BY <1>12, <1>15 DEF Commit
  <2>2. PICK dropped \in BOOLEAN :
          files' = [files EXCEPT !.output = files.temporary, !.temporary = Gone,
                      !.backup = IF dropped THEN @ ELSE files.output]
    BY <1>15 DEF Commit
  <2>3. FileStore' /\ files'.output = files.temporary /\ files'.temporary = Gone
    BY <1>0, <2>2 DEF FileStore
  <2>4. files.temporary = feed.taken
    BY <2>1 DEF ExtractionInv
  <2> QED BY <2>1, <2>3, <2>4 DEF ExtractionInv, LeftWhole
<1>16. CASE CommitFails
  <2>1. FeedStore' /\ task' # "extract" /\ task = "extract" /\ ~result'.ok
        /\ kept' = kept /\ files.output = kept
    BY <1>12, <1>16 DEF CommitFails, ExtractionInv
  <2>2. CASE WithoutTemporary(files)
    <3>1. files = [files EXCEPT !.output = files.output, !.backup = files.backup]
      BY <1>0 DEF FileStore
    <3>2. WithoutTemporary([files EXCEPT !.output = files.output, !.backup = files.backup])
      BY <2>2, <3>1
    <3>3. FileStore' /\ files'.output = files.output
          /\ ("remove" \notin Faults => files'.temporary = Gone)
      BY <1>0, <3>2, TemporaryGoes
    <3> QED BY <2>1, <3>3 DEF ExtractionInv, LeftWhole
  <2>3. CASE WithoutTemporary([files EXCEPT !.output = Gone, !.backup = files.output])
    <3>1. FileStore' /\ files'.output = Gone /\ files'.backup = files.output
          /\ ("remove" \notin Faults => files'.temporary = Gone)
      BY <1>0, <2>3, TemporaryGoes
    <3> QED BY <2>1, <3>1 DEF ExtractionInv, LeftWhole
  <2> QED BY <1>16, <2>2, <2>3 DEF CommitFails
<1>17. ASSUME NEW rewrites \in scene.patches, Patch(rewrites) PROVE ExtractionInv'
  BY <1>1, <1>2, <1>17 DEF Patch, Tasks
<1>18. CASE OpenReplay
  BY <1>1, <1>2, <1>18 DEF OpenReplay, Tasks
<1>19. CASE ReplayMemory \/ ReplayFile \/ ReplayChunkEnd
  BY <1>3, <1>19 DEF ReplayMemory, ReplayFile, ReplayChunkEnd
<1>20. CASE ReplayEnd \/ ReplayFails
  BY <1>4, <1>20 DEF ReplayEnd, ReplayFails
<1>21. CASE Change
  <2>1. FileStore' /\ files'.output = files.output /\ files'.temporary = files.temporary
        /\ files'.backup = files.backup
    BY <1>0, <1>21 DEF Change, FileStore
  <2> QED BY <1>0, <1>21, <2>1 DEF Change, reading, ExtractionInv, FeedStore, LeftWhole
<1>22. CASE UNCHANGED vars
  BY <1>3, <1>22 DEF vars, reading
<1> QED
  BY <1>5, <1>6, <1>7, <1>8, <1>9, <1>10, <1>11, <1>13, <1>14, <1>15, <1>16, <1>17,
     <1>18, <1>19, <1>20, <1>21, <1>22 DEF Next

(***************************************************************************)
(* The invariant                                                           *)
(***************************************************************************)
SceneInv ==
    /\ scene \in Scenes
    /\ files.package \in scene.packages \cup {scene.first}
    /\ files.staged \in scene.staged
    /\ Store(files)

\* Entries are only known while the package is open.
ReaderInv ==
    /\ reader.status \in {"closed", "open", "refused"}
    /\ reader.status = "closed" => reader.entries = {}
    /\ Unset \notin reader.entries
    /\ \A e \in reader.entries : e.at \in Nat /\ e.usize \in Nat

TaskInv ==
    /\ task \in Tasks
    /\ task \in {"read", "extract"} <=> feed.entry # Unset
    /\ feed.entry # Unset => feed.entry \in reader.entries
    /\ task = "replay" <=> replay.status = "open"
    /\ calls \in 0 .. scene.calls
    /\ changes \in 0 .. MaxChanges

\* What was promised of a chunk is the checksum recorded with it.
StagedInv ==
    /\ chunks \in Seq(Parts)
    /\ promised \in Seq({Unset} \cup Seq(Units))
    /\ Len(promised) = Len(chunks)
    /\ \A i \in DOMAIN chunks : promised[i] # Unset => chunks[i].crc = promised[i]

Replays ==
    [at : Nat, taken : Seq(Units), sizes : Seq(Nat), crcs : Seq(Seq(Units)),
     read : Seq(Units), status : {"closed", "open", "done", "failed"}]

\* A replay has read the chunks before replay.at as their checksums say, and
\* what it has taken of the next one.
ReplayInv ==
    /\ replay \in Replays
    /\ replay.status \in {"open", "done"} =>
          /\ Len(replay.sizes) = Len(chunks)
          /\ Len(replay.crcs) = Len(chunks)
          /\ \A i \in DOMAIN chunks :
                chunks[i].crc # Unset => replay.crcs[i] = chunks[i].crc
          /\ replay.at \in 1 .. Len(chunks) + 1
          /\ replay.read = FlattenSeq(SubSeq(replay.crcs, 1, replay.at - 1)) \o replay.taken
          /\ replay.at = Len(chunks) + 1 => replay.taken = << >>
          /\ replay.at <= Len(chunks) /\ chunks[replay.at].kind = "memory" =>
                replay.taken = << >>
    /\ replay.status = "done" => replay.at = Len(chunks) + 1

InputInv == SceneInv /\ ReaderInv /\ TaskInv /\ StagedInv /\ ReplayInv

(***************************************************************************)
(* Entries                                                                 *)
(***************************************************************************)
LEMMA EocdIsThere ==
    ASSUME NEW file \in Seq(Units), EocdOffsets(file) # {}
    PROVE  /\ EocdOffset(file) \in EocdOffsets(file)
           /\ EocdOffset(file) \in 0 .. Len(file) - 1
           /\ file[EocdOffset(file) + 1] \in Units
           /\ file[EocdOffset(file) + 1].is = "eocd"
<1> DEFINE O == EocdOffsets(file)
<1> DEFINE D == 0 .. Len(file) - 1
<1>0. Len(file) \in Nat
  OBVIOUS
<1>1. O \subseteq D
  <2>1. ASSUME NEW o \in O PROVE o \in D
    <3>2. o \in Larger(0, Len(file) - 1 - MaxComment) .. Len(file) - 1
      BY DEF EocdOffsets
    <3> QED BY <1>0, <3>2, FieldsAssumption DEF Larger
  <2> QED BY <2>1
<1>2. IsFiniteSet(D) /\ D \in SUBSET Int
  <2>1. IsFiniteSet(D) BY <1>0, FS_Interval
  <2>2. \A k \in D : k \in Int OBVIOUS
  <2> QED BY <2>1, <2>2
<1>3. Max(O) \in O /\ \A y \in O : Max(O) >= y
  <2> HIDE DEF O, D
  <2> QED BY <1>1, <1>2, MaxProperty DEF O
<1>4. \E o \in O : \A p \in O : p <= o
  <2>1. \A y \in O : y \in Int BY <1>1
  <2> HIDE DEF O
  <2>2. \A y \in O : y <= Max(O) BY <1>3, <2>1
  <2> QED BY <1>3, <2>2
<1>5. EocdOffset(file) \in O
  BY <1>4 DEF EocdOffset
<1>6. EocdOffset(file) \in D
  BY <1>1, <1>5
<1>7. file[EocdOffset(file) + 1].is = "eocd"
  BY <1>5 DEF EocdOffsets
<1> QED BY <1>0, <1>5, <1>6, <1>7

\* An entry that a directory lists has its data inside the file.
LEMMA EntriesTyped ==
    ASSUME NEW file \in Seq(Units), ~ PackageRefused(file), NEW e \in EntriesOf(file)
    PROVE  e.at \in Nat /\ e.usize \in Nat
<1> DEFINE o == EocdOffset(file)
<1> DEFINE end == file[o + 1]
<1> DEFINE rs == Records(file)
<1>0. Len(file) \in Nat /\ EocdOffsets(file) # {}
  BY DEF PackageRefused
<1>1. o \in 0 .. Len(file) - 1 /\ end \in Units /\ end.is = "eocd"
  BY <1>0, EocdIsThere
<1>2. end.at \in Nat /\ end.size \in Nat
  BY <1>1, RecordsAssumption
<1>3. end.at + end.size = o
  BY DEF PackageRefused, EocdRefused
<1>4. rs \in Seq(Units)
  <2>1. end.at + end.size <= Len(file) BY <1>0, <1>1, <1>3
  <2>2. rs = SubSeq(file, end.at + 1, end.at + end.size) BY DEF Records
  <2>3. rs = Bytes(file, end.at, end.size) BY <2>2 DEF Bytes
  <2> HIDE DEF rs, end
  <2> QED BY <1>2, <2>1, <2>3, BytesType
<1>5. ~ RecordsRefused(file, rs)
  BY DEF PackageRefused
<1> HIDE DEF rs, o, end
<1>6. PICK i \in DOMAIN rs :
         /\ rs[i].name \notin DirectoryNames
         /\ e.usize = rs[i].usize
         /\ e.at = rs[i].at + 1 + file[rs[i].at + 1].extra
  BY DEF EntriesOf, Range, rs
<1>7. rs[i] \in Units
  BY <1>4, <1>6
<1>8. rs[i].is = "central" /\ ~ LocalRefused(file, rs[i])
  BY <1>5, <1>6 DEF RecordsRefused, EntryRefused
<1>9. rs[i].at \in Nat /\ rs[i].usize \in Nat
  BY <1>7, <1>8, RecordsAssumption
<1>10. /\ rs[i].at < Len(file)
       /\ file[rs[i].at + 1].is = "local"
  BY <1>0, <1>8, <1>9 DEF LocalRefused
<1>11. file[rs[i].at + 1].extra \in Nat
  <2>1. rs[i].at + 1 \in 1 .. Len(file) BY <1>0, <1>9, <1>10
  <2>2. file[rs[i].at + 1] \in Units BY <2>1
  <2> QED BY <1>10, <2>2, RecordsAssumption
<1> QED BY <1>6, <1>9, <1>11

\* The files of a scene are files.
LEMMA SceneFiles ==
    ASSUME NEW s \in Scenes,
           NEW file \in s.packages \cup {s.first} \cup s.staged, file # Gone
    PROVE  file \in Seq(Units) /\ (~ PackageRefused(file) => Unset \notin EntriesOf(file))
<1>1. file \in Files(s)
  BY DEF Files
<1>2. file \in Seq(Units)
  BY <1>1, ScenesAssumption
<1>3. ~ PackageRefused(file) => Unset \notin EntriesOf(file)
  BY <1>1, RecordsAssumption
<1> QED BY <1>2, <1>3

(***************************************************************************)
(* Staging                                                                 *)
(***************************************************************************)
LEMMA GivenChunks ==
    ASSUME NEW s \in Scenes, NEW sequence \in s.inputs
    PROVE  sequence \in Seq(Parts)
<1>1. PICK q \in Seq(Chunks) : q = sequence
  BY ScenesAssumption
<1>2. \A i \in DOMAIN q : q[i].kind = "file" => q[i].path # ""
  BY <1>1, ScenesAssumption
<1>3. ASSUME NEW i \in 1 .. Len(q) PROVE q[i] \in Parts
  <2>1. q[i] \in Chunks /\ i \in DOMAIN q OBVIOUS
  <2>2. q[i] \in ChunksWith({Unset} \cup Seq(Units)) BY <2>1 DEF Chunks, ChunksWith
  <2> QED BY <1>2, <2>1, <2>2 DEF Parts, Placed
<1>4. Len(q) \in Nat /\ q = [i \in 1 .. Len(q) |-> q[i]]
  OBVIOUS
<1>5. q \in Seq(Parts)
  BY <1>3, <1>4
<1> QED BY <1>1, <1>5

\* What is staged is measured and has its checksum.
LEMMA StageSound ==
    ASSUME SceneInv, NEW crcs, NEW sequence \in Seq(Placed(crcs)), Stage(sequence)
    PROVE  StagedInv'
<1> DEFINE N == Len(sequence)
<1>0. N \in Nat /\ DOMAIN sequence = 1 .. N
  OBVIOUS
<1>1. ASSUME NEW i \in 1 .. N
      PROVE  /\ Payload(sequence[i], files) \in Seq(Units)
             /\ Recorded(sequence[i], Payload(sequence[i], files), files) \in Parts
             /\ Recorded(sequence[i], Payload(sequence[i], files), files).crc
                  = Payload(sequence[i], files)
  <2>1. PICK c \in Placed(crcs) : c = sequence[i]
    OBVIOUS
  <2>2. SizeHolds(c, files) BY <1>0, <2>1 DEF Stage
  <2>3. Sound(c, files) BY <2>2, MeasuredSound DEF SceneInv
  <2>4. Payload(c, files) \in Seq(Units) BY <2>3, PayloadType
  <2>5. PICK p \in {Unset} \cup Seq(Units) : p = Payload(c, files) BY <2>4
  <2> DEFINE to == {Unset} \cup Seq(Units)
  <2>6. p \in to OBVIOUS
  <2> HIDE DEF to
  <2>7. Recorded(c, p, files) \in Placed(to) /\ Recorded(c, p, files).crc = p
    BY <2>3, <2>6, RecordedContent
  <2>8. Recorded(c, p, files) \in Parts BY <2>7 DEF Parts, to
  <2> QED BY <2>1, <2>4, <2>5, <2>7, <2>8
<1>2. chunks' = [i \in 1 .. N |-> Recorded(sequence[i], Payload(sequence[i], files), files)]
  BY <1>0 DEF Stage, Validated, Recorded
<1>3. promised' = [i \in 1 .. N |-> Payload(sequence[i], files)]
  BY <1>0 DEF Stage
<1> HIDE DEF N
<1>4. chunks' \in Seq(Parts) /\ DOMAIN chunks' = 1 .. N /\ Len(chunks') = N
  BY <1>0, <1>1, <1>2
<1>5. promised' \in Seq({Unset} \cup Seq(Units)) /\ Len(promised') = N
  BY <1>0, <1>1, <1>3
<1>6. \A i \in 1 .. N : chunks'[i].crc = promised'[i]
  BY <1>1, <1>2, <1>3
<1> QED BY <1>4, <1>5, <1>6 DEF StagedInv

\* The entry a reader has found can be staged.
LEMMA EntryChunk ==
    ASSUME NEW e, e.at \in Nat, e.usize \in Nat
    PROVE  <<[FileRange("package", e.at, e.usize) EXCEPT !.crc = e.crc]>>
             \in Seq(Placed({e.crc}))
<1> DEFINE r == Chunk("file", << >>, "package", TRUE, e.at, e.usize)
<1> DEFINE m == FileRange("package", e.at, e.usize)
<1>1. r \in ChunksWith({Unset}) /\ r.path = "package"
  <2>1. << >> \in Seq(Units) OBVIOUS
  <2> QED BY <2>1 DEF Chunk, ChunksWith
<1>2. m = [r EXCEPT !.size = e.usize]
  BY DEF FileRange
<1> HIDE DEF r, m
<1>3. m \in ChunksWith({Unset}) /\ m.path = "package"
  BY <1>1, <1>2 DEF ChunksWith
<1> DEFINE c == [m EXCEPT !.crc = e.crc]
<1>4. c \in ChunksWith({e.crc}) /\ c.path = "package"
  BY <1>3 DEF ChunksWith
<1> HIDE DEF c
<1>5. c \in Placed({e.crc})
  BY <1>4 DEF Placed
<1> QED BY <1>5 DEF c, m

\* What the scan of the staged part has found, while the files stay.
LEMMA ScannedMeasured ==
    ASSUME SceneInv, StagedInv, Scanned
    PROVE  Measured(chunks, Sizes(chunks, files), files)
<1>1. PICK cs \in Seq(Parts) : cs = chunks
  BY DEF StagedInv
<1>2. ASSUME NEW i \in 1 .. Len(cs) PROVE cs[i] \in SoundParts(files)
  <2>1. cs[i] \in Parts /\ i \in DOMAIN cs OBVIOUS
  <2>2. SizeHolds(cs[i], files) BY <1>1, <2>1 DEF Scanned
  <2>3. Sound(cs[i], files) BY <2>1, <2>2, MeasuredSound DEF SceneInv, Parts
  <2> QED BY <2>1, <2>3 DEF SoundParts
<1>3. Len(cs) \in Nat /\ cs = [i \in 1 .. Len(cs) |-> cs[i]]
  OBVIOUS
<1>4. cs \in Seq(SoundParts(files))
  BY <1>2, <1>3
<1> QED BY <1>1, <1>4 DEF Measured

\* A patch that is not refused has its rewrites in order.
LEMMA AcceptedOrdered ==
    ASSUME NEW s \in Scenes, NEW rewrites \in s.patches, NEW sizes,
           Total(sizes) \in Nat, ~ PatchRefused(sizes, rewrites)
    PROVE  Ordered(rewrites, Total(sizes))
<1>1. PICK q \in Seq(Rewrites) : q = rewrites
  BY ScenesAssumption
<1>2. ASSUME NEW n \in 1 .. Len(q)
      PROVE  End(q, n - 1) <= q[n].from /\ q[n].from <= q[n].to /\ q[n].to <= Total(sizes)
  <2>1. n \in DOMAIN q OBVIOUS
  <2>2. /\ ~ (q[n].to < q[n].from) /\ ~ (q[n].from < End(q, n - 1))
        /\ ~ (q[n].to > Total(sizes))
    BY <1>1, <2>1 DEF PatchRefused
  <2>3. q[n].from \in Nat /\ q[n].to \in Nat
    BY RewriteFields
  <2>4. End(q, n - 1) \in Nat
    <3>1. CASE n - 1 = 0 BY <3>1 DEF End
    <3>2. CASE n - 1 # 0
      <4>1. n - 1 \in 1 .. Len(q) BY <3>2
      <4>2. q[n - 1].to \in Nat BY <4>1, RewriteFields
      <4> QED BY <3>2, <4>2 DEF End
    <3> QED BY <3>1, <3>2
  <2> QED BY <2>2, <2>3, <2>4
<1> QED BY <1>1, <1>2 DEF Ordered

LEMMA PatchSplices ==
    ASSUME SceneInv, StagedInv, NEW rewrites \in scene.patches, Patch(rewrites)
    PROVE  /\ StagedInv'
           /\ Contents(chunks') = Spliced(Contents(chunks), rewrites)
           /\ PatchEmitted(chunks, Sizes(chunks, files), rewrites, files)
                = Spliced(Contents(chunks), rewrites)
<1> DEFINE sizes == Sizes(chunks, files)
<1> DEFINE c == Content(chunks, files)
<1> DEFINE patched == Patched(chunks, sizes, rewrites)
<1>1. Measured(chunks, sizes, files)
  BY ScannedMeasured DEF Patch
<1>2. c \in Seq(Units) /\ Len(c) = Total(sizes) /\ Total(sizes) \in Nat
  <2> HIDE DEF sizes
  <2> QED BY <1>1, ContentLength
<1>3. Ordered(rewrites, Total(sizes))
  <2>1. ~ PatchRefused(sizes, rewrites) BY DEF Patch
  <2> HIDE DEF sizes
  <2> QED BY <1>2, <2>1, AcceptedOrdered DEF SceneInv
<1>4. Spliced(c, rewrites) = FlattenSeq(Pieces(c, rewrites)) \o Remainder(c, rewrites)
  <2>1. Ordered(rewrites, Len(c)) BY <1>2, <1>3
  <2> HIDE DEF c
  <2> QED BY <1>2, <2>1, SplicedIs
<1>5. PatchEmitted(chunks, sizes, rewrites, files) = Spliced(c, rewrites)
  <2> HIDE DEF sizes
  <2>1. PatchEmitted(chunks, sizes, rewrites, files)
          = FlattenSeq(Pieces(c, rewrites)) \o Remainder(c, rewrites)
    BY <1>1, <1>3, PatchEmittedIs
  <2> QED BY <1>4, <2>1
<1>6. /\ patched \in Seq(SoundParts(files))
      /\ Content(patched, files) = Spliced(c, rewrites)
  <2> HIDE DEF sizes
  <2>1. /\ patched \in Seq(SoundParts(files))
        /\ Content(patched, files) = FlattenSeq(Pieces(c, rewrites)) \o Remainder(c, rewrites)
    BY <1>1, <1>3, PatchedIs
  <2> QED BY <1>4, <2>1
<1>7. /\ chunks' = MeasuredOnly(patched, files)
      /\ promised' = [i \in DOMAIN patched |-> patched[i].crc]
  BY DEF Patch
<1> HIDE DEF patched
<1>8. /\ chunks' \in Seq(SoundParts(files))
      /\ Content(chunks', files) = Spliced(c, rewrites)
  BY <1>6, <1>7, MeasuredOnlyContent
<1>9. \A q : Contents(q) = Content(q, files)
  BY DEF Contents, Content, Payloads
<1>10. StagedInv'
  <2>1. DOMAIN patched = 1 .. Len(patched) /\ Len(patched) \in Nat
    BY <1>6
  <2>2. ASSUME NEW i \in 1 .. Len(patched)
        PROVE  patched[i] \in Parts /\ patched[i].crc \in {Unset} \cup Seq(Units)
    <3>1. patched[i] \in SoundParts(files) BY <1>6
    <3> QED BY <3>1 DEF SoundParts, Parts, Placed, ChunksWith
  <2>3. promised' = [i \in 1 .. Len(patched) |-> patched[i].crc]
    BY <1>7, <2>1
  <2>4. promised' \in Seq({Unset} \cup Seq(Units)) /\ Len(promised') = Len(patched)
    BY <2>1, <2>2, <2>3
  <2>5. chunks' = [i \in 1 .. Len(patched) |->
                     [patched[i] EXCEPT !.size = PayloadSize(patched[i], files)]]
    BY <1>7, <2>1 DEF MeasuredOnly
  <2>6. Len(chunks') = Len(patched) /\ DOMAIN chunks' = 1 .. Len(patched)
    BY <2>1, <2>5
  <2>7. \A i \in 1 .. Len(patched) : chunks'[i].crc = promised'[i]
    <3> SUFFICES ASSUME NEW i \in 1 .. Len(patched) PROVE chunks'[i].crc = promised'[i]
      OBVIOUS
    <3>1. PICK p \in Parts : p = patched[i] BY <2>2
    <3>2. [p EXCEPT !.size = PayloadSize(p, files)].crc = p.crc
      BY <3>1 DEF Parts, Placed, ChunksWith
    <3> QED BY <2>3, <2>5, <3>1, <3>2
  <2>8. chunks' \in Seq(Parts)
    <3>1. SoundParts(files) \subseteq Parts BY DEF SoundParts
    <3> QED BY <1>8, <3>1
  <2> QED BY <2>4, <2>6, <2>7, <2>8 DEF StagedInv
<1> QED BY <1>5, <1>8, <1>9, <1>10 DEF sizes, c

(***************************************************************************)
(* Replays                                                                 *)
(***************************************************************************)
LEMMA NoReplayInv ==
    ASSUME replay' = NoReplay
    PROVE  ReplayInv' /\ replay'.status = "closed"
<1>1. << >> \in Seq(Units) /\ << >> \in Seq(Nat) /\ << >> \in Seq(Seq(Units))
  OBVIOUS
<1> QED BY <1>1 DEF ReplayInv, Replays, NoReplay

\* A replay begins with a size and a checksum for every chunk.
LEMMA OpenReplayInv ==
    ASSUME SceneInv, StagedInv, OpenReplay
    PROVE  ReplayInv' /\ replay'.status = "open"
<1>1. PICK cs \in Seq(Parts) : cs = chunks
  BY DEF StagedInv
<1> DEFINE N == Len(cs)
<1> DEFINE SizeOf(i) == IF cs[i].size = Unset THEN PayloadSize(cs[i], files) ELSE cs[i].size
<1> DEFINE CrcOf(i) == IF cs[i].crc = Unset THEN Payload(cs[i], files) ELSE cs[i].crc
<1>2. N \in Nat /\ DOMAIN cs = 1 .. N
  OBVIOUS
<1>3. ASSUME NEW i \in 1 .. N
      PROVE  SizeOf(i) \in Nat /\ CrcOf(i) \in Seq(Units)
  <2>1. cs[i] \in Parts OBVIOUS
  <2>2. cs[i].size \in {Unset} \cup Nat /\ cs[i].crc \in {Unset} \cup Seq(Units)
    BY <2>1 DEF Parts, Placed, ChunksWith
  <2>3. CASE Unset \in {cs[i].size, cs[i].crc}
    <3>1. SizeHolds(cs[i], files) BY <1>1, <1>2, <2>3 DEF OpenReplay
    <3>2. Sound(cs[i], files) BY <2>1, <3>1, MeasuredSound DEF SceneInv, Parts
    <3>3. PayloadSize(cs[i], files) \in Nat /\ Payload(cs[i], files) \in Seq(Units)
      BY <2>1, <3>2, PayloadType DEF Parts
    <3> QED BY <2>2, <3>3
  <2>4. CASE Unset \notin {cs[i].size, cs[i].crc}
    BY <2>2, <2>4
  <2> QED BY <2>3, <2>4
<1>4. replay' = [NoReplay EXCEPT
                   !.status = "open",
                   !.sizes = [i \in DOMAIN chunks |->
                       IF chunks[i].size = Unset THEN PayloadSize(chunks[i], files)
                       ELSE chunks[i].size],
                   !.crcs = [i \in DOMAIN chunks |->
                       IF chunks[i].crc = Unset THEN Payload(chunks[i], files)
                       ELSE chunks[i].crc]]
  BY DEF OpenReplay
<1>5. /\ replay'.status = "open" /\ replay'.at = 1 /\ replay'.taken = << >>
      /\ replay'.read = << >>
      /\ replay'.sizes = [i \in 1 .. N |-> SizeOf(i)]
      /\ replay'.crcs = [i \in 1 .. N |-> CrcOf(i)]
      /\ replay' = [at |-> 1, taken |-> << >>, sizes |-> replay'.sizes,
                    crcs |-> replay'.crcs, read |-> << >>, status |-> "open"]
  BY <1>1, <1>2, <1>4 DEF NoReplay
<1> HIDE DEF SizeOf, CrcOf
<1>6. /\ replay'.sizes \in Seq(Nat) /\ Len(replay'.sizes) = N
      /\ replay'.crcs \in Seq(Seq(Units)) /\ Len(replay'.crcs) = N
      /\ \A i \in 1 .. N : replay'.crcs[i] = CrcOf(i)
  BY <1>2, <1>3, <1>5
<1>7. replay' \in Replays
  <2>1. << >> \in Seq(Units) OBVIOUS
  <2>2. PICK sizes \in Seq(Nat), crcs \in Seq(Seq(Units)) :
           sizes = replay'.sizes /\ crcs = replay'.crcs
    BY <1>6
  <2>3. [at |-> 1, taken |-> << >>, sizes |-> sizes, crcs |-> crcs, read |-> << >>,
         status |-> "open"] \in Replays
    BY <2>1 DEF Replays
  <2> QED BY <1>5, <2>2, <2>3, Zenon
<1>8. \A i \in 1 .. N : cs[i].crc # Unset => replay'.crcs[i] = cs[i].crc
  BY <1>6 DEF CrcOf
<1>9. replay'.read = FlattenSeq(SubSeq(replay'.crcs, 1, replay'.at - 1)) \o replay'.taken
  <2>1. SubSeq(replay'.crcs, 1, 1 - 1) = << >> BY <1>6
  <2>2. << >> \o << >> = << >> OBVIOUS
  <2> QED BY <1>5, <2>1, <2>2, FlattenEmpty
<1>10. chunks' = cs
  BY <1>1 DEF OpenReplay
<1> QED BY <1>2, <1>5, <1>6, <1>7, <1>8, <1>9, <1>10 DEF ReplayInv

\* What a replay has read so far, when it is at a chunk.
LEMMA ReplayAt ==
    ASSUME StagedInv, ReplayInv, replay.status = "open", replay.at <= Len(chunks)
    PROVE  /\ replay.at \in 1 .. Len(chunks)
           /\ replay.taken \in Seq(Units) /\ replay.read \in Seq(Units)
           /\ replay.sizes[replay.at] \in Nat
           /\ replay.crcs[replay.at] \in Seq(Units)
           /\ FlattenSeq(SubSeq(replay.crcs, 1, replay.at - 1)) \in Seq(Units)
           /\ replay.read = FlattenSeq(SubSeq(replay.crcs, 1, replay.at - 1)) \o replay.taken
           /\ FlattenSeq(SubSeq(replay.crcs, 1, (replay.at + 1) - 1))
                = FlattenSeq(SubSeq(replay.crcs, 1, replay.at - 1)) \o replay.crcs[replay.at]
           /\ chunks[replay.at] \in Parts
<1>1. PICK at \in Nat, taken \in Seq(Units), sizes \in Seq(Nat), crcs \in Seq(Seq(Units)),
           read \in Seq(Units) :
         /\ at = replay.at /\ taken = replay.taken /\ sizes = replay.sizes
         /\ crcs = replay.crcs /\ read = replay.read
  BY DEF ReplayInv, Replays
<1>2. PICK cs \in Seq(Parts) : cs = chunks
  BY DEF StagedInv
<1>3. Len(sizes) = Len(cs) /\ Len(crcs) = Len(cs) /\ at \in 1 .. Len(cs)
      /\ read = FlattenSeq(SubSeq(crcs, 1, at - 1)) \o taken
  <2>1. /\ Len(replay.sizes) = Len(chunks) /\ Len(replay.crcs) = Len(chunks)
        /\ replay.at \in 1 .. Len(chunks) + 1
        /\ replay.read = FlattenSeq(SubSeq(replay.crcs, 1, replay.at - 1)) \o replay.taken
    BY DEF ReplayInv
  <2>2. Len(cs) \in Nat OBVIOUS
  <2>3. at \in 1 .. Len(cs) BY <1>1, <1>2, <2>1, <2>2
  <2> QED BY <1>1, <1>2, <2>1, <2>3
<1>4. sizes[at] \in Nat /\ crcs[at] \in Seq(Units) /\ cs[at] \in Parts
  BY <1>3
<1>5. FlattenSeq(SubSeq(crcs, 1, at - 1)) \in Seq(Units)
  <2>0. SubSeq(crcs, 1, at - 1) \in Seq(Seq(Units)) BY <1>3
  <2>1. PICK p \in Seq(Seq(Units)) : p = SubSeq(crcs, 1, at - 1) BY <2>0
  <2> QED BY <2>1, FlattenType
<1>6. FlattenSeq(SubSeq(crcs, 1, at)) = FlattenSeq(SubSeq(crcs, 1, at - 1)) \o crcs[at]
  <2>1. at \in 1 .. Len(crcs) BY <1>3
  <2> QED BY <2>1, FlattenPrefix
<1>7. (at + 1) - 1 = at
  OBVIOUS
<1> QED BY <1>1, <1>2, <1>3, <1>4, <1>5, <1>6, <1>7

\* A step of a replay that goes on to the next chunk.
LEMMA ReplayGoesOn ==
    ASSUME StagedInv, ReplayInv, replay.status = "open", replay.at <= Len(chunks),
           UNCHANGED chunks, NEW read \in Seq(Units),
           replay' = [replay EXCEPT !.at = @ + 1, !.taken = << >>, !.read = read],
           read = FlattenSeq(SubSeq(replay.crcs, 1, replay.at - 1)) \o replay.crcs[replay.at]
    PROVE  ReplayInv' /\ replay'.status = "open"
<1>1. replay.at \in 1 .. Len(chunks)
  BY ReplayAt
<1>2. /\ replay' \in Replays
      /\ replay'.at = replay.at + 1 /\ replay'.taken = << >> /\ replay'.read = read
      /\ replay'.sizes = replay.sizes /\ replay'.crcs = replay.crcs
      /\ replay'.status = replay.status
  <2>1. replay \in Replays /\ << >> \in Seq(Units) BY DEF ReplayInv
  <2>2. PICK r \in Replays : r = replay BY <2>1
  <2>3. PICK next \in Nat : next = r.at + 1 BY DEF Replays
  <2>4. PICK q : q = [r EXCEPT !.at = next, !.taken = << >>, !.read = read] OBVIOUS
  <2>5. q \in Replays
    BY <2>1, <2>4 DEF Replays
  <2>6. /\ q.at = next /\ q.taken = << >> /\ q.read = read
        /\ q.sizes = r.sizes /\ q.crcs = r.crcs /\ q.status = r.status
    BY <2>4 DEF Replays
  <2>7. q = replay'
    BY <2>2, <2>3, <2>4
  <2> QED BY <2>2, <2>3, <2>5, <2>6, <2>7
<1>3. replay'.at \in 1 .. Len(chunks) + 1
  <2>1. PICK cs \in Seq(Parts) : cs = chunks BY DEF StagedInv
  <2> QED BY <1>1, <1>2, <2>1
<1>4. read = FlattenSeq(SubSeq(replay.crcs, 1, (replay.at + 1) - 1)) \o << >>
  <2>1. read = FlattenSeq(SubSeq(replay.crcs, 1, (replay.at + 1) - 1))
    BY ReplayAt
  <2>2. read \o << >> = read
    BY ConcatEmptySeq
  <2> QED BY <2>1, <2>2
<1>5. /\ Len(replay.sizes) = Len(chunks) /\ Len(replay.crcs) = Len(chunks)
      /\ \A i \in DOMAIN chunks : chunks[i].crc # Unset => replay.crcs[i] = chunks[i].crc
  BY DEF ReplayInv
<1> QED BY <1>2, <1>3, <1>4, <1>5 DEF ReplayInv

LEMMA ReplayMemoryInv ==
    ASSUME StagedInv, TaskInv, ReplayInv, ReplayMemory
    PROVE  ReplayInv' /\ replay'.status = "open"
<1>1. /\ replay.status = "open" /\ replay.at <= Len(chunks) /\ UNCHANGED chunks
      /\ current.kind = "memory" /\ current.data = replay.crcs[replay.at]
      /\ replay' = [replay EXCEPT !.at = @ + 1, !.read = @ \o current.data]
  BY DEF ReplayMemory, TaskInv
<1>2. /\ replay.taken = << >> /\ replay.read \in Seq(Units)
      /\ replay.crcs[replay.at] \in Seq(Units)
      /\ FlattenSeq(SubSeq(replay.crcs, 1, replay.at - 1)) \in Seq(Units)
      /\ replay.read = FlattenSeq(SubSeq(replay.crcs, 1, replay.at - 1)) \o replay.taken
  <2>1. replay.taken = << >> BY <1>1 DEF ReplayInv, current
  <2> QED BY <1>1, <2>1, ReplayAt
<1>3. PICK p \in Seq(Units) : p = FlattenSeq(SubSeq(replay.crcs, 1, replay.at - 1))
  BY <1>2
<1>4. replay.read = p
  <2>1. p \o << >> = p BY ConcatEmptySeq
  <2> QED BY <1>2, <1>3, <2>1
<1>5. PICK read \in Seq(Units) : read = p \o replay.crcs[replay.at]
  <2>1. p \o replay.crcs[replay.at] \in Seq(Units) BY <1>2, ConcatProperties
  <2> QED BY <2>1
<1>6. replay' = [replay EXCEPT !.at = @ + 1, !.taken = << >>, !.read = read]
  <2>1. replay = [replay EXCEPT !.taken = << >>] BY <1>2 DEF ReplayInv, Replays
  <2>2. replay' = [replay EXCEPT !.at = @ + 1, !.read = read]
    BY <1>1, <1>4, <1>5
  <2> QED BY <1>2, <2>2 DEF ReplayInv, Replays
<1> QED BY <1>1, <1>3, <1>5, <1>6, ReplayGoesOn

LEMMA ReplayFileInv ==
    ASSUME SceneInv, StagedInv, TaskInv, ReplayInv, ReplayFile
    PROVE  ReplayInv' /\ replay'.status = "open"
<1>1. /\ replay.status = "open" /\ replay.at <= Len(chunks) /\ UNCHANGED chunks
      /\ current.kind = "file" /\ Missing > 0
  BY DEF ReplayFile, TaskInv
<1>2. PICK data \in ReplayBytes :
         replay' = [replay EXCEPT !.taken = @ \o data, !.read = @ \o data]
  BY DEF ReplayFile
<1>3. /\ replay.at \in 1 .. Len(chunks)
      /\ replay.taken \in Seq(Units) /\ replay.read \in Seq(Units)
      /\ replay.sizes[replay.at] \in Nat
      /\ FlattenSeq(SubSeq(replay.crcs, 1, replay.at - 1)) \in Seq(Units)
      /\ replay.read = FlattenSeq(SubSeq(replay.crcs, 1, replay.at - 1)) \o replay.taken
      /\ current \in Parts
  BY <1>1, ReplayAt DEF current
<1>4. data \in Seq(Units)
  <2>1. current.path \in {"package", "staged"} /\ PayloadOffset(current) \in Nat
    BY <1>1, <1>3 DEF Parts, Placed, ChunksWith, PayloadOffset
  <2>2. currentFile # Gone => currentFile \in Seq(Units)
    BY <2>1 DEF SceneInv, Store, currentFile
  <2>3. PICK count \in Nat : count = Smaller(Missing, BufferSize)
    <3>1. PICK size \in Nat, taken \in Seq(Units) :
             size = replay.sizes[replay.at] /\ taken = replay.taken
      BY <1>3
    <3>2. Missing = size - Len(taken) BY <3>1 DEF Missing
    <3>3. Missing \in Nat BY <1>1, <3>2
    <3>4. Smaller(Missing, BufferSize) \in Nat BY <3>3, BufferAssumption DEF Smaller
    <3> QED BY <3>4
  <2>4. PICK from \in Nat : from = PayloadOffset(current) + Len(replay.taken)
    <3>1. PayloadOffset(current) + Len(replay.taken) \in Nat BY <1>3, <2>1, LenProperties
    <3> QED BY <3>1
  <2>5. /\ currentFile # Gone /\ from + count <= Len(currentFile)
        /\ data = Bytes(currentFile, from, count)
    BY <2>3, <2>4 DEF ReplayBytes
  <2> QED BY <2>2, <2>5, BytesType
<1>5. PICK p \in Seq(Units), taken \in Seq(Units), read \in Seq(Units) :
         /\ p = FlattenSeq(SubSeq(replay.crcs, 1, replay.at - 1))
         /\ taken = replay.taken \o data /\ read = replay.read \o data
  <2>1. replay.taken \o data \in Seq(Units) /\ replay.read \o data \in Seq(Units)
    BY <1>3, <1>4, ConcatProperties
  <2> QED BY <1>3, <2>1
<1>6. read = p \o taken
  <2>1. PICK t \in Seq(Units) : t = replay.taken BY <1>3
  <2>2. (p \o t) \o data = p \o (t \o data) BY <1>4, ConcatAssociative, SMTT(30)
  <2>3. replay.read = p \o t BY <1>3, <1>5, <2>1
  <2> QED BY <1>5, <2>1, <2>2, <2>3, Zenon
<1>7. /\ replay' \in Replays
      /\ replay'.at = replay.at /\ replay'.taken = taken /\ replay'.read = read
      /\ replay'.sizes = replay.sizes /\ replay'.crcs = replay.crcs
      /\ replay'.status = replay.status
  <2>1. PICK r \in Replays : r = replay BY DEF ReplayInv
  <2>2. PICK q : q = [r EXCEPT !.taken = taken, !.read = read] OBVIOUS
  <2>3. q \in Replays
    BY <2>2 DEF Replays
  <2>4. /\ q.at = r.at /\ q.taken = taken /\ q.read = read
        /\ q.sizes = r.sizes /\ q.crcs = r.crcs /\ q.status = r.status
    BY <2>2 DEF Replays
  <2>5. q = replay'
    BY <1>2, <1>5, <2>1, <2>2
  <2> QED BY <2>1, <2>3, <2>4, <2>5
<1>8. /\ Len(replay.sizes) = Len(chunks) /\ Len(replay.crcs) = Len(chunks)
      /\ replay.at \in 1 .. Len(chunks) + 1
      /\ \A i \in DOMAIN chunks : chunks[i].crc # Unset => replay.crcs[i] = chunks[i].crc
  BY <1>1 DEF ReplayInv
<1>9. replay.at # Len(chunks) + 1 /\ chunks[replay.at].kind # "memory"
  <2>1. PICK cs \in Seq(Parts) : cs = chunks BY DEF StagedInv
  <2>2. replay.at # Len(chunks) + 1 BY <1>3, <2>1
  <2> QED BY <1>1, <2>2 DEF current
<1>10. replay'.read = FlattenSeq(SubSeq(replay'.crcs, 1, replay'.at - 1)) \o replay'.taken
  BY <1>5, <1>6, <1>7
<1> QED BY <1>1, <1>7, <1>8, <1>9, <1>10 DEF ReplayInv

LEMMA ReplayChunkEndInv ==
    ASSUME StagedInv, TaskInv, ReplayInv, ReplayChunkEnd
    PROVE  ReplayInv' /\ replay'.status = "open"
<1>1. /\ replay.status = "open" /\ replay.at <= Len(chunks) /\ UNCHANGED chunks
      /\ replay.taken = replay.crcs[replay.at]
      /\ replay' = [replay EXCEPT !.at = @ + 1, !.taken = << >>]
  BY DEF ReplayChunkEnd, TaskInv, ChunkHolds
<1>2. /\ replay.read \in Seq(Units)
      /\ replay.read = FlattenSeq(SubSeq(replay.crcs, 1, replay.at - 1)) \o replay.taken
  BY <1>1, ReplayAt
<1>3. PICK read \in Seq(Units) : read = replay.read
  BY <1>2
<1>4. replay' = [replay EXCEPT !.at = @ + 1, !.taken = << >>, !.read = read]
  BY <1>1, <1>3 DEF ReplayInv, Replays
<1> QED BY <1>1, <1>2, <1>3, <1>4, ReplayGoesOn

LEMMA ReplayStops ==
    ASSUME StagedInv, TaskInv, ReplayInv, ReplayEnd \/ ReplayFails
    PROVE  ReplayInv' /\ replay'.status # "open"
<1>1. replay.status = "open" /\ UNCHANGED chunks
  BY DEF ReplayEnd, ReplayFails, TaskInv
<1>2. PICK status \in {"done", "failed"} :
         /\ replay' = [replay EXCEPT !.status = status]
         /\ status = "done" => replay.at > Len(chunks)
  BY DEF ReplayEnd, ReplayFails
<1>3. /\ replay' \in Replays /\ replay'.status = status
      /\ replay'.at = replay.at /\ replay'.taken = replay.taken
      /\ replay'.read = replay.read /\ replay'.sizes = replay.sizes
      /\ replay'.crcs = replay.crcs
  BY <1>2 DEF ReplayInv, Replays
<1>4. status = "done" => replay.at = Len(chunks) + 1
  <2>1. PICK cs \in Seq(Parts) : cs = chunks BY DEF StagedInv
  <2>2. replay.at \in 1 .. Len(chunks) + 1 BY <1>1 DEF ReplayInv
  <2> QED BY <1>2, <2>1, <2>2
<1> QED BY <1>1, <1>3, <1>4 DEF ReplayInv

(***************************************************************************)
(* Steps                                                                   *)
(***************************************************************************)
LEMMA SceneStore ==
    ASSUME NEW s \in Scenes, NEW fs,
           fs.package \in s.packages \cup {s.first}, fs.staged \in s.staged
    PROVE  Store(fs)
<1>1. fs.package = Gone \/ fs.package \in Seq(Units)
  <2>1. PICK file : file = fs.package OBVIOUS
  <2> QED BY <2>1, SceneFiles
<1>2. fs.staged = Gone \/ fs.staged \in Seq(Units)
  <2>1. PICK file : file = fs.staged OBVIOUS
  <2> QED BY <2>1, SceneFiles
<1> QED BY <1>1, <1>2 DEF Store

LEMMA InputInit == Init => InputInv
<1> SUFFICES ASSUME Init PROVE InputInv
  OBVIOUS
<1>1. scene \in Scenes /\ files.package = scene.first /\ files.staged \in scene.staged
  BY DEF Init
<1>2. SceneInv
  BY <1>1, SceneStore DEF SceneInv
<1>3. ReaderInv
  BY DEF Init, ReaderInv
<1>4. scene.calls \in Nat
  BY <1>1, ScenesAssumption
<1>5. replay.status = "closed"
  BY DEF Init, NoReplay
<1>6. TaskInv
  BY <1>4, <1>5, BoundsAssumption DEF Init, TaskInv, Tasks, NoFeed
<1>7. StagedInv
  <2>1. << >> \in Seq(Parts) /\ << >> \in Seq({Unset} \cup Seq(Units)) OBVIOUS
  <2> QED BY <2>1 DEF Init, StagedInv
<1>8. ReplayInv
  <2>1. << >> \in Seq(Units) /\ << >> \in Seq(Nat) /\ << >> \in Seq(Seq(Units))
    OBVIOUS
  <2> QED BY <2>1 DEF Init, ReplayInv, Replays, NoReplay
<1> QED BY <1>2, <1>3, <1>6, <1>7, <1>8 DEF InputInv

\* Nothing but others changes the files that chunks name.
SameFiles == files'.package = files.package /\ files'.staged = files.staged

LEMMA CleanedSame ==
    ASSUME FileStore, NEW out, NEW back,
           WithoutTemporary([files EXCEPT !.output = out, !.backup = back])
    PROVE  SameFiles
<1>1. CASE files' = [files EXCEPT !.output = out, !.backup = back]
  BY <1>1 DEF FileStore, SameFiles
<1>2. CASE files' = [[files EXCEPT !.output = out, !.backup = back] EXCEPT !.temporary = Gone]
  BY <1>2 DEF FileStore, SameFiles
<1> QED BY <1>1, <1>2 DEF WithoutTemporary

LEMMA CleanedAsWas ==
    ASSUME FileStore, WithoutTemporary(files)
    PROVE  SameFiles
<1>1. files = [files EXCEPT !.output = files.output, !.backup = files.backup]
  BY DEF FileStore
<1>2. WithoutTemporary([files EXCEPT !.output = files.output, !.backup = files.backup])
  BY <1>1
<1> QED BY <1>2, CleanedSame

LEMMA SceneKept ==
    ASSUME SceneInv, SameFiles, UNCHANGED scene
    PROVE  SceneInv'
BY DEF SceneInv, SameFiles, Store

LEMMA CallsKept ==
    ASSUME SceneInv, TaskInv, NEW call, Begins(call), UNCHANGED scene
    PROVE  calls' \in 0 .. scene'.calls
<1>1. scene.calls \in Nat
  BY ScenesAssumption DEF SceneInv
<1> QED BY <1>1 DEF Begins, TaskInv

LEMMA InputStep == InputInv /\ ExtractionInv /\ [Next]_vars => InputInv'
<1> SUFFICES ASSUME InputInv, ExtractionInv, [Next]_vars PROVE InputInv'
  OBVIOUS
<1>0. /\ SceneInv /\ ReaderInv /\ TaskInv /\ StagedInv /\ ReplayInv
      /\ FileStore /\ FeedStore
  BY DEF InputInv, ExtractionInv
<1>1. ASSUME UNCHANGED <<chunks, promised>> PROVE StagedInv'
  BY <1>0, <1>1 DEF StagedInv
<1>2. ASSUME UNCHANGED <<chunks, replay>> PROVE ReplayInv'
  BY <1>0, <1>2 DEF ReplayInv
<1>3. ASSUME UNCHANGED reader PROVE ReaderInv'
  BY <1>0, <1>3 DEF ReaderInv
<1>4. ASSUME SameFiles, UNCHANGED <<scene, reader, staging>>, TaskInv'
      PROVE  InputInv'
  BY <1>0, <1>1, <1>2, <1>3, <1>4, SceneKept DEF InputInv, staging
<1>5. ASSUME UNCHANGED files PROVE SameFiles
  BY <1>5 DEF SameFiles
<1>6. CASE Open
  <2>1. SceneInv' /\ StagedInv' /\ ReplayInv'
    BY <1>0, <1>1, <1>2, <1>5, <1>6, SceneKept DEF Open, staging
  <2>2. CASE OpenRefused(files.package)
    <3>1. reader' = [status |-> "refused", entries |-> {}] BY <1>6, <2>2 DEF Open
    <3>2. ReaderInv' BY <3>1 DEF ReaderInv
    <3>3. feed.entry = Unset BY <1>0, <1>6 DEF Open, ReaderInv, TaskInv
    <3>4. TaskInv' BY <1>0, <1>6, <3>3 DEF Open, TaskInv, reading, staging
    <3> QED BY <2>1, <3>2, <3>4 DEF InputInv
  <2>3. CASE ~ OpenRefused(files.package)
    <3>1. reader' = [status |-> "open", entries |-> EntriesOf(files.package)]
      BY <1>6, <2>3 DEF Open
    <3>2. ~ PackageRefused(files.package) /\ files.package # Gone
      BY <2>3 DEF OpenRefused, PackageRefused
    <3>3. PICK file \in Seq(Units) : file = files.package /\ Unset \notin EntriesOf(file)
      <4>1. PICK file : file = files.package OBVIOUS
      <4>2. file \in scene.packages \cup {scene.first} \cup scene.staged /\ scene \in Scenes
        BY <1>0, <4>1 DEF SceneInv
      <4> QED BY <3>2, <4>1, <4>2, SceneFiles
    <3>4. \A e \in EntriesOf(file) : e.at \in Nat /\ e.usize \in Nat
      BY <3>2, <3>3, EntriesTyped
    <3>5. ReaderInv' BY <3>1, <3>3, <3>4 DEF ReaderInv
    <3>6. feed.entry = Unset BY <1>0, <1>6 DEF Open, ReaderInv, TaskInv
    <3>7. TaskInv' BY <1>0, <1>6, <3>6 DEF Open, TaskInv, reading, staging
    <3> QED BY <2>1, <3>5, <3>7 DEF InputInv
  <2> QED BY <2>2, <2>3
<1>7. ASSUME NEW e \in reader.entries, NEW call \in {"read", "extract"}, Begins(call),
             feed' = [NoFeed EXCEPT !.entry = e], replay' = NoReplay, SameFiles,
             UNCHANGED <<scene, reader, chunks, promised, changes>>
      PROVE  InputInv'
  <2>1. SceneInv' /\ ReaderInv' /\ StagedInv' BY <1>0, <1>1, <1>3, <1>7, SceneKept
  <2>2. ReplayInv' /\ replay'.status = "closed" BY <1>7, NoReplayInv
  <2>3. feed'.entry = e BY <1>7 DEF NoFeed
  <2>4. e # Unset BY <1>0 DEF ReaderInv
  <2>5. calls' \in 0 .. scene'.calls BY <1>0, <1>7, CallsKept
  <2>6. task' = call BY <1>7 DEF Begins
  <2>7. TaskInv' BY <1>0, <1>7, <2>2, <2>3, <2>4, <2>5, <2>6 DEF TaskInv, Tasks
  <2> QED BY <2>1, <2>2, <2>7 DEF InputInv
<1>8. ASSUME NEW e \in reader.entries, ReadEntry(e) PROVE InputInv'
  BY <1>5, <1>7, <1>8 DEF ReadEntry
<1>9. ASSUME NEW e \in reader.entries, ExtractEntry(e) PROVE InputInv'
  <2>1. SameFiles BY <1>0, <1>9 DEF ExtractEntry, FileStore, SameFiles
  <2> QED BY <1>7, <1>9, <2>1 DEF ExtractEntry
<1>10. ASSUME Begins("idle"), StagedInv', replay' = NoReplay,
              UNCHANGED <<files, scene, reader, feed, changes>>
       PROVE  InputInv'
  <2>1. SceneInv' /\ ReaderInv' BY <1>0, <1>3, <1>5, <1>10, SceneKept
  <2>2. ReplayInv' /\ replay'.status = "closed" BY <1>10, NoReplayInv
  <2>3. feed.entry = Unset BY <1>0, <1>10 DEF Begins, TaskInv
  <2>4. calls' \in 0 .. scene'.calls BY <1>0, <1>10, CallsKept
  <2>5. task' = "idle" BY <1>10 DEF Begins
  <2>6. TaskInv' BY <1>0, <1>10, <2>2, <2>3, <2>4, <2>5 DEF TaskInv, Tasks
  <2> QED BY <1>10, <2>1, <2>2, <2>6 DEF InputInv
<1>11. ASSUME NEW crcs, NEW sequence \in Seq(Placed(crcs)), Stage(sequence) PROVE InputInv'
  <2>1. StagedInv' BY <1>0, <1>11, StageSound
  <2> QED BY <1>10, <1>11, <2>1 DEF Stage
<1>12. ASSUME NEW sequence \in scene.inputs, Stage(sequence) PROVE InputInv'
  <2>1. PICK q \in Seq(Placed({Unset} \cup Seq(Units))) : q = sequence
    BY <1>0, GivenChunks DEF SceneInv, Parts
  <2> QED BY <1>11, <1>12, <2>1
<1>13. ASSUME NEW e \in reader.entries, StageEntry(e) PROVE InputInv'
  <2>1. e.at \in Nat /\ e.usize \in Nat BY <1>0 DEF ReaderInv
  <2>2. PICK q \in Seq(Placed({e.crc})) :
           q = <<[FileRange("package", e.at, e.usize) EXCEPT !.crc = e.crc]>>
    BY <2>1, EntryChunk
  <2>3. Stage(q) BY <1>13, <2>2 DEF StageEntry
  <2> QED BY <1>11, <2>3
<1>14. ASSUME NEW rewrites \in scene.patches, Patch(rewrites) PROVE InputInv'
  <2>1. StagedInv' BY <1>0, <1>14, PatchSplices
  <2> QED BY <1>10, <1>14, <2>1 DEF Patch
<1>15. CASE OpenStream
  <2>1. feed'.entry = feed.entry BY <1>0, <1>15 DEF OpenStream, FeedStore
  <2>2. TaskInv' BY <1>0, <1>15, <2>1 DEF OpenStream, TaskInv, staging
  <2> QED BY <1>4, <1>5, <1>15, <2>2 DEF OpenStream
<1>16. CASE Take
  <2>1. feed'.entry = feed.entry BY <1>0, <1>16 DEF Take, FeedStore
  <2>2. SameFiles BY <1>0, <1>16 DEF Take, FileStore, SameFiles
  <2>3. TaskInv' BY <1>0, <1>16, <2>1 DEF Take, TaskInv, staging
  <2> QED BY <1>4, <1>16, <2>2, <2>3 DEF Take
<1>17. ASSUME NEW ok, Ends(ok), feed.entry # Unset, SameFiles,
              UNCHANGED <<scene, reader, staging, calls, changes>>
       PROVE  InputInv'
  <2>1. task' = "idle" /\ feed'.entry = Unset BY <1>17 DEF Ends, NoFeed
  <2>2. replay.status # "open" BY <1>0, <1>17 DEF TaskInv
  <2>3. TaskInv' BY <1>0, <1>17, <2>1, <2>2 DEF TaskInv, Tasks, staging
  <2> QED BY <1>4, <1>17, <2>3
<1>18. CASE FinishRead
  BY <1>5, <1>17, <1>18 DEF FinishRead, Streaming
<1>19. CASE FailEntry
  <2>1. SameFiles
    <3>1. CASE task = "extract" BY <1>0, <1>19, <3>1, CleanedAsWas DEF FailEntry
    <3>2. CASE task # "extract" BY <1>5, <1>19, <3>2 DEF FailEntry
    <3> QED BY <3>1, <3>2
  <2> QED BY <1>17, <1>19, <2>1 DEF FailEntry
<1>20. CASE Commit
  <2>1. SameFiles BY <1>0, <1>20 DEF Commit, FileStore, SameFiles
  <2> QED BY <1>17, <1>20, <2>1 DEF Commit, Streaming
<1>21. CASE CommitFails
  <2>1. SameFiles
    BY <1>0, <1>21, CleanedAsWas, CleanedSame DEF CommitFails
  <2> QED BY <1>17, <1>21, <2>1 DEF CommitFails, Streaming
<1>22. ASSUME ReplayInv', SameFiles, UNCHANGED <<scene, reader, chunks, promised>>, TaskInv'
       PROVE  InputInv'
  BY <1>0, <1>1, <1>3, <1>22, SceneKept DEF InputInv
<1>23. CASE OpenReplay
  <2>1. ReplayInv' /\ replay'.status = "open" BY <1>0, <1>23, OpenReplayInv
  <2>2. feed.entry = Unset BY <1>0, <1>23 DEF OpenReplay, Begins, TaskInv
  <2>3. calls' \in 0 .. scene'.calls BY <1>0, <1>23, CallsKept DEF OpenReplay
  <2>4. task' = "replay" BY <1>23 DEF OpenReplay, Begins
  <2>5. TaskInv' BY <1>0, <1>23, <2>1, <2>2, <2>3, <2>4 DEF OpenReplay, TaskInv, Tasks
  <2> QED BY <1>5, <1>22, <1>23, <2>1, <2>5 DEF OpenReplay
<1>24. CASE ReplayMemory \/ ReplayFile \/ ReplayChunkEnd
  <2>1. ReplayInv' /\ replay'.status = "open"
    BY <1>0, <1>24, ReplayMemoryInv, ReplayFileInv, ReplayChunkEndInv
  <2>2. task = "replay" /\ UNCHANGED <<files, scene, reader, reading, chunks, promised, calls, changes>>
    BY <1>24 DEF ReplayMemory, ReplayFile, ReplayChunkEnd
  <2>3. TaskInv' BY <1>0, <2>1, <2>2 DEF TaskInv, reading
  <2> QED BY <1>5, <1>22, <2>1, <2>2, <2>3
<1>25. CASE ReplayEnd \/ ReplayFails
  <2>1. ReplayInv' /\ replay'.status # "open" BY <1>0, <1>25, ReplayStops
  <2>2. /\ task = "replay" /\ task' = "idle"
        /\ UNCHANGED <<files, scene, reader, feed, result, kept, chunks, promised, calls, changes>>
    BY <1>25 DEF ReplayEnd, ReplayFails
  <2>3. TaskInv' BY <1>0, <2>1, <2>2 DEF TaskInv, Tasks
  <2> QED BY <1>5, <1>22, <2>1, <2>2, <2>3
<1>26. CASE Change
  <2>1. UNCHANGED <<scene, reader, reading, staging, calls>>
    BY <1>26 DEF Change
  <2>2. /\ files'.package \in scene.packages \cup {scene.first}
        /\ files'.staged \in scene.staged
    BY <1>0, <1>26 DEF Change, FileStore, SceneInv
  <2>3. SceneInv'
    <3>1. Store(files') BY <1>0, <2>2, SceneStore DEF SceneInv
    <3> QED BY <1>0, <2>1, <2>2, <3>1 DEF SceneInv
  <2>4. changes' \in 0 .. MaxChanges BY <1>0, <1>26, BoundsAssumption DEF Change, TaskInv
  <2>5. TaskInv' BY <1>0, <2>1, <2>4 DEF TaskInv, reading, staging
  <2> QED BY <1>1, <1>2, <1>3, <2>1, <2>3, <2>5 DEF InputInv, staging
<1>27. CASE UNCHANGED vars
  <2>1. TaskInv' BY <1>0, <1>27 DEF vars, reading, staging, TaskInv
  <2> QED BY <1>4, <1>5, <1>27, <2>1 DEF vars, staging
<1> QED
  BY <1>6, <1>8, <1>9, <1>12, <1>13, <1>14, <1>15, <1>16, <1>18, <1>19, <1>20, <1>21,
     <1>23, <1>24, <1>25, <1>26, <1>27 DEF Next

LEMMA InputInvariant == Spec => [](InputInv /\ ExtractionInv)
<1>1. Init => InputInv /\ ExtractionInv
  BY InputInit, ExtractionInit
<1>2. InputInv /\ ExtractionInv /\ [Next]_vars => (InputInv /\ ExtractionInv)'
  BY InputStep, ExtractionStep
<1> QED BY <1>1, <1>2, PTL DEF Spec

(***************************************************************************)
(* The archives that write_package makes                                   *)
(***************************************************************************)
\* The units of entries of the given contents.
ArchiveUnits(entries) ==
    Units \cup {Local(entries[i].name, "stored", {}, entries[i].data,
                      Len(entries[i].data), Len(entries[i].data), 0) : i \in DOMAIN entries}

EntryList == Seq([name : STRING, data : Seq(Units)])

LEMMA EntryUnitsType ==
    ASSUME NEW entries \in EntryList, NEW i \in DOMAIN entries
    PROVE  /\ EntryUnits(entries[i]) \in Seq(ArchiveUnits(entries))
           /\ Len(entries[i].data) \in Nat
           /\ Len(EntryUnits(entries[i])) = 1 + Len(entries[i].data)
           /\ EntryUnits(entries[i])[1] =
                 Local(entries[i].name, "stored", {}, entries[i].data,
                       Len(entries[i].data), Len(entries[i].data), 0)
           /\ \A d \in 1 .. Len(entries[i].data) :
                 EntryUnits(entries[i])[1 + d] = entries[i].data[d]
<1>1. PICK data : data = entries[i].data
  OBVIOUS
<1>2. data \in Seq(Units)
  <2>1. PICK D : D = [name : STRING, data : Seq(Units)] OBVIOUS
  <2>2. entries \in Seq(D) BY <2>1 DEF EntryList
  <2>3. entries[i] \in D BY <2>2
  <2> QED BY <1>1, <2>1, <2>3
<1>3. PICK h : h = Local(entries[i].name, "stored", {}, entries[i].data,
                         Len(entries[i].data), Len(entries[i].data), 0)
  OBVIOUS
<1>4. PICK U : U = ArchiveUnits(entries)
  OBVIOUS
<1>5. h \in U
  BY <1>3, <1>4 DEF ArchiveUnits
<1>6. data \in Seq(U)
  <2>1. Units \subseteq U BY <1>4 DEF ArchiveUnits
  <2> QED BY <1>2, <2>1
<1>7. EntryUnits(entries[i]) = <<h>> \o data
  BY <1>1, <1>3 DEF EntryUnits
<1>8. /\ <<h>> \o data \in Seq(U)
      /\ Len(<<h>> \o data) = 1 + Len(data)
      /\ (<<h>> \o data)[1] = h
      /\ \A d \in 1 .. Len(data) : (<<h>> \o data)[1 + d] = data[d]
  BY <1>5, <1>6
<1> QED BY <1>1, <1>2, <1>3, <1>4, <1>7, <1>8

\* An entry's local header stands at its offset, its bytes follow, and the next
\* entry follows these.
LEMMA ArchiveLaid ==
    ASSUME NEW entries \in EntryList
    PROVE  LET body == FlattenSeq([i \in DOMAIN entries |-> EntryUnits(entries[i])])
               n == Len(entries)
           IN  /\ body \in Seq(ArchiveUnits(entries))
               /\ Len(body) = DataEnd(entries)
               /\ \A i \in 1 .. n + 1 : LocalOffset(entries, i) \in Nat
               /\ \A i \in 1 .. n :
                     /\ LocalOffset(entries, i) + 1 + Len(entries[i].data) <= DataEnd(entries)
                     /\ body[LocalOffset(entries, i) + 1] = EntryUnits(entries[i])[1]
                     /\ \A d \in 1 .. Len(entries[i].data) :
                           body[LocalOffset(entries, i) + 1 + d] = entries[i].data[d]
<1> DEFINE n == Len(entries)
<1>1. n \in Nat /\ DOMAIN entries = 1 .. n
  BY DEF EntryList
<1>2. PICK U : U = ArchiveUnits(entries)
  OBVIOUS
<1>3. PICK ss : ss = [i \in 1 .. n |-> EntryUnits(entries[i])]
  OBVIOUS
<1>4. ss \in Seq(Seq(U)) /\ Len(ss) = n
  <2>1. \A i \in 1 .. n : EntryUnits(entries[i]) \in Seq(U) BY <1>1, <1>2, EntryUnitsType
  <2> QED BY <1>1, <1>3, <2>1
<1>5. PICK g : Joining(g, ss, U)
  BY <1>4, JoiningExists
<1>6. /\ g \in [0 .. n -> Seq(U)] /\ g[0] = << >>
      /\ \A k \in 1 .. n : g[k] = g[k - 1] \o ss[k]
  <2>1. /\ g \in [0 .. Len(ss) -> Seq(U)] /\ g[0] = << >>
        /\ \A k \in 1 .. Len(ss) : g[k] = g[k - 1] \o ss[k]
    BY ONLY <1>4, <1>5, JoiningStep
  <2>2. Len(ss) = n BY <1>4
  <2> HIDE DEF n
  <2> QED BY ONLY <2>1, <2>2
<1>7. g[n] = FlattenSeq(ss)
  BY <1>4, <1>5, JoiningFlattens
<1>8. ASSUME NEW k \in 0 .. n PROVE FlattenSeq(SubSeq(ss, 1, k)) = g[k]
  <2> DEFINE Good == {m \in 0 .. n : FlattenSeq(SubSeq(ss, 1, m)) = g[m]}
  <2>1. 0 \in Good
    <3>1. SubSeq(ss, 1, 0) = << >> BY <1>4
    <3>2. g[0] = << >> /\ 0 \in 0 .. n BY <1>1, <1>6
    <3> QED BY <3>1, <3>2, FlattenEmpty
  <2>2. ASSUME NEW m \in 0 .. n - 1, m \in Good PROVE m + 1 \in Good
    <3>1. PICK q \in 1 .. Len(ss) : q = m + 1 BY <1>1, <1>4
    <3>2. FlattenSeq(SubSeq(ss, 1, q)) = FlattenSeq(SubSeq(ss, 1, q - 1)) \o ss[q]
      BY <1>4, FlattenPrefix
    <3>3. q - 1 = m /\ q \in 0 .. n /\ q \in 1 .. n BY <1>1, <1>4, <3>1
    <3>4. g[q] = g[q - 1] \o ss[q] BY <1>6, <3>3
    <3>5. FlattenSeq(SubSeq(ss, 1, m)) = g[m] BY <2>2
    <3>6. FlattenSeq(SubSeq(ss, 1, q)) = g[q] BY <3>2, <3>3, <3>4, <3>5
    <3> QED BY <3>1, <3>3, <3>6
  <2>3. Good \in SUBSET (0 .. n) OBVIOUS
  <2> HIDE DEF Good
  <2>4. Good = 0 .. n BY <1>1, <2>1, <2>2, <2>3, UpToBound
  <2>5. k \in Good BY <2>4
  <2> QED BY <2>5 DEF Good
<1>9. ASSUME NEW i \in 1 .. n + 1 PROVE LocalOffset(entries, i) = Len(g[i - 1])
  <2>1. [j \in 1 .. i - 1 |-> EntryUnits(entries[j])] = SubSeq(ss, 1, i - 1)
    BY <1>1, <1>3, <1>4
  <2>2. i - 1 \in 0 .. n BY <1>1
  <2> QED BY <1>8, <2>1, <2>2 DEF LocalOffset
<1>10. \A k \in 0 .. n : g[k] \in Seq(U) /\ Len(g[k]) \in Nat
  BY <1>6
<1>11. /\ \A k \in 1 .. n : Len(g[k]) = Len(g[k - 1]) + Len(ss[k])
       /\ \A k \in 1 .. n : \A d \in 1 .. Len(ss[k]) :
             /\ Len(g[k - 1]) + d \in 1 .. Len(g[n])
             /\ g[n][Len(g[k - 1]) + d] = ss[k][d]
  <2>1. LaidOut(g, ss) BY <1>4, <1>5, JoiningLaid
  <2>2. PICK N : N = n OBVIOUS
  <2>3. Len(ss) = N BY <1>4, <2>2
  <2>4. /\ \A k \in 1 .. N : Len(g[k]) = Len(g[k - 1]) + Len(ss[k])
        /\ \A k \in 1 .. N : \A d \in 1 .. Len(ss[k]) :
              /\ Len(g[k - 1]) + d \in 1 .. Len(g[N])
              /\ g[N][Len(g[k - 1]) + d] = ss[k][d]
    BY ONLY <2>1, <2>3 DEF LaidOut
  <2> HIDE DEF n
  <2> QED BY ONLY <2>2, <2>4
<1>12. DataEnd(entries) = Len(g[n])
  <2>1. n + 1 \in 1 .. n + 1 /\ (n + 1) - 1 = n BY <1>1
  <2> QED BY <1>9, <2>1 DEF DataEnd
<1>13. \A i \in 1 .. n + 1 : LocalOffset(entries, i) \in Nat
  <2>1. \A i \in 1 .. n + 1 : i - 1 \in 0 .. n BY <1>1
  <2> QED BY <1>9, <1>10, <2>1
<1>14. ASSUME NEW i \in 1 .. n
       PROVE  /\ LocalOffset(entries, i) + 1 + Len(entries[i].data) <= DataEnd(entries)
              /\ g[n][LocalOffset(entries, i) + 1] = EntryUnits(entries[i])[1]
              /\ \A d \in 1 .. Len(entries[i].data) :
                    g[n][LocalOffset(entries, i) + 1 + d] = entries[i].data[d]
  <2>1. PICK size \in Nat : size = Len(entries[i].data) BY <1>1, EntryUnitsType
  <2>2. PICK at \in Nat : at = LocalOffset(entries, i) /\ at = Len(g[i - 1])
    <3>1. i \in 1 .. n + 1 BY <1>1
    <3> QED BY <1>9, <1>13, <3>1
  <2>3. PICK unit : unit = ss[i] /\ unit = EntryUnits(entries[i]) BY <1>3
  <2>4. /\ Len(unit) = 1 + size
        /\ \A d \in 1 .. size : unit[1 + d] = entries[i].data[d]
    BY <1>1, <2>1, <2>3, EntryUnitsType
  <2>5. \A d \in 1 .. Len(unit) : at + d \in 1 .. Len(g[n]) /\ g[n][at + d] = unit[d]
    BY <1>11, <2>2, <2>3
  <2>6. 1 + size \in 1 .. Len(unit) /\ 1 \in 1 .. Len(unit) BY <2>1, <2>4
  <2>7. at + (1 + size) <= DataEnd(entries)
    <3>1. PICK end \in Nat : end = DataEnd(entries) BY <1>1, <1>10, <1>12
    <3>2. at + (1 + size) \in 1 .. end BY <1>12, <2>5, <2>6, <3>1
    <3> QED BY <3>1, <3>2
  <2>8. ASSUME NEW d \in 1 .. size PROVE g[n][at + 1 + d] = entries[i].data[d]
    <3>1. 1 + d \in 1 .. Len(unit) BY <2>1, <2>4
    <3>2. g[n][at + (1 + d)] = unit[1 + d] BY <2>5, <3>1
    <3>3. at + (1 + d) = at + 1 + d OBVIOUS
    <3> QED BY <2>4, <3>2, <3>3
  <2>9. at + (1 + size) = at + 1 + size OBVIOUS
  <2> QED BY <2>1, <2>2, <2>3, <2>5, <2>6, <2>7, <2>8, <2>9
<1>15. ss = [i \in DOMAIN entries |-> EntryUnits(entries[i])]
  BY <1>1, <1>3
<1>16. g[n] \in Seq(U)
  BY <1>1, <1>10
<1> HIDE DEF n
<1> QED BY <1>2, <1>7, <1>12, <1>13, <1>14, <1>15, <1>16 DEF n

\* What write_package accepts and can be read again: a package with content
\* types, none of whose counts, sizes and offsets is the greatest a field can
\* hold, which to the reader is the mark of Zip64.
Fits(entries) ==
    /\ entries \in EntryList
    /\ ~ WriterRefuses(entries)
    /\ MaxField \notin {Len(entries), DataEnd(entries)}
    /\ \A i \in DOMAIN entries : Len(entries[i].data) # MaxField
    /\ \E i \in DOMAIN entries : entries[i].name = ContentTypes
    /\ WrittenArchive(entries) # Gone

\* A package that opens, and each of whose entries is stored with the size and
\* the checksum that the directory lists.
Intact(file) ==
    /\ ~ OpenRefused(file)
    /\ \A e \in EntriesOf(file) :
          /\ e.method = "stored" /\ e.csize = e.usize
          /\ e.at + e.csize <= Len(file) /\ Bytes(file, e.at, e.csize) = e.crc

\* The entry the directory lists for the i-th of some entries.
ListedEntry(entries, i) ==
    [name |-> entries[i].name, method |-> "stored", crc |-> entries[i].data,
     csize |-> Len(entries[i].data), usize |-> Len(entries[i].data),
     at |-> LocalOffset(entries, i) + 1]

\* The i-th entry's local header is at its offset, its content behind it.
Headed(file, entries, i) == file[LocalOffset(entries, i) + 1] = EntryUnits(entries[i])[1]
Filled(file, entries, i) ==
    \A d \in 1 .. Len(entries[i].data) :
        file[LocalOffset(entries, i) + 1 + d] = entries[i].data[d]

LEMMA Joined ==
    ASSUME NEW V, NEW a \in Seq(V), NEW b \in Seq(V)
    PROVE  /\ a \o b \in Seq(V) /\ Len(a \o b) = Len(a) + Len(b)
           /\ \A k \in 1 .. Len(a) : (a \o b)[k] = a[k]
           /\ \A i \in 1 .. Len(b) : (a \o b)[Len(a) + i] = b[i]
OBVIOUS

\* The parts of the file: entries, directory, end record.
LEMMA ArchiveParts ==
    ASSUME NEW entries \in EntryList, NEW m, m = DataEnd(entries),
           NEW n, n = Len(entries), NEW file, file = WrittenArchive(entries)
    PROVE  /\ m \in Nat /\ n \in Nat /\ Len(file) = m + n + 1
           /\ \E V : file \in Seq(V)
           /\ \A i \in 1 .. n : file[m + i] = CentralRecords(entries)[i]
           /\ file[m + n + 1] = Eocd(0, n, n, m, 0)
           /\ \A i \in 1 .. n :
                 /\ LocalOffset(entries, i) \in Nat
                 /\ LocalOffset(entries, i) + 1 + Len(entries[i].data) <= m
                 /\ Headed(file, entries, i) /\ Filled(file, entries, i)
<1>1. n \in Nat /\ DOMAIN entries = 1 .. n
  BY DEF EntryList
<1>2. PICK body : body = FlattenSeq([i \in DOMAIN entries |-> EntryUnits(entries[i])])
  OBVIOUS
<1>3. PICK U : U = ArchiveUnits(entries)
  OBVIOUS
<1>4. /\ body \in Seq(U) /\ Len(body) = m
      /\ \A i \in 1 .. n + 1 : LocalOffset(entries, i) \in Nat
      /\ \A i \in 1 .. n :
            /\ LocalOffset(entries, i) + 1 + Len(entries[i].data) <= m
            /\ body[LocalOffset(entries, i) + 1] = EntryUnits(entries[i])[1]
            /\ \A d \in 1 .. Len(entries[i].data) :
                  body[LocalOffset(entries, i) + 1 + d] = entries[i].data[d]
  BY <1>2, <1>3, ArchiveLaid
<1>5. m \in Nat
  BY <1>4
<1>6. PICK rs : rs = CentralRecords(entries)
  OBVIOUS
<1>7. DOMAIN rs = 1 .. n /\ rs = [i \in 1 .. n |-> rs[i]]
  BY <1>1, <1>6 DEF CentralRecords
<1>8. PICK end : end = Eocd(0, n, n, m, 0)
  OBVIOUS
<1>9. PICK V : V = U \cup {rs[i] : i \in 1 .. n} \cup {end}
  OBVIOUS
<1>10. rs \in Seq(V) /\ Len(rs) = n
  <2>1. \A i \in 1 .. n : rs[i] \in V BY <1>9
  <2> QED BY <1>1, <1>7, <2>1
<1>11. body \in Seq(V)
  <2>1. U \subseteq V BY <1>9
  <2> QED BY <1>4, <2>1
<1>12. end \in V
  BY <1>9
<1>13. file = body \o rs \o <<end>>
  BY <1>2, <1>6, <1>8 DEF WrittenArchive
<1>14. PICK laid : laid = body \o rs
  OBVIOUS
<1>15. /\ laid \in Seq(V) /\ Len(laid) = m + n
       /\ \A k \in 1 .. m : laid[k] = body[k]
       /\ \A i \in 1 .. n : laid[m + i] = rs[i]
  <2>1. body \in Seq(V) /\ rs \in Seq(V) BY ONLY <1>10, <1>11
  <2>2. /\ laid \in Seq(V) /\ Len(laid) = Len(body) + Len(rs)
        /\ \A k \in 1 .. Len(body) : laid[k] = body[k]
        /\ \A i \in 1 .. Len(rs) : laid[Len(body) + i] = rs[i]
    BY ONLY <1>14, <2>1, Joined
  <2>3. Len(body) = m /\ Len(rs) = n BY ONLY <1>4, <1>10
  <2> QED BY ONLY <2>2, <2>3
<1>16. /\ file \in Seq(V) /\ Len(file) = m + n + 1
       /\ \A k \in 1 .. m + n : file[k] = laid[k]
       /\ file[m + n + 1] = end
  <2>1. file = laid \o <<end>> BY <1>13, <1>14
  <2>2. PICK closing : closing = <<end>> OBVIOUS
  <2>3. closing \in Seq(V) /\ Len(closing) = 1 /\ closing[1] = end BY <1>12, <2>2
  <2>4. PICK l : l = m + n /\ l \in Nat BY <1>1, <1>5
  <2>5. laid \in Seq(V) /\ l = Len(laid) BY <1>15, <2>4
  <2>6. /\ laid \o closing \in Seq(V) /\ Len(laid \o closing) = Len(laid) + Len(closing)
        /\ \A k \in 1 .. Len(laid) : (laid \o closing)[k] = laid[k]
        /\ \A i \in 1 .. Len(closing) : (laid \o closing)[Len(laid) + i] = closing[i]
    <3>1. laid \in Seq(V) BY ONLY <2>5
    <3>2. closing \in Seq(V) BY ONLY <2>3
    <3> QED BY ONLY <3>1, <3>2, Joined
  <2>7. /\ file \in Seq(V) /\ Len(file) = l + 1
        /\ \A k \in 1 .. l : file[k] = laid[k]
        /\ file[l + 1] = end
    BY ONLY <2>1, <2>2, <2>3, <2>5, <2>6
  <2> QED BY ONLY <2>4, <2>7
<1>17. \A k \in 1 .. m : file[k] = body[k]
  <2>1. \A k \in 1 .. m : k \in 1 .. m + n BY <1>1, <1>5
  <2> QED BY <1>15, <1>16, <2>1
<1>18. \A i \in 1 .. n : file[m + i] = rs[i]
  <2>1. \A i \in 1 .. n : m + i \in 1 .. m + n BY <1>1, <1>5
  <2> QED BY <1>15, <1>16, <2>1
<1>19. ASSUME NEW i \in 1 .. n
       PROVE  /\ LocalOffset(entries, i) \in Nat
              /\ LocalOffset(entries, i) + 1 + Len(entries[i].data) <= m
              /\ Headed(file, entries, i) /\ Filled(file, entries, i)
  <2>1. Len(entries[i].data) \in Nat
    BY <1>1, EntryUnitsType
  <2>2. PICK at \in Nat : at = LocalOffset(entries, i)
    <3>1. i \in 1 .. n + 1 BY <1>1
    <3> QED BY <1>4, <3>1
  <2>3. PICK size \in Nat : size = Len(entries[i].data) BY <2>1
  <2>4. at + 1 + size <= m BY <1>4, <2>2, <2>3
  <2>5. at + 1 \in 1 .. m BY <1>5, <2>4
  <2>6. file[at + 1] = EntryUnits(entries[i])[1] BY <1>4, <1>17, <2>2, <2>5
  <2>7. ASSUME NEW d \in 1 .. size PROVE file[at + 1 + d] = entries[i].data[d]
    <3>1. at + 1 + d \in 1 .. m BY <1>5, <2>4
    <3> QED BY <1>4, <1>17, <2>2, <2>3, <3>1
  <2> QED BY <2>1, <2>2, <2>3, <2>4, <2>6, <2>7 DEF Headed, Filled
<1> QED BY <1>1, <1>5, <1>6, <1>8, <1>16, <1>18, <1>19

\* The end record that is found is the one written, whatever the entries hold.
LEMMA ArchiveEnd ==
    ASSUME NEW entries \in EntryList, NEW m, m = DataEnd(entries),
           NEW n, n = Len(entries), NEW file, file = WrittenArchive(entries)
    PROVE  EocdOffsets(file) # {} /\ EocdOffset(file) = m + n
<1>1. /\ m \in Nat /\ n \in Nat /\ Len(file) = m + n + 1
      /\ file[m + n + 1] = Eocd(0, n, n, m, 0)
  BY ArchiveParts
<1>2. PICK O : O = EocdOffsets(file)
  OBVIOUS
<1>3. m + n \in O
  <2>1. file[m + n + 1].is = "eocd" /\ file[m + n + 1].comment = 0 BY <1>1 DEF Eocd
  <2>2. m + n \in Larger(0, Len(file) - 1 - MaxComment) .. Len(file) - 1
    BY <1>1, FieldsAssumption DEF Larger
  <2>3. m + n + 1 + file[m + n + 1].comment = Len(file) BY <1>1, <2>1
  <2> QED BY <1>2, <2>1, <2>2, <2>3 DEF EocdOffsets
<1>4. \A p \in O : p \in Int /\ p <= m + n
  <2>1. ASSUME NEW p \in O PROVE p \in Int /\ p <= m + n
    <3>1. p \in Larger(0, Len(file) - 1 - MaxComment) .. Len(file) - 1
      BY <1>2 DEF EocdOffsets
    <3> QED BY <1>1, <3>1, FieldsAssumption DEF Larger
  <2> QED BY <2>1
<1>5. PICK o : o = EocdOffset(file)
  OBVIOUS
<1>6. o \in O /\ \A p \in O : p <= o
  BY <1>2, <1>3, <1>4, <1>5 DEF EocdOffset
<1>7. o = m + n
  BY <1>1, <1>3, <1>4, <1>6
<1> QED BY <1>2, <1>3, <1>5, <1>7

\* The directory that is read is the one written.
LEMMA ArchiveRecords ==
    ASSUME NEW entries \in EntryList, NEW file, file = WrittenArchive(entries)
    PROVE  Records(file) = CentralRecords(entries)
<1>1. PICK m, n : m = DataEnd(entries) /\ n = Len(entries)
  OBVIOUS
<1>2. /\ m \in Nat /\ n \in Nat /\ Len(file) = m + n + 1
      /\ \A i \in 1 .. n : file[m + i] = CentralRecords(entries)[i]
      /\ file[m + n + 1] = Eocd(0, n, n, m, 0)
  BY <1>1, ArchiveParts
<1>3. PICK V : file \in Seq(V)
  BY <1>1, ArchiveParts
<1>4. EocdOffset(file) = m + n
  BY <1>1, ArchiveEnd
<1>5. Records(file) = Bytes(file, m, n)
  <2>1. PICK end : end = file[EocdOffset(file) + 1] OBVIOUS
  <2>2. end.at = m /\ end.size = n BY <1>2, <1>4, <2>1 DEF Eocd
  <2> QED BY <2>1, <2>2 DEF Records, Bytes
<1>6. /\ Bytes(file, m, n) \in Seq(V) /\ Len(Bytes(file, m, n)) = n
      /\ \A k \in 1 .. n : Bytes(file, m, n)[k] = file[m + k]
  <2>1. m + n <= Len(file) /\ m \in Nat /\ n \in Nat BY <1>2
  <2> QED BY ONLY <1>3, <2>1, BytesType
<1>7. DOMAIN CentralRecords(entries) = 1 .. n
  BY <1>1 DEF CentralRecords, EntryList
<1>8. PICK a, b : a = Bytes(file, m, n) /\ b = CentralRecords(entries)
  OBVIOUS
<1>9. b = [i \in 1 .. n |-> b[i]]
  BY <1>7, <1>8 DEF CentralRecords
<1>10. \A k \in 1 .. n : a[k] = b[k]
  BY <1>2, <1>6, <1>8
<1>11. a = [i \in 1 .. n |-> a[i]]
  BY <1>2, <1>6, <1>8
<1>12. a = b
  BY <1>9, <1>10, <1>11
<1> QED BY <1>5, <1>8, <1>12

\* No record of the directory is refused.
LEMMA ArchiveRecordHolds ==
    ASSUME NEW entries, Fits(entries), NEW file, file = WrittenArchive(entries),
           NEW i \in DOMAIN entries, NEW r, r = CentralRecords(entries)[i]
    PROVE  /\ r.is = "central" /\ r.name = entries[i].name
           /\ r.name \notin DirectoryNames
           /\ r.method = "stored" /\ r.crc = entries[i].data
           /\ r.csize = Len(entries[i].data) /\ r.usize = Len(entries[i].data)
           /\ r.at = LocalOffset(entries, i)
           /\ file[r.at + 1].extra = 0
           /\ ~ EntryRefused(file, r)
<1>1. PICK m, n : m = DataEnd(entries) /\ n = Len(entries)
  OBVIOUS
<1>2. entries \in EntryList /\ i \in 1 .. n
  BY <1>1 DEF Fits, EntryList
<1>3. PICK size : size = Len(entries[i].data)
  OBVIOUS
<1>4. PICK at : at = LocalOffset(entries, i)
  OBVIOUS
<1>5. /\ m \in Nat /\ n \in Nat /\ Len(file) = m + n + 1 /\ at \in Nat /\ at + 1 + size <= m
      /\ file[at + 1] = Local(entries[i].name, "stored", {}, entries[i].data, size, size, 0)
  <2>1. /\ m \in Nat /\ n \in Nat /\ Len(file) = m + n + 1
        /\ LocalOffset(entries, i) \in Nat
        /\ LocalOffset(entries, i) + 1 + Len(entries[i].data) <= m
        /\ Headed(file, entries, i)
    <3>1. /\ m \in Nat /\ n \in Nat /\ Len(file) = m + n + 1
          /\ \A k \in 1 .. n :
                /\ LocalOffset(entries, k) \in Nat
                /\ LocalOffset(entries, k) + 1 + Len(entries[k].data) <= m
                /\ Headed(file, entries, k)
      <4>1. file = WrittenArchive(entries) OBVIOUS
      <4>2. entries \in EntryList /\ m = DataEnd(entries) /\ n = Len(entries) BY <1>1, <1>2
      <4>3. m \in Nat /\ n \in Nat /\ Len(file) = m + n + 1
        BY ONLY <4>1, <4>2, ArchiveParts
      <4>4. \A k \in 1 .. n : Headed(file, entries, k)
        BY ONLY <4>1, <4>2, ArchiveParts
      <4>5. \A k \in 1 .. n :
                /\ LocalOffset(entries, k) \in Nat
                /\ LocalOffset(entries, k) + 1 + Len(entries[k].data) <= m
        BY ONLY <4>1, <4>2, ArchiveParts
      <4> QED BY ONLY <4>3, <4>4, <4>5
    <3> QED BY <1>2, <3>1
  <2>2. EntryUnits(entries[i])[1] =
          Local(entries[i].name, "stored", {}, entries[i].data,
                Len(entries[i].data), Len(entries[i].data), 0)
    BY <1>2, EntryUnitsType
  <2> QED BY <1>3, <1>4, <2>1, <2>2 DEF Headed
<1>6. size \in Nat
  BY <1>2, <1>3, EntryUnitsType
<1>7. r = Central(entries[i].name, "stored", {}, entries[i].data, size, size, 0, at)
  BY <1>3, <1>4 DEF CentralRecords
<1>8. /\ r.is = "central" /\ r.name = entries[i].name /\ r.flags = {} /\ r.disk = 0
      /\ r.method = "stored" /\ r.crc = entries[i].data /\ r.csize = size
      /\ r.usize = size /\ r.at = at
  BY <1>7 DEF Central
<1>9. PICK h : h = file[at + 1]
  OBVIOUS
<1>10. /\ h.is = "local" /\ h.flags = {} /\ h.method = "stored" /\ h.name = entries[i].name
       /\ h.crc = entries[i].data /\ h.csize = size /\ h.usize = size /\ h.extra = 0
  BY <1>5, <1>9 DEF Local
<1>11. entries[i].name \notin DirectoryNames \cup InvalidNames
  BY DEF Fits, WriterRefuses
<1>12. ~ LocalRefused(file, r)
  <2>1. at < Len(file) /\ at + 1 + 0 + size <= Len(file) BY <1>5, <1>6
  <2>2. ~ (at >= Len(file)) /\ ~ (at + 1 + h.extra + size > Len(file))
    BY <1>5, <1>6, <1>10, <2>1
  <2>3. PICK a, c, l, extra : /\ a = r.at /\ c = r.csize /\ l = Len(file) /\ extra = h.extra
    OBVIOUS
  <2>4. ~ (a >= l) /\ ~ (a + 1 + extra + c > l) BY <1>8, <2>2, <2>3
  <2>5. h = file[r.at + 1] BY <1>8, <1>9
  <2>6. /\ h.is = "local" /\ "encrypted" \notin h.flags /\ h.method = r.method
        /\ h.name = r.name
        /\ <<h.crc, h.csize, h.usize>> = <<r.crc, r.csize, r.usize>>
    BY <1>8, <1>10
  <2> QED BY <2>3, <2>4, <2>5, <2>6 DEF LocalRefused
<1>13. MaxField \notin {size, at}
  <2>1. size # MaxField BY <1>3 DEF Fits
  <2>2. m <= MaxField BY <1>1, <1>5, FieldsAssumption DEF Fits, WriterRefuses
  <2>3. at < m BY <1>5, <1>6
  <2> QED BY <1>5, <2>1, <2>2, <2>3, FieldsAssumption
<1>14. ~ EntryRefused(file, r)
  BY <1>8, <1>11, <1>12, <1>13 DEF EntryRefused
<1> QED BY <1>3, <1>4, <1>8, <1>9, <1>10, <1>11, <1>14

\* The directory and its end are taken.
LEMMA ArchiveAccepted ==
    ASSUME NEW entries, Fits(entries), NEW file, file = WrittenArchive(entries)
    PROVE  ~ PackageRefused(file)
<1>1. PICK m, n : m = DataEnd(entries) /\ n = Len(entries)
  OBVIOUS
<1>2. entries \in EntryList
  BY DEF Fits
<1>3. /\ m \in Nat /\ n \in Nat /\ Len(file) = m + n + 1
      /\ file[m + n + 1] = Eocd(0, n, n, m, 0)
  BY <1>1, <1>2, ArchiveParts
<1>4. PICK V : file \in Seq(V)
  BY <1>1, <1>2, ArchiveParts
<1>5. EocdOffsets(file) # {} /\ EocdOffset(file) = m + n
  BY <1>1, <1>2, ArchiveEnd
<1>6. PICK end : end = file[m + n + 1]
  OBVIOUS
<1>7. end.disk = 0 /\ end.count = n /\ end.size = n /\ end.at = m
  BY <1>3, <1>6 DEF Eocd
<1>8. ~ EocdRefused(m + n, end)
  <2>1. MaxField \notin {n, m} BY <1>1 DEF Fits
  <2> QED BY <1>3, <1>7, <2>1 DEF EocdRefused
<1>9. PICK rs : rs = Records(file) /\ rs = CentralRecords(entries)
  BY <1>2, ArchiveRecords
<1>10. DOMAIN rs = DOMAIN entries
  BY <1>9 DEF CentralRecords
<1>11. ASSUME NEW i \in DOMAIN rs
       PROVE  /\ rs[i].is = "central" /\ rs[i].name \notin DirectoryNames
              /\ rs[i].name = entries[i].name
              /\ ~ EntryRefused(file, rs[i])
  BY <1>9, <1>10, ArchiveRecordHolds
<1>12. ASSUME NEW i \in DOMAIN rs, NEW j \in 1 .. i - 1 PROVE rs[j].name # rs[i].name
  <2>1. j \in DOMAIN rs
    <3>1. DOMAIN rs = 1 .. n BY <1>1, <1>2, <1>10 DEF EntryList
    <3> QED BY <1>3, <3>1
  <2>2. entries[j].name # entries[i].name BY <1>10 DEF Fits, WriterRefuses
  <2> QED BY <1>11, <2>1, <2>2
<1>13. ~ RecordsRefused(file, rs)
  BY <1>11, <1>12 DEF RecordsRefused
<1>14. file # << >>
  <2>1. Len(file) # 0 BY <1>3
  <2> QED BY <2>1
<1>15. file # Gone
  BY DEF Fits
<1> QED BY <1>3, <1>5, <1>6, <1>7, <1>8, <1>9, <1>13, <1>14, <1>15 DEF PackageRefused

\* It opens, and lists each entry with what it holds.
LEMMA ArchiveIntact ==
    ASSUME NEW entries, Fits(entries), NEW file, file = WrittenArchive(entries)
    PROVE  /\ EntriesOf(file) = {ListedEntry(entries, i) : i \in DOMAIN entries}
           /\ Intact(file)
<1>1. PICK m, n : m = DataEnd(entries) /\ n = Len(entries)
  OBVIOUS
<1>2. entries \in EntryList /\ DOMAIN entries = 1 .. n
  BY <1>1 DEF Fits, EntryList
<1>3. PICK rs : rs = Records(file) /\ rs = CentralRecords(entries)
  BY <1>2, ArchiveRecords
<1>4. DOMAIN rs = 1 .. n
  BY <1>2, <1>3 DEF CentralRecords
<1>5. ASSUME NEW i \in 1 .. n
      PROVE  /\ rs[i].name \notin DirectoryNames
             /\ [name |-> rs[i].name, method |-> rs[i].method, crc |-> rs[i].crc,
                 csize |-> rs[i].csize, usize |-> rs[i].usize,
                 at |-> rs[i].at + 1 + file[rs[i].at + 1].extra] = ListedEntry(entries, i)
  <2>1. /\ rs[i].name = entries[i].name
        /\ rs[i].name \notin DirectoryNames
        /\ rs[i].method = "stored" /\ rs[i].crc = entries[i].data
        /\ rs[i].csize = Len(entries[i].data) /\ rs[i].usize = Len(entries[i].data)
        /\ rs[i].at = LocalOffset(entries, i)
        /\ file[rs[i].at + 1].extra = 0
    <3>1. PICK q : q = rs[i] OBVIOUS
    <3>2. q = CentralRecords(entries)[i] /\ i \in DOMAIN entries BY <1>2, <1>3, <3>1
    <3>3. /\ q.name = entries[i].name /\ q.name \notin DirectoryNames
          /\ q.method = "stored" /\ q.crc = entries[i].data
          /\ q.csize = Len(entries[i].data) /\ q.usize = Len(entries[i].data)
          /\ q.at = LocalOffset(entries, i)
          /\ file[q.at + 1].extra = 0
      BY <3>2, ArchiveRecordHolds
    <3> QED BY <3>1, <3>3
  <2>2. LocalOffset(entries, i) \in Nat BY <1>1, <1>2, ArchiveParts
  <2>3. rs[i].at + 1 + file[rs[i].at + 1].extra = LocalOffset(entries, i) + 1
    BY <2>1, <2>2
  <2> QED BY <2>1, <2>3 DEF ListedEntry
<1>6. EntriesOf(file) = {ListedEntry(entries, i) : i \in DOMAIN entries}
  <2>1. {q \in Range(rs) : q.name \notin DirectoryNames} = {rs[i] : i \in 1 .. n}
    BY <1>4, <1>5 DEF Range
  <2> QED BY <1>2, <1>3, <1>5, <2>1 DEF EntriesOf
<1>7. ASSUME NEW i \in 1 .. n, NEW e, e = ListedEntry(entries, i)
      PROVE  /\ e.method = "stored" /\ e.csize = e.usize /\ e.name = entries[i].name
             /\ e.at + e.csize <= Len(file) /\ Bytes(file, e.at, e.csize) = e.crc
  <2>1. PICK size, at, data : /\ size = Len(entries[i].data) /\ data = entries[i].data
                              /\ at = LocalOffset(entries, i)
    OBVIOUS
  <2>2. /\ m \in Nat /\ n \in Nat /\ Len(file) = m + n + 1 /\ at \in Nat
        /\ at + 1 + size <= m
        /\ \A d \in 1 .. size : file[at + 1 + d] = data[d]
    <3>1. /\ m \in Nat /\ n \in Nat /\ Len(file) = m + n + 1
          /\ LocalOffset(entries, i) \in Nat
          /\ LocalOffset(entries, i) + 1 + Len(entries[i].data) <= m
          /\ Filled(file, entries, i)
      <4>1. file = WrittenArchive(entries) /\ i \in 1 .. n OBVIOUS
      <4>2. entries \in EntryList /\ m = DataEnd(entries) /\ n = Len(entries) BY <1>1, <1>2
      <4>3. m \in Nat /\ n \in Nat /\ Len(file) = m + n + 1
        BY ONLY <4>1, <4>2, ArchiveParts
      <4>4. \A k \in 1 .. n : Filled(file, entries, k)
        BY ONLY <4>1, <4>2, ArchiveParts
      <4>5. \A k \in 1 .. n :
                /\ LocalOffset(entries, k) \in Nat
                /\ LocalOffset(entries, k) + 1 + Len(entries[k].data) <= m
        BY ONLY <4>1, <4>2, ArchiveParts
      <4> QED BY ONLY <4>1, <4>3, <4>4, <4>5
    <3> QED BY <2>1, <3>1 DEF Filled
  <2>3. PICK V : file \in Seq(V) BY <1>1, <1>2, ArchiveParts
  <2>4. data \in Seq(Units) /\ size \in Nat /\ size = Len(data)
    <3>1. PICK D : D = [name : STRING, data : Seq(Units)] OBVIOUS
    <3>2. entries \in Seq(D) BY <1>2, <3>1 DEF EntryList
    <3>3. entries[i] \in D
      <4>1. i \in DOMAIN entries BY <1>2
      <4> QED BY ONLY <3>2, <4>1
    <3>4. data \in Seq(Units) BY <2>1, <3>1, <3>3
    <3> QED BY <2>1, <3>4
  <2>5. PICK from \in Nat : from = at + 1 BY <2>2
  <2>6. from + size <= Len(file) BY <2>2, <2>4, <2>5
  <2>7. /\ Bytes(file, from, size) \in Seq(V) /\ Len(Bytes(file, from, size)) = size
        /\ \A k \in 1 .. size : Bytes(file, from, size)[k] = file[from + k]
    <3>1. file \in Seq(V) /\ from \in Nat BY <2>3
    <3>2. size \in Nat BY <2>4
    <3> QED BY ONLY <2>6, <3>1, <3>2, BytesType
  <2>8. PICK read : read = Bytes(file, from, size) OBVIOUS
  <2>9. read = data
    <3>1. \A k \in 1 .. size : read[k] = data[k] BY <2>2, <2>5, <2>7, <2>8
    <3>2. PICK W : W = V \cup Units OBVIOUS
    <3>3. read \in Seq(W) /\ data \in Seq(W) BY <2>4, <2>7, <2>8, <3>2
    <3> QED BY <2>4, <2>7, <2>8, <3>1, <3>3, SeqEqual
  <2>10. /\ e.method = "stored" /\ e.csize = size /\ e.usize = size /\ e.at = from
         /\ e.crc = data /\ e.name = entries[i].name
    BY <1>7, <2>1, <2>5 DEF ListedEntry
  <2> QED BY <2>6, <2>8, <2>9, <2>10
<1>8. ~ OpenRefused(file)
  <2>1. ~ PackageRefused(file) BY ArchiveAccepted
  <2>2. PICK types \in 1 .. n : entries[types].name = ContentTypes BY <1>2 DEF Fits
  <2>3. ListedEntry(entries, types) \in Named(EntriesOf(file), ContentTypes)
    BY <1>2, <1>6, <1>7, <2>2 DEF Named
  <2>4. ASSUME NEW e \in Named(EntriesOf(file), ContentTypes) PROVE EntryBytes(file, e) # {}
    <3>1. PICK i \in 1 .. n : e = ListedEntry(entries, i) BY <1>2, <1>6 DEF Named
    <3>2. e.method = "stored" /\ Bytes(file, e.at, e.csize) = e.crc BY <1>7, <3>1
    <3> QED BY <3>2 DEF EntryBytes
  <2> QED BY <2>1, <2>3, <2>4 DEF OpenRefused
<1>9. ASSUME NEW e \in EntriesOf(file)
      PROVE  /\ e.method = "stored" /\ e.csize = e.usize
             /\ e.at + e.csize <= Len(file) /\ Bytes(file, e.at, e.csize) = e.crc
  <2>1. PICK i \in 1 .. n : e = ListedEntry(entries, i) BY <1>2, <1>6
  <2> QED BY <1>7, <2>1
<1> QED BY <1>6, <1>8, <1>9 DEF Intact

(***************************************************************************)
(* Reading                                                                 *)
(***************************************************************************)
\* The directory lists names and checksums of the contents written.
Certified(file, written) ==
    \A e \in EntriesOf(file) : e.name \in DOMAIN written /\ e.crc = written[e.name]

\* What is listed was listed by one of the package's contents, the first one as
\* long as nobody changes files.
OpenedInv ==
    /\ changes = 0 => files.package = scene.first
    /\ reader.status = "open" =>
          \E file \in scene.packages \cup {scene.first} :
              /\ ~ OpenRefused(file) /\ reader.entries = EntriesOf(file)
              /\ changes = 0 => file = scene.first
    /\ reader.status = "refused" => reader.entries = {} /\ (changes = 0 => OpenRefused(scene.first))

\* What a call gave without an error has the checksum listed.
ResultInv ==
    result.ok => \E e \in reader.entries : result.of = e.name /\ result.data = e.crc

\* Nothing gets in the way of reading a package that is intact.
FlowInv ==
    changes = 0 /\ Intact(scene.first) =>
        /\ result.call = "read" => result.ok
        /\ feed.entry # Unset =>
              \E count \in Nat :
                  /\ count <= feed.entry.csize
                  /\ feed.taken = Bytes(scene.first, feed.entry.at, count)

ReadingInv == OpenedInv /\ ResultInv /\ FlowInv

LEMMA ReadingInit == Init => ReadingInv
<1> SUFFICES ASSUME Init PROVE ReadingInv
  OBVIOUS
<1>1. files.package = scene.first /\ reader.status = "closed"
  BY DEF Init
<1>2. feed.entry = Unset /\ ~ result.ok /\ result.call = "none"
  BY DEF Init, NoFeed, NoResult
<1> QED BY <1>1, <1>2 DEF ReadingInv, OpenedInv, ResultInv, FlowInv

\* An entry of an intact package is a range of it that is what its checksum says.
LEMMA IntactEntry ==
    ASSUME InputInv, OpenedInv, changes = 0, Intact(scene.first),
           NEW e \in reader.entries
    PROVE  /\ scene.first \in Seq(Units) /\ files.package = scene.first
           /\ scene.first # Gone
           /\ e.at \in Nat /\ e.csize \in Nat /\ e.usize = e.csize /\ e.method = "stored"
           /\ e.at + e.csize <= Len(scene.first)
           /\ Bytes(scene.first, e.at, e.csize) = e.crc
<1>1. ReaderInv /\ SceneInv
  BY DEF InputInv
<1>2. reader.status = "open"
  BY <1>1 DEF ReaderInv, OpenedInv
<1>3. reader.entries = EntriesOf(scene.first) /\ files.package = scene.first
  BY <1>2 DEF OpenedInv
<1>4. /\ e.method = "stored" /\ e.csize = e.usize
      /\ e.at + e.csize <= Len(scene.first)
      /\ Bytes(scene.first, e.at, e.csize) = e.crc
  BY <1>3 DEF Intact
<1>5. e.at \in Nat /\ e.usize \in Nat
  BY <1>1 DEF ReaderInv
<1>6. scene.first # Gone
  BY DEF Intact, OpenRefused, PackageRefused
<1>7. scene.first \in Seq(Units)
  <2>1. PICK file : file = scene.first OBVIOUS
  <2>2. scene \in Scenes BY <1>1 DEF SceneInv
  <2> QED BY <1>6, <2>1, <2>2, SceneFiles
<1> QED BY <1>3, <1>4, <1>5, <1>6, <1>7

LEMMA OpenReads == InputInv /\ ReadingInv /\ Open => ReadingInv'
<1> SUFFICES ASSUME InputInv, ReadingInv, Open PROVE ReadingInv'
  OBVIOUS
<1>1. /\ OpenedInv /\ ResultInv /\ FlowInv /\ ReaderInv /\ SceneInv /\ TaskInv
  BY DEF InputInv, ReadingInv
<1>2. /\ reader.status = "closed" /\ reader.entries = {}
      /\ UNCHANGED <<files, scene, feed, task, result, changes>>
  BY <1>1 DEF Open, ReaderInv, reading
<1>3. ~ result.ok
  BY <1>1, <1>2 DEF ResultInv
<1>4. ResultInv'
  BY <1>2, <1>3 DEF ResultInv
<1>5. feed.entry = Unset
  BY <1>1, <1>2 DEF TaskInv
<1>6. FlowInv'
  BY <1>1, <1>2 DEF FlowInv
<1>7. OpenedInv'
  <2>1. CASE OpenRefused(files.package)
    <3>1. reader' = [status |-> "refused", entries |-> {}] BY <2>1 DEF Open
    <3>2. reader'.status = "refused" /\ reader'.entries = {} BY <3>1
    <3> QED BY <1>1, <1>2, <2>1, <3>2 DEF OpenedInv
  <2>2. CASE ~ OpenRefused(files.package)
    <3>1. reader' = [status |-> "open", entries |-> EntriesOf(files.package)]
      BY <2>2 DEF Open
    <3>2. reader'.status = "open" /\ reader'.entries = EntriesOf(files.package) BY <3>1
    <3>3. PICK file : file = files.package OBVIOUS
    <3>4. file \in scene.packages \cup {scene.first} BY <1>1, <3>3 DEF SceneInv
    <3>5. changes = 0 => file = scene.first BY <1>1, <3>3 DEF OpenedInv
    <3> QED BY <1>1, <1>2, <2>2, <3>2, <3>3, <3>4, <3>5 DEF OpenedInv
  <2> QED BY <2>1, <2>2
<1> QED BY <1>4, <1>6, <1>7 DEF ReadingInv

\* A call that begins has nothing taken.
LEMMA BeginningReads ==
    ASSUME InputInv, ReadingInv, NEW call, Begins(call),
           UNCHANGED <<scene, reader, changes>>,
           files'.package = files.package,
           \/ UNCHANGED feed
           \/ \E e \in reader.entries : feed' = [NoFeed EXCEPT !.entry = e]
    PROVE  ReadingInv'
<1>1. OpenedInv /\ ResultInv /\ FlowInv /\ ReaderInv /\ SceneInv /\ TaskInv
  BY DEF InputInv, ReadingInv
<1>2. ~ result'.ok /\ result'.call = "none"
  BY DEF Begins, NoResult
<1>3. ResultInv'
  BY <1>2 DEF ResultInv
<1>4. OpenedInv'
  BY <1>1 DEF OpenedInv
<1>5. FlowInv'
  <2>1. CASE UNCHANGED feed BY <1>1, <1>2, <2>1 DEF FlowInv
  <2>2. ASSUME NEW e \in reader.entries, feed' = [NoFeed EXCEPT !.entry = e]
        PROVE  FlowInv'
    <3>1. feed'.entry = e /\ feed'.taken = << >> BY <2>2 DEF NoFeed
    <3>2. ASSUME changes = 0, Intact(scene.first)
          PROVE  \E count \in Nat : /\ count <= e.csize
                                    /\ << >> = Bytes(scene.first, e.at, count)
      <4>1. scene.first \in Seq(Units) /\ e.at \in Nat /\ e.csize \in Nat
        BY <1>1, <2>2, <3>2, IntactEntry
      <4>2. Bytes(scene.first, e.at, 0) = << >> BY <4>1 DEF Bytes
      <4> QED BY <4>1, <4>2
    <3> QED BY <1>2, <3>1, <3>2 DEF FlowInv
  <2> QED BY <2>1, <2>2
<1> QED BY <1>3, <1>4, <1>5 DEF ReadingInv

\* What is taken next continues what was taken.
LEMMA TakeReads == InputInv /\ ExtractionInv /\ ReadingInv /\ Take => ReadingInv'
<1> SUFFICES ASSUME InputInv, ExtractionInv, ReadingInv, Take PROVE ReadingInv'
  OBVIOUS
<1>1. OpenedInv /\ ResultInv /\ FlowInv /\ ReaderInv /\ SceneInv /\ TaskInv
      /\ FileStore /\ FeedStore
  BY DEF InputInv, ReadingInv, ExtractionInv
<1>2. UNCHANGED <<scene, reader, result, changes>> /\ feed.entry # Unset
  BY DEF Take, Streaming
<1>3. files'.package = files.package
  BY <1>1 DEF Take, FileStore
<1>4. OpenedInv' /\ ResultInv'
  BY <1>1, <1>2, <1>3 DEF OpenedInv, ResultInv
<1>5. PICK data \in NextBytes : feed' = [feed EXCEPT !.taken = @ \o data]
  BY DEF Take
<1>6. feed'.entry = feed.entry /\ feed'.taken = feed.taken \o data
  BY <1>1, <1>5 DEF FeedStore
<1>7. ASSUME changes = 0, Intact(scene.first)
      PROVE  \E count \in Nat :
                /\ count <= feed.entry.csize
                /\ feed.taken \o data = Bytes(scene.first, feed.entry.at, count)
  <2>1. PICK e \in reader.entries : e = feed.entry BY <1>1, <1>2 DEF TaskInv
  <2>2. PICK first : first = scene.first OBVIOUS
  <2>3. /\ first \in Seq(Units) /\ files.package = first
        /\ e.at \in Nat /\ e.csize \in Nat /\ e.method = "stored"
        /\ e.at + e.csize <= Len(first)
    BY <1>1, <1>7, <2>1, <2>2, IntactEntry
  <2>4. PICK done \in Nat : done <= e.csize /\ feed.taken = Bytes(first, e.at, done)
    BY <1>1, <1>2, <1>7, <2>1, <2>2 DEF FlowInv
  <2>5. Len(feed.taken) = done
    <3>1. e.at + done <= Len(first) BY <2>3, <2>4
    <3> QED BY <2>3, <2>4, <3>1, BytesType
  <2>6. PICK count : count = Smaller(e.csize - done, BufferSize) OBVIOUS
  <2>7. count \in Nat /\ done + count <= e.csize
    BY <2>3, <2>4, <2>6, BufferAssumption DEF Smaller
  <2>8. data = Bytes(first, done + e.at, count)
    BY <1>5, <2>1, <2>2, <2>3, <2>5, <2>6 DEF NextBytes, StreamLength
  <2>9. PICK upto \in Nat : upto = done + count BY <2>7
  <2>10. e.at + done + count <= Len(first) BY <2>3, <2>4, <2>7
  <2>11. Bytes(first, e.at, done) \o Bytes(first, e.at + done, count)
           = Bytes(first, e.at, done + count)
    BY <2>3, <2>4, <2>7, <2>10, BytesMeet
  <2>12. done + e.at = e.at + done BY <2>3, <2>4
  <2>13. feed.taken \o data = Bytes(first, e.at, upto)
    BY <2>4, <2>8, <2>9, <2>11, <2>12
  <2> QED BY <2>1, <2>2, <2>7, <2>9, <2>13
<1>8. FlowInv'
  BY <1>1, <1>2, <1>6, <1>7 DEF FlowInv
<1> QED BY <1>4, <1>8 DEF ReadingInv

\* A call that ends well has read what the directory lists.
LEMMA EndingReads ==
    ASSUME InputInv, ReadingInv, NEW ok, Ends(ok), feed.entry # Unset,
           UNCHANGED <<scene, reader, changes>>, files'.package = files.package,
           ok => feed.taken = feed.entry.crc,
           changes = 0 /\ Intact(scene.first) /\ task = "read" => ok
    PROVE  ReadingInv'
<1>1. OpenedInv /\ ResultInv /\ FlowInv /\ TaskInv
  BY DEF InputInv, ReadingInv
<1>2. feed'.entry = Unset
  BY DEF Ends, NoFeed
<1>3. /\ result'.of = feed.entry.name /\ result'.call = task /\ result'.ok = ok
      /\ ok => result'.data = feed.taken
  BY DEF Ends
<1>4. ResultInv'
  BY <1>1, <1>3 DEF TaskInv, ResultInv
<1>5. OpenedInv'
  BY <1>1 DEF OpenedInv
<1>6. FlowInv'
  BY <1>2, <1>3 DEF FlowInv
<1> QED BY <1>4, <1>5, <1>6 DEF ReadingInv

\* An entry of an intact package is read to its end.
LEMMA IntactReads ==
    ASSUME InputInv, ExtractionInv, ReadingInv, FailEntry, changes = 0,
           Intact(scene.first), task = "read"
    PROVE  FALSE
<1>1. OpenedInv /\ FlowInv /\ TaskInv
  BY DEF InputInv, ReadingInv
<1>2. feed.entry # Unset
  BY DEF FailEntry
<1>3. PICK e \in reader.entries : e = feed.entry
  BY <1>1, <1>2 DEF TaskInv
<1>4. PICK first : first = scene.first
  OBVIOUS
<1>5. /\ first \in Seq(Units) /\ files.package = first /\ first # Gone
      /\ e.at \in Nat /\ e.csize \in Nat /\ e.usize = e.csize /\ e.method = "stored"
      /\ e.at + e.csize <= Len(first) /\ Bytes(first, e.at, e.csize) = e.crc
  BY <1>1, <1>3, <1>4, IntactEntry
<1>6. PICK done \in Nat : done <= e.csize /\ feed.taken = Bytes(first, e.at, done)
  BY <1>1, <1>2, <1>3, <1>4 DEF FlowInv
<1>7. Len(feed.taken) = done
  <2>1. e.at + done <= Len(first) BY <1>5, <1>6
  <2> QED BY <1>5, <1>6, <2>1, BytesType
<1>8. Streaming
  BY <1>2, <1>3, <1>5 DEF Streaming
<1>9. StreamLength = e.csize
  BY <1>3, <1>5 DEF StreamLength
<1>10. CASE Ended
  <2>1. done = e.csize BY <1>7, <1>9, <1>10 DEF Ended
  <2>2. feed.taken = e.crc /\ Len(feed.taken) = e.usize BY <1>5, <1>6, <1>7, <2>1
  <2>3. Confirmed BY <1>3, <2>2 DEF Confirmed
  <2> QED BY <1>8, <1>10, <2>3 DEF FailEntry
<1>11. CASE ~ Ended
  <2>1. PICK count : count = Smaller(e.csize - done, BufferSize) OBVIOUS
  <2>2. count \in Nat /\ done + count <= e.csize
    BY <1>5, <1>6, <2>1, BufferAssumption DEF Smaller
  <2>3. PICK from \in Nat : from = done + e.at BY <1>5, <1>6
  <2>4. from + count <= Len(first) BY <1>5, <1>6, <2>2, <2>3
  <2>5. PICK data : data = Bytes(first, from, count) OBVIOUS
  <2>6. data \in NextBytes
    BY <1>3, <1>5, <1>7, <1>9, <2>1, <2>3, <2>4, <2>5 DEF NextBytes
  <2>7. Len(data) = count BY <1>5, <2>2, <2>3, <2>4, <2>5, BytesType
  <2>8. TakesBytes(data) BY <1>3, <1>5, <1>7, <2>2, <2>7 DEF TakesBytes
  <2> QED BY <1>8, <1>11, <2>6, <2>8 DEF FailEntry
<1> QED BY <1>10, <1>11

LEMMA ReadingStep == InputInv /\ ExtractionInv /\ ReadingInv /\ [Next]_vars => ReadingInv'
<1> SUFFICES ASSUME InputInv, ExtractionInv, ReadingInv, [Next]_vars PROVE ReadingInv'
  OBVIOUS
<1>0. /\ OpenedInv /\ ResultInv /\ FlowInv /\ TaskInv
      /\ FileStore /\ FeedStore
  BY DEF InputInv, ReadingInv, ExtractionInv
<1>1. ASSUME UNCHANGED <<scene, reader, result, changes>>, files'.package = files.package,
             feed'.entry = feed.entry, feed'.taken = feed.taken
      PROVE  ReadingInv'
  BY <1>0, <1>1 DEF ReadingInv, OpenedInv, ResultInv, FlowInv
<1>2. CASE Open
  BY <1>2, OpenReads
<1>3. ASSUME NEW e \in reader.entries, ReadEntry(e) PROVE ReadingInv'
  BY <1>3, BeginningReads DEF ReadEntry
<1>4. ASSUME NEW e \in reader.entries, ExtractEntry(e) PROVE ReadingInv'
  <2>1. files'.package = files.package BY <1>0, <1>4 DEF ExtractEntry, FileStore
  <2> QED BY <1>4, <2>1, BeginningReads DEF ExtractEntry
<1>5. ASSUME NEW sequence, Stage(sequence) PROVE ReadingInv'
  BY <1>5, BeginningReads DEF Stage
<1>6. ASSUME NEW e \in reader.entries, StageEntry(e) PROVE ReadingInv'
  BY <1>5, <1>6 DEF StageEntry
<1>7. ASSUME NEW rewrites \in scene.patches, Patch(rewrites) PROVE ReadingInv'
  BY <1>7, BeginningReads DEF Patch
<1>8. CASE OpenReplay
  BY <1>8, BeginningReads DEF OpenReplay
<1>9. CASE OpenStream
  <2>1. feed'.entry = feed.entry /\ feed'.taken = feed.taken
    BY <1>0, <1>9 DEF OpenStream, FeedStore
  <2> QED BY <1>1, <1>9, <2>1 DEF OpenStream
<1>10. CASE Take
  BY <1>10, TakeReads
<1>11. CASE FinishRead
  <2>1. feed.taken = feed.entry.crc BY <1>11 DEF FinishRead, Confirmed
  <2>2. feed.entry # Unset BY <1>11 DEF FinishRead, Streaming
  <2> QED BY <1>11, <2>1, <2>2, EndingReads DEF FinishRead
<1>12. CASE FailEntry
  <2>1. files'.package = files.package
    <3>1. CASE task = "extract"
      <4>1. WithoutTemporary(files) BY <1>12, <3>1 DEF FailEntry
      <4> QED BY <1>0, <4>1 DEF WithoutTemporary, FileStore
    <3>2. CASE task # "extract" BY <1>12, <3>2 DEF FailEntry
    <3> QED BY <3>1, <3>2
  <2>2. ~ (changes = 0 /\ Intact(scene.first) /\ task = "read") BY <1>12, IntactReads
  <2>3. Ends(FALSE) /\ feed.entry # Unset /\ UNCHANGED <<scene, reader, changes>>
    BY <1>12 DEF FailEntry
  <2> QED BY <2>1, <2>2, <2>3, EndingReads
<1>13. CASE Commit
  <2>1. files'.package = files.package BY <1>0, <1>13 DEF Commit, FileStore
  <2>2. feed.taken = feed.entry.crc /\ feed.entry # Unset
    BY <1>13 DEF Commit, Confirmed, Streaming
  <2>3. Ends(TRUE) /\ UNCHANGED <<scene, reader, changes>> BY <1>13 DEF Commit
  <2> QED BY <2>1, <2>2, <2>3, EndingReads
<1>14. CASE CommitFails
  <2>1. files'.package = files.package
    BY <1>0, <1>14 DEF CommitFails, WithoutTemporary, FileStore
  <2>2. feed.entry # Unset /\ task = "extract" BY <1>14 DEF CommitFails, Streaming
  <2>3. Ends(FALSE) /\ UNCHANGED <<scene, reader, changes>> BY <1>14 DEF CommitFails
  <2> QED BY <2>1, <2>2, <2>3, EndingReads
<1>15. CASE ReplayMemory \/ ReplayFile \/ ReplayChunkEnd
  BY <1>1, <1>15 DEF ReplayMemory, ReplayFile, ReplayChunkEnd, reading
<1>16. CASE ReplayEnd \/ ReplayFails
  BY <1>1, <1>16 DEF ReplayEnd, ReplayFails
<1>17. CASE Change
  <2>1. changes' # 0 BY <1>0, <1>17, BoundsAssumption DEF Change, TaskInv
  <2>2. UNCHANGED <<scene, reader, result>> BY <1>17 DEF Change, reading
  <2>3. OpenedInv' BY <1>0, <2>1, <2>2 DEF OpenedInv
  <2> QED BY <1>0, <2>1, <2>2, <2>3 DEF ReadingInv, ResultInv, FlowInv
<1>18. CASE UNCHANGED vars
  BY <1>1, <1>18 DEF vars, reading
<1> QED
  BY <1>2, <1>3, <1>4, <1>5, <1>6, <1>7, <1>8, <1>9, <1>10, <1>11, <1>12, <1>13, <1>14,
     <1>15, <1>16, <1>17, <1>18 DEF Next

\* An archive of write_package, of contents it can be read again with.
FromWriter(file) == \E entries : Fits(entries) /\ file = WrittenArchive(entries)

\* What is damaged in a package is anything but the names and the checksums of
\* its directory.
Genuine(s) ==
    /\ s.whole => FromWriter(s.first)
    /\ \A file \in s.packages \cup {s.first} : ~ OpenRefused(file) => Certified(file, s.written)

(***************************************************************************)
(* Theorems                                                                *)
(***************************************************************************)
\* The variables have their types; a stream is open exactly while an entry of
\* the package is read or extracted, a replay while the staged part is.
THEOREM TypeCorrect == Spec => []TypeOK
<1>1. InputInv => TypeOK
  <2> SUFFICES ASSUME InputInv PROVE TypeOK
    OBVIOUS
  <2>1. ReaderInv /\ TaskInv /\ StagedInv
    BY DEF InputInv
  <2>2. \A i \in DOMAIN chunks : chunks[i].size = Unset \/ chunks[i].size \in Nat
    <3>1. PICK cs \in Seq(Parts) : cs = chunks BY <2>1 DEF StagedInv
    <3>2. \A i \in DOMAIN cs : cs[i] \in Parts BY <3>1
    <3> QED BY <3>1, <3>2 DEF Parts, Placed, ChunksWith
  <2> QED BY <2>1, <2>2 DEF TypeOK, ReaderInv, TaskInv, StagedInv
<1> QED BY <1>1, InputInvariant, PTL

\* A part that was replayed to its end is what its chunks' checksums say, and
\* the checksums are those promised when the chunks were recorded
\* (PackageEntryChunkReader).
THEOREM ReplayPromised == Spec => []ReplayIsPromised
<1>1. InputInv => ReplayIsPromised
  <2> SUFFICES ASSUME InputInv, replay.status = "done" PROVE ReplayIsPromised
    BY DEF ReplayIsPromised
  <2>1. StagedInv /\ ReplayInv
    BY DEF InputInv
  <2>2. PICK crcs \in Seq(Seq(Units)) : crcs = replay.crcs
    BY <2>1 DEF ReplayInv, Replays
  <2>3. PICK cs \in Seq(Parts) : cs = chunks
    BY <2>1 DEF StagedInv
  <2>4. /\ replay.at = Len(cs) + 1 /\ Len(crcs) = Len(cs) /\ replay.taken = << >>
        /\ replay.read = FlattenSeq(SubSeq(crcs, 1, replay.at - 1)) \o replay.taken
        /\ \A i \in DOMAIN chunks : chunks[i].crc # Unset => crcs[i] = chunks[i].crc
    BY <2>1, <2>2, <2>3 DEF ReplayInv
  <2>5. SubSeq(crcs, 1, (Len(cs) + 1) - 1) = crcs
    BY <2>4
  <2>6. FlattenSeq(crcs) \o << >> = FlattenSeq(crcs)
    BY FlattenType, ConcatEmptySeq
  <2>7. replay.read = FlattenSeq(crcs)
    BY <2>4, <2>5, <2>6
  <2>8. \A i \in DOMAIN chunks : promised[i] # Unset => replay.crcs[i] = promised[i]
    BY <2>1, <2>2, <2>4 DEF StagedInv
  <2> QED BY <2>2, <2>7, <2>8 DEF ReplayIsPromised
<1> QED BY <1>1, InputInvariant, PTL

\* A patch of the staged part gives the part that rewriting its bytes would
\* give, cut into chunks or emitted at once (make_indexed_cell_replacement_
\* package_entry_chunks, emit_indexed_cell_replacement_from_package_entry_chunks).
THEOREM PatchesSplice == Spec => PatchIsTheSplice
<1> DEFINE A == \A rewrites \in scene.patches :
                   Patch(rewrites) =>
                      LET spliced == Spliced(Contents(chunks), rewrites)
                      IN  /\ Contents(chunks') = spliced
                          /\ PatchEmitted(chunks, Sizes(chunks, files), rewrites, files)
                               = spliced
<1>1. InputInv => A
  BY PatchSplices DEF InputInv
<1>2. InputInv /\ [Next]_vars => [A]_vars
  BY <1>1
<1>3. Spec => [][A]_vars
  <2> HIDE DEF A
  <2> QED BY <1>2, InputInvariant, PTL DEF Spec
<1> QED BY <1>3 DEF PatchIsTheSplice

\* An extraction replaces its output by the whole entry or leaves it as it
\* was, under its backup name if it could not be moved back, and leaves no
\* temporary file (extract_entry_chunks_to_file, commit_extracted_file).
THEOREM ExtractionWhole == Spec => []ExtractionIsWhole
<1>1. ExtractionInv => ExtractionIsWhole
  BY DEF ExtractionInv, LeftWhole, ExtractionIsWhole
<1> QED BY <1>1, ExtractionInit, ExtractionStep, PTL DEF Spec

\* What write_package writes, PackageReader opens: each entry is listed, at its
\* place, with the size and the checksum of its content
\* (src/zip_store_writer.cpp, src/package_reader.cpp).
THEOREM WrittenArchivesOpen ==
    ASSUME NEW entries, Fits(entries)
    PROVE  /\ ~ OpenRefused(WrittenArchive(entries))
           /\ EntriesOf(WrittenArchive(entries))
                = {ListedEntry(entries, i) : i \in DOMAIN entries}
<1>1. PICK file : file = WrittenArchive(entries)
  OBVIOUS
<1> QED BY <1>1, ArchiveIntact DEF Intact

\* Of a package whose directory has the names and checksums that were written,
\* whatever else of it was damaged before it was opened or is damaged after,
\* an entry that is read without an error has its content; and one as
\* write_package wrote it is opened and read to the end of every entry.
THEOREM ReadAsWritten == Spec => [](Genuine(scene) => PackagesReadAsWritten)
<1>1. InputInv /\ ReadingInv => (Genuine(scene) => PackagesReadAsWritten)
  <2> SUFFICES ASSUME InputInv, ReadingInv, Genuine(scene) PROVE PackagesReadAsWritten
    OBVIOUS
  <2>1. OpenedInv /\ ResultInv /\ FlowInv /\ ReaderInv
    BY DEF InputInv, ReadingInv
  <2>2. ASSUME result.ok
        PROVE  /\ result.of \in DOMAIN scene.written
               /\ result.data = scene.written[result.of]
    <3>1. PICK e \in reader.entries : result.of = e.name /\ result.data = e.crc
      BY <2>1, <2>2 DEF ResultInv
    <3>2. reader.status = "open" BY <2>1, <3>1 DEF ReaderInv, OpenedInv
    <3>3. PICK file \in scene.packages \cup {scene.first} :
             ~ OpenRefused(file) /\ reader.entries = EntriesOf(file)
      BY <2>1, <3>2 DEF OpenedInv
    <3>4. Certified(file, scene.written) BY <3>3 DEF Genuine
    <3> QED BY <3>1, <3>3, <3>4 DEF Certified
  <2>3. ASSUME scene.whole, changes = 0
        PROVE  reader.status # "refused" /\ (result.call = "read" => result.ok)
    <3>1. PICK file, entries : /\ Fits(entries) /\ file = WrittenArchive(entries)
                               /\ file = scene.first
      BY <2>3 DEF Genuine, FromWriter
    <3>2. Intact(file) BY <3>1, ArchiveIntact
    <3>3. Intact(scene.first) BY <3>1, <3>2
    <3> QED BY <2>1, <2>3, <3>3 DEF OpenedInv, FlowInv, Intact
  <2> QED BY <2>2, <2>3 DEF PackagesReadAsWritten
<1>2. Init => ReadingInv
  BY ReadingInit
<1>3. InputInv /\ ExtractionInv /\ ReadingInv /\ [Next]_vars => ReadingInv'
  BY ReadingStep
<1> QED BY <1>1, <1>2, <1>3, InputInvariant, PTL DEF Spec
=============================================================================
