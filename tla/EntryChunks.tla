---------------------------- MODULE EntryChunks ----------------------------
(***************************************************************************)
(* PackageEntryChunk and what src/package_editor.cpp does with sequences   *)
(* of them: a part waits for the next save as pieces of memory, whole      *)
(* files and ranges of files, a patch cuts such a sequence at byte offsets *)
(* without reading it, and every reader checks the pieces again.           *)
(*                                                                         *)
(* A file is a sequence of bytes, or Gone.  A CRC-32 stands for the bytes  *)
(* it is the checksum of: two different contents are told apart.           *)
(***************************************************************************)
EXTENDS Integers, Sequences, SequencesExt

CONSTANTS Gone,     \* no such file
          Unset     \* has_expected_size or has_expected_crc32 is false

Chunk(kind, data, path, ranged, offset, length) ==
    [kind |-> kind, data |-> data, path |-> path, ranged |-> ranged,
     offset |-> offset, length |-> length, size |-> Unset, crc |-> Unset]

Memory(data) ==
    [Chunk("memory", data, "", FALSE, 0, 0) EXCEPT !.size = Len(data)]
WholeFile(path) == Chunk("file", << >>, path, FALSE, 0, 0)
FileRange(path, offset, length) ==
    [Chunk("file", << >>, path, TRUE, offset, length) EXCEPT !.size = length]

\* The bytes of a file from an offset on; fewer when it ends before.
Bytes(file, offset, length) == SubSeq(file, offset + 1, offset + length)

(***************************************************************************)
(* Measuring                                                               *)
(***************************************************************************)
Measurable(c, files) ==
    /\ files[c.path] # Gone
    /\ c.ranged => c.offset + c.length <= Len(files[c.path])

PayloadOffset(c) == IF c.ranged THEN c.offset ELSE 0

PayloadSize(c, files) ==
    IF c.kind = "memory" THEN Len(c.data)
    ELSE IF c.ranged THEN c.length ELSE Len(files[c.path])

Payload(c, files) ==
    IF c.kind = "memory" THEN c.data
    ELSE Bytes(files[c.path], PayloadOffset(c), PayloadSize(c, files))

SizeHolds(c, files) ==
    /\ IF c.kind = "memory" THEN c.path = "" /\ ~c.ranged
       ELSE c.data = << >> /\ Measurable(c, files)
    /\ c.size \in {Unset, PayloadSize(c, files)}

CrcHolds(c, files) == c.crc \in {Unset, Payload(c, files)}

\* require_staged_package_entry_chunks_valid records what it has measured.
Validated(chunks, files) ==
    [i \in DOMAIN chunks |->
        [chunks[i] EXCEPT !.size = PayloadSize(chunks[i], files),
                          !.crc = Payload(chunks[i], files)]]

MeasuredOnly(chunks, files) ==
    [i \in DOMAIN chunks |->
        [chunks[i] EXCEPT !.size = PayloadSize(chunks[i], files)]]

(***************************************************************************)
(* Ranges of a chunk sequence                                              *)
(***************************************************************************)
Before(sizes, i) == FoldLeft(+, 0, SubSeq(sizes, 1, i - 1))
Total(sizes) == FoldLeft(+, 0, sizes)

Larger(a, b) == IF a < b THEN b ELSE a
Smaller(a, b) == IF a < b THEN a ELSE b

\* The chunks that [offset, offset + length) meets.
Met(sizes, offset, length) ==
    {i \in DOMAIN sizes : /\ length > 0
                          /\ Before(sizes, i) + sizes[i] > offset
                          /\ Before(sizes, i) < offset + length}

\* Mutant of Overlap: the end of the range is taken relative to the chunk.
OverlapToEnd(sizes, i, offset, length) ==
    LET from == Larger(offset, Before(sizes, i)) - Before(sizes, i)
    IN  [offset |-> from, length |-> Smaller(length, sizes[i] - from)]

\* What a chunk has in the range, relative to the chunk.
Overlap(sizes, i, offset, length) ==
    LET from == Larger(offset, Before(sizes, i))
        end == Smaller(offset + length, Before(sizes, i) + sizes[i])
    IN  [offset |-> from - Before(sizes, i), length |-> end - from]

\* Memory that follows memory is joined with it, under a new CRC.
WithMemory(chunks, data) ==
    IF data = << >> THEN chunks
    ELSE IF chunks # << >> /\ Last(chunks).kind = "memory"
         THEN LET joined == Last(chunks).data \o data
              IN  Append(Front(chunks),
                         [Memory(joined) EXCEPT !.crc = joined])
         ELSE Append(chunks, [Memory(data) EXCEPT !.crc = data])

CutOut(c, o) == FileRange(c.path, PayloadOffset(c) + o.offset, o.length)

WithPart(output, c, o) ==
    IF c.kind = "memory" THEN WithMemory(output, Bytes(c.data, o.offset, o.length))
    ELSE Append(output, CutOut(c, o))

\* append_package_entry_chunk_range_descriptors_with_layout
WithRange(output, chunks, sizes, offset, length) ==
    LET met == Met(sizes, offset, length)
        grown[n \in 0 .. Len(chunks)] ==
            IF n = 0 THEN output
            ELSE IF n \notin met THEN grown[n - 1]
            ELSE WithPart(grown[n - 1], chunks[n], Overlap(sizes, n, offset, length))
    IN  grown[Len(chunks)]

PartBytes(c, o, files) ==
    IF c.kind = "memory" THEN Bytes(c.data, o.offset, o.length)
    ELSE Bytes(files[c.path], PayloadOffset(c) + o.offset, o.length)

\* emit_package_entry_chunk_range_with_layout: the same range, read at once.
RangeBytes(chunks, sizes, offset, length, files) ==
    FlattenSeq([i \in DOMAIN chunks |->
        IF i \notin Met(sizes, offset, length) THEN << >>
        ELSE PartBytes(chunks[i], Overlap(sizes, i, offset, length), files)])

(***************************************************************************)
(* Patches: [from, to, payload], in the order of the source                *)
(***************************************************************************)
End(rewrites, n) == IF n = 0 THEN 0 ELSE rewrites[n].to

PatchRefused(sizes, rewrites) ==
    \E n \in DOMAIN rewrites :
        \/ rewrites[n].to < rewrites[n].from
        \/ rewrites[n].from < End(rewrites, n - 1)
        \/ rewrites[n].to > Total(sizes)

Sizes(chunks, files) == [i \in DOMAIN chunks |-> PayloadSize(chunks[i], files)]

\* make_indexed_cell_replacement_package_entry_chunks
Patched(chunks, sizes, rewrites) ==
    LET step[n \in 0 .. Len(rewrites)] ==
            IF n = 0 THEN << >>
            ELSE LET at == End(rewrites, n - 1)
                     kept == WithRange(step[n - 1], chunks, sizes, at,
                                       rewrites[n].from - at)
                 IN  WithMemory(kept, rewrites[n].payload)
        last == End(rewrites, Len(rewrites))
    IN  WithRange(step[Len(rewrites)], chunks, sizes, last, Total(sizes) - last)

\* emit_indexed_cell_replacement_from_package_entry_chunks
PatchEmitted(chunks, sizes, rewrites, files) ==
    LET kept(n) == RangeBytes(chunks, sizes, End(rewrites, n - 1),
                              rewrites[n].from - End(rewrites, n - 1), files)
        last == End(rewrites, Len(rewrites))
    IN  FlattenSeq([n \in DOMAIN rewrites |-> kept(n) \o rewrites[n].payload])
           \o RangeBytes(chunks, sizes, last, Total(sizes) - last, files)
=============================================================================
