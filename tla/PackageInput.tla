---------------------------- MODULE PackageInput ----------------------------
(***************************************************************************)
(* Reading what a save and a patch are made of: PackageReader opens a      *)
(* package and streams its entries into memory or into a file              *)
(* (src/package_reader.cpp), PackageEditor stages parts as chunks that     *)
(* refer to files, patches them without reading them, and replays them     *)
(* later (src/package_editor.cpp).  Somebody else may rewrite a file       *)
(* between any two reads.  A call runs to its end before the next begins,  *)
(* so at most one of them is streaming.                                    *)
(***************************************************************************)
EXTENDS ZipArchive

CONSTANTS
    Scenes,      \* [packages, first, whole, written, staged, inputs, patches, calls]:
                 \* what the package file may hold, what it holds at first,
                 \* whether that is undamaged, the content its entries were
                 \* written with, what the staged file may hold, the chunk
                 \* sequences and the rewrites handed to the editor, and a
                 \* bound on the calls
    Faults,      \* "write", "rename", "restore", "remove"
    BufferSize,  \* bytes read in one go
    MaxChanges   \* bound: rewrites of files by others

ASSUME BufferAssumption == BufferSize \in Nat \ {0}
ASSUME BoundsAssumption == MaxChanges \in Nat

\* The bytes and records of the scenes' files and chunks.
Files(s) == (s.packages \cup {s.first} \cup s.staged) \ {Gone}
Given(s) ==
    UNION {{sequence[i].data : i \in DOMAIN sequence} : sequence \in s.inputs}
    \cup UNION {{rewrites[i].payload : i \in DOMAIN rewrites} : rewrites \in s.patches}
Units == UNION {UNION {Range(data) : data \in Files(s) \cup Given(s)} : s \in Scenes}

Chunks ==
    [kind : {"memory", "file"}, data : Seq(Units), path : {"", "package", "staged"},
     ranged : BOOLEAN, offset : Nat, length : Nat,
     size : {Unset} \cup Nat, crc : {Unset} \cup Seq(Units)]

Rewrites == [from : Nat, to : Nat, payload : Seq(Units)]

\* A file chunk names a file.
ASSUME ScenesAssumption ==
    \A s \in Scenes :
        /\ s.calls \in Nat
        /\ s.staged \ {Gone} # {}
        /\ \A file \in Files(s) : file \in Seq(Units)
        /\ \A sequence \in s.inputs :
              /\ sequence \in Seq(Chunks)
              /\ \A i \in DOMAIN sequence :
                    sequence[i].kind = "file" => sequence[i].path # ""
        /\ \A rewrites \in s.patches : rewrites \in Seq(Rewrites)

\* The numbers in a record are read without a sign, and no entry is Unset.
ASSUME RecordsAssumption ==
    /\ \A u \in Units :
          /\ u.is = "local" => u.extra \in Nat
          /\ u.is = "central" => {u.at, u.csize, u.usize} \subseteq Nat
          /\ u.is = "eocd" => {u.at, u.size, u.comment} \subseteq Nat
    /\ \A s \in Scenes : \A file \in Files(s) :
          ~ PackageRefused(file) => Unset \notin EntriesOf(file)

VARIABLES
    files,     \* the package, the staged file, the extraction output, its
               \* temporary and its backup sibling
    scene,
    reader,    \* PackageReader: [status, entries]
    feed,      \* the entry being streamed: [entry, stream, taken]
    task,      \* the streaming call, or "idle"
    result,    \* what the last call that read an entry ended with
    kept,      \* the extraction output before the last extraction
    chunks,    \* the staged part
    promised,  \* what each staged chunk held when its CRC-32 was recorded
    replay,    \* PackageEntryChunkReader: [at, taken, sizes, crcs, read, status]
    calls,
    changes

vars == <<files, scene, reader, feed, task, result, kept, chunks, promised,
          replay, calls, changes>>
reading == <<feed, task, result, kept>>
staging == <<chunks, promised, replay>>

Tasks == {"idle", "read", "extract", "replay"}
NoFeed == [entry |-> Unset, stream |-> Unset, taken |-> << >>]
NoResult == [of |-> Unset, call |-> "none", ok |-> FALSE, data |-> << >>]
NoReplay == [at |-> 1, taken |-> << >>, sizes |-> << >>, crcs |-> << >>,
             read |-> << >>, status |-> "closed"]

OldOutput == <<Byte("old")>>

TypeOK ==
    /\ reader.status \in {"closed", "open", "refused"}
    /\ task \in Tasks
    /\ task \in {"read", "extract"} <=> feed.entry # Unset
    /\ feed.entry # Unset => feed.entry \in reader.entries
    /\ task = "replay" <=> replay.status = "open"
    /\ Len(promised) = Len(chunks)
    /\ \A i \in DOMAIN chunks :
          chunks[i].size = Unset \/ chunks[i].size \in Nat
    /\ calls \in 0 .. scene.calls
    /\ changes \in 0 .. MaxChanges

Init ==
    /\ scene \in Scenes
    /\ \E staged \in scene.staged \ {Gone}, output \in {Gone, OldOutput} :
          files = [package |-> scene.first, staged |-> staged, output |-> output,
                   temporary |-> Gone, backup |-> Gone]
    /\ reader = [status |-> "closed", entries |-> {}]
    /\ feed = NoFeed
    /\ task = "idle"
    /\ result = NoResult
    /\ kept = Gone
    /\ chunks = << >>
    /\ promised = << >>
    /\ replay = NoReplay
    /\ calls = 0
    /\ changes = 0

(***************************************************************************)
(* PackageReader                                                           *)
(***************************************************************************)
Open ==
    /\ reader.status = "closed"
    /\ reader' = IF OpenRefused(files.package)
                 THEN [status |-> "refused", entries |-> {}]
                 ELSE [status |-> "open", entries |-> EntriesOf(files.package)]
    /\ UNCHANGED <<files, scene, reading, staging, calls, changes>>

\* What the call before it ended with is of no use to a call.
Begins(call) ==
    /\ task = "idle" /\ calls < scene.calls
    /\ calls' = calls + 1
    /\ task' = call
    /\ result' = NoResult

ReadEntry(e) ==
    /\ reader.status = "open"
    /\ Begins("read")
    /\ feed' = [NoFeed EXCEPT !.entry = e]
    /\ kept' = Gone
    /\ replay' = NoReplay
    /\ UNCHANGED <<files, scene, reader, chunks, promised, changes>>

\* The output may not be the package, and its siblings' names must be free.
ExtractEntry(e) ==
    /\ reader.status = "open"
    /\ files.temporary = Gone
    /\ Begins("extract")
    /\ feed' = [NoFeed EXCEPT !.entry = e]
    /\ kept' = files.output
    /\ files' = [files EXCEPT !.temporary = << >>]
    /\ replay' = NoReplay
    /\ UNCHANGED <<scene, reader, chunks, promised, changes>>

\* The entry's data ends after its size in the file, or with its stream.
StreamLength ==
    IF feed.entry.method = "stored" THEN feed.entry.csize ELSE Len(feed.stream)

Ended == Len(feed.taken) = StreamLength

\* The entry minizip-ng has found must be the one the directory listed.
Matches(e, f) == f.method = "deflated" /\ f.usize = e.usize /\ f.crc = e.crc

\* The stream of a deflated entry, looked up in the file as it is now.
Streams(e) ==
    UNION {Inflated(files.package, f) :
             f \in {g \in Located(files.package, e.name) : Matches(e, g)}}

OpenStream ==
    /\ feed.entry # Unset
    /\ feed.entry.method = "deflated" /\ feed.stream = Unset
    /\ \E data \in Streams(feed.entry) : feed' = [feed EXCEPT !.stream = data]
    /\ UNCHANGED <<files, scene, reader, task, result, kept, staging, calls, changes>>

Streaming ==
    /\ feed.entry # Unset
    /\ feed.entry.method = "deflated" => feed.stream # Unset

\* The next bytes, if the file still has as many.
NextBytes ==
    LET count == Smaller(StreamLength - Len(feed.taken), BufferSize)
        source == IF feed.entry.method = "stored" THEN files.package ELSE feed.stream
        from == Len(feed.taken) +
                  (IF feed.entry.method = "stored" THEN feed.entry.at ELSE 0)
    IN  IF source # Gone /\ from + count <= Len(source)
        THEN {Bytes(source, from, count)} ELSE {}

\* The consumer takes no more than the directory announced.
TakesBytes(data) == Len(feed.taken) + Len(data) <= feed.entry.usize

Take ==
    /\ Streaming /\ ~Ended
    /\ \E data \in NextBytes :
          /\ TakesBytes(data)
          /\ feed' = [feed EXCEPT !.taken = @ \o data]
          /\ files' = IF task = "extract"
                      THEN [files EXCEPT !.temporary = @ \o data] ELSE files
    /\ UNCHANGED <<scene, reader, task, result, kept, staging, calls, changes>>

\* Mutant of Confirmed: only the size is compared.
ConfirmedBySize == Len(feed.taken) = feed.entry.usize

\* The CRC-32 is compared after the last byte has been handed out.
Confirmed ==
    /\ feed.taken = feed.entry.crc
    /\ Len(feed.taken) = feed.entry.usize

Ends(ok) ==
    /\ task' = "idle"
    /\ feed' = NoFeed
    /\ result' = [of |-> feed.entry.name, call |-> task, ok |-> ok,
                  data |-> IF ok THEN feed.taken ELSE << >>]

FinishRead ==
    /\ task = "read" /\ Streaming /\ Ended /\ Confirmed
    /\ Ends(TRUE)
    /\ UNCHANGED <<files, scene, reader, kept, staging, calls, changes>>

\* Mutant of WithoutTemporary: only a commit that failed cleans up.
TemporaryStays(after) == files' = after

WithoutTemporary(after) ==
    files' \in {[after EXCEPT !.temporary = Gone]}
          \cup (IF "remove" \in Faults THEN {after} ELSE {})

\* Any exception: the reader's, the consumer's, or that of the file written.
FailEntry ==
    /\ feed.entry # Unset
    /\ \/ ~Streaming /\ Streams(feed.entry) = {}
       \/ Streaming /\ ~Ended /\ \A data \in NextBytes : ~TakesBytes(data)
       \/ Streaming /\ Ended /\ ~Confirmed
       \/ task = "extract" /\ "write" \in Faults
    /\ Ends(FALSE)
    /\ IF task = "extract" THEN WithoutTemporary(files) ELSE UNCHANGED files
    /\ UNCHANGED <<scene, reader, kept, staging, calls, changes>>

\* A sibling's name for the output, which is needed if there is an output.
BackupFree == files.output # Gone => files.backup = Gone

\* commit_extracted_file: the output moves aside, the temporary takes its
\* name, and the output that was moved aside is removed.
Commit ==
    /\ task = "extract" /\ Streaming /\ Ended /\ Confirmed
    /\ BackupFree
    /\ \E dropped \in BOOLEAN :
          /\ ~dropped => "remove" \in Faults /\ files.output # Gone
          /\ files' = [files EXCEPT !.output = files.temporary, !.temporary = Gone,
                          !.backup = IF dropped THEN @ ELSE files.output]
    /\ Ends(TRUE)
    /\ UNCHANGED <<scene, reader, kept, staging, calls, changes>>

\* A rename that fails: the output never moved, or is moved back, or, when
\* that fails too, keeps its backup name.
CommitFails ==
    /\ task = "extract" /\ Streaming /\ Ended /\ Confirmed
    /\ BackupFree => "rename" \in Faults
    /\ \/ WithoutTemporary(files)
       \/ /\ "restore" \in Faults /\ files.output # Gone /\ files.backup = Gone
          /\ WithoutTemporary([files EXCEPT !.output = Gone, !.backup = files.output])
    /\ Ends(FALSE)
    /\ UNCHANGED <<scene, reader, kept, staging, calls, changes>>

(***************************************************************************)
(* Staged chunks                                                           *)
(***************************************************************************)
\* require_staged_package_entry_chunks_valid: each chunk is measured and read.
Stage(sequence) ==
    /\ Begins("idle")
    /\ \A i \in DOMAIN sequence :
          SizeHolds(sequence[i], files) /\ CrcHolds(sequence[i], files)
    /\ chunks' = Validated(sequence, files)
    /\ promised' = [i \in DOMAIN sequence |-> Payload(sequence[i], files)]
    /\ replay' = NoReplay
    /\ kept' = Gone
    /\ UNCHANGED <<files, scene, reader, feed, changes>>

\* source_stored_entry_range_chunks: a stored entry is a range of the package
\* with the size and CRC-32 of the directory.
StageEntry(e) ==
    /\ e.method = "stored" /\ e.csize = e.usize
    /\ Stage(<<[FileRange("package", e.at, e.usize) EXCEPT !.crc = e.crc]>>)

\* The scan of the part that a patch begins with replays the staged chunks.
Scanned == \A i \in DOMAIN chunks : SizeHolds(chunks[i], files) /\ CrcHolds(chunks[i], files)

\* The patched part is ranges of what was staged, measured and not read.
Patch(rewrites) ==
    /\ chunks # << >>
    /\ Begins("idle")
    /\ Scanned
    /\ ~PatchRefused(Sizes(chunks, files), rewrites)
    /\ LET patched == Patched(chunks, Sizes(chunks, files), rewrites)
       IN  /\ patched # << >>
           /\ chunks' = MeasuredOnly(patched, files)
           /\ promised' = [i \in DOMAIN patched |-> patched[i].crc]
    /\ replay' = NoReplay
    /\ kept' = Gone
    /\ UNCHANGED <<files, scene, reader, feed, changes>>

\* Sizes and checksums that were recorded are not taken again.
OpenReplay ==
    /\ chunks # << >>
    /\ \A i \in DOMAIN chunks :
          Unset \in {chunks[i].size, chunks[i].crc} => SizeHolds(chunks[i], files)
    /\ Begins("replay")
    /\ kept' = Gone
    /\ replay' =
         [NoReplay EXCEPT
            !.status = "open",
            !.sizes = [i \in DOMAIN chunks |->
                IF chunks[i].size = Unset THEN PayloadSize(chunks[i], files)
                ELSE chunks[i].size],
            !.crcs = [i \in DOMAIN chunks |->
                IF chunks[i].crc = Unset THEN Payload(chunks[i], files)
                ELSE chunks[i].crc]]
    /\ UNCHANGED <<files, scene, reader, feed, chunks, promised, changes>>

current == chunks[replay.at]
currentFile == files[current.path]

ReplayMemory ==
    /\ task = "replay" /\ replay.at <= Len(chunks) /\ current.kind = "memory"
    /\ Len(current.data) = replay.sizes[replay.at]
    /\ current.data = replay.crcs[replay.at]
    /\ replay' = [replay EXCEPT !.at = @ + 1, !.read = @ \o current.data]
    /\ UNCHANGED <<files, scene, reader, reading, chunks, promised, calls, changes>>

Missing == replay.sizes[replay.at] - Len(replay.taken)

\* The next bytes of a file chunk, if they are there.
ReplayBytes ==
    LET count == Smaller(Missing, BufferSize)
        from == PayloadOffset(current) + Len(replay.taken)
    IN  IF currentFile # Gone /\ from + count <= Len(currentFile)
        THEN {Bytes(currentFile, from, count)} ELSE {}

ReplayFile ==
    /\ task = "replay" /\ replay.at <= Len(chunks) /\ current.kind = "file"
    /\ Missing > 0
    /\ \E data \in ReplayBytes :
          replay' = [replay EXCEPT !.taken = @ \o data, !.read = @ \o data]
    /\ UNCHANGED <<files, scene, reader, reading, chunks, promised, calls, changes>>

\* Mutant of ChunkHolds: ranges are not compared, like their ends.
RangesHold ==
    /\ currentFile # Gone
    /\ ~current.ranged => /\ Len(currentFile) <= replay.sizes[replay.at]
                          /\ replay.taken = replay.crcs[replay.at]

\* A whole file may not have grown; the CRC-32 is that of all bytes read.
ChunkHolds ==
    /\ currentFile # Gone
    /\ ~current.ranged => Len(currentFile) <= replay.sizes[replay.at]
    /\ replay.taken = replay.crcs[replay.at]

ReplayChunkEnd ==
    /\ task = "replay" /\ replay.at <= Len(chunks) /\ current.kind = "file"
    /\ Missing = 0
    /\ ChunkHolds
    /\ replay' = [replay EXCEPT !.at = @ + 1, !.taken = << >>]
    /\ UNCHANGED <<files, scene, reader, reading, chunks, promised, calls, changes>>

ReplayEnd ==
    /\ task = "replay" /\ replay.at > Len(chunks)
    /\ task' = "idle"
    /\ replay' = [replay EXCEPT !.status = "done"]
    /\ UNCHANGED <<files, scene, reader, feed, result, kept, chunks, promised, calls, changes>>

ReplayFails ==
    /\ task = "replay" /\ replay.at <= Len(chunks)
    /\ IF current.kind = "memory"
       THEN \/ Len(current.data) # replay.sizes[replay.at]
            \/ current.data # replay.crcs[replay.at]
       ELSE IF Missing > 0 THEN ReplayBytes = {} ELSE ~ChunkHolds
    /\ task' = "idle"
    /\ replay' = [replay EXCEPT !.status = "failed"]
    /\ UNCHANGED <<files, scene, reader, feed, result, kept, chunks, promised, calls, changes>>

(***************************************************************************)
(* The environment                                                         *)
(***************************************************************************)
\* The package is replaced by a differently damaged copy, the staged file by
\* other bytes.
Change ==
    /\ changes < MaxChanges
    /\ changes' = changes + 1
    /\ \/ \E content \in scene.packages \ {files.package} :
             files' = [files EXCEPT !.package = content]
       \/ \E content \in scene.staged \ {files.staged} :
             files' = [files EXCEPT !.staged = content]
    /\ UNCHANGED <<scene, reader, reading, staging, calls>>

Next ==
    \/ Open
    \/ \E e \in reader.entries : ReadEntry(e) \/ ExtractEntry(e) \/ StageEntry(e)
    \/ OpenStream \/ Take \/ FinishRead \/ FailEntry \/ Commit \/ CommitFails
    \/ \E sequence \in scene.inputs : Stage(sequence)
    \/ \E rewrites \in scene.patches : Patch(rewrites)
    \/ OpenReplay \/ ReplayMemory \/ ReplayFile \/ ReplayChunkEnd \/ ReplayEnd
    \/ ReplayFails
    \/ Change

Spec == Init /\ [][Next]_vars

(***************************************************************************)
(* Properties                                                              *)
(***************************************************************************)
\* Whatever was cut off, appended or overwritten in a package, and whatever
\* happens to it after it has been opened: an entry that is read without an
\* error has the content it was written with, and a package that is as it was
\* written is opened and read to the end of every entry.
PackagesReadAsWritten ==
    /\ result.ok => /\ result.of \in DOMAIN scene.written
                    /\ result.data = scene.written[result.of]
    /\ scene.whole /\ changes = 0 =>
          /\ reader.status # "refused"
          /\ result.call = "read" => result.ok

\* A part that was replayed to its end is the part its chunks had when their
\* checksums were recorded, and where there was none, one content that the
\* file had when the replay began: never a mixture of two contents.
ReplayIsPromised ==
    replay.status = "done" =>
        /\ replay.read = FlattenSeq(replay.crcs)
        /\ \A i \in DOMAIN chunks :
              promised[i] # Unset => replay.crcs[i] = promised[i]

\* The content a chunk sequence stands for, were it read now.
Contents(sequence) ==
    FlattenSeq([i \in DOMAIN sequence |-> Payload(sequence[i], files)])

\* The rewrites, applied to a content from its end to its start.
Spliced(content, rewrites) ==
    LET after[n \in 1 .. Len(rewrites) + 1] ==
            IF n = Len(rewrites) + 1
            THEN Bytes(content, End(rewrites, n - 1), Len(content) - End(rewrites, n - 1))
            ELSE LET rest == after[n + 1]
                     from == End(rewrites, n - 1)
                 IN  Bytes(content, from, rewrites[n].from - from)
                        \o rewrites[n].payload \o rest
    IN  after[1]

\* Cutting chunks into ranges and joining memory, without reading a file,
\* gives the part that rewriting its bytes would give, and so does emitting
\* the ranges at once, wherever the cuts meet the borders of chunks.
PatchIsTheSplice ==
    [][\A rewrites \in scene.patches :
          Patch(rewrites) =>
             LET spliced == Spliced(Contents(chunks), rewrites)
             IN  /\ Contents(chunks') = spliced
                 /\ PatchEmitted(chunks, Sizes(chunks, files), rewrites, files) = spliced]_vars

\* An extraction replaces its output by the whole entry or leaves it as it
\* was, under its backup name if it could not be moved back, and leaves no
\* temporary file.
ExtractionIsWhole ==
    task = "idle" /\ result.call = "extract" =>
        /\ IF result.ok THEN files.output = result.data
           ELSE \/ files.output = kept
                \/ files.output = Gone /\ files.backup = kept
        /\ "remove" \notin Faults => files.temporary = Gone
=============================================================================
