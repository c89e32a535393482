---------------------------- MODULE PackageSave ----------------------------
(***************************************************************************)
(* PackageEditor::save_as (src/src/package_editor.cpp) with the package    *)
(* writer (package_writer.cpp) and the stored ZIP backend                  *)
(* (zip_store_writer.cpp): the planned entries are gathered from files     *)
(* that anybody may change meanwhile, written to a sibling of the output   *)
(* path, and the sibling is renamed over the output behind a backup.  Any  *)
(* call of the file system may fail, and the process may end between any   *)
(* two of them; files stay, everything in memory is forgotten.             *)
(*                                                                         *)
(* A file holds [save, parts, closed]: the call that wrote it, the bytes   *)
(* of each entry, and whether its central directory is there.              *)
(***************************************************************************)
EXTENDS Naturals

CONSTANTS Entries,     \* entries of the planned output
          Kind,        \* how each entry's bytes are kept until the save
          Backend,     \* "stored" or "minizip"
          Faults,      \* calls of the file system that may fail
          Candidates,  \* sibling names tried (1024 in the code)
          MaxSaves,    \* bound: calls of save_as
          Nothing      \* no such file, no such index

\* "checked":   a file range or staged file with its size and CRC-32
\* "extracted": deflated in the source, inflated into a temporary file
\* "unchecked": a range staged by the indexed cell replacement, size only
Kinds == {"checked", "extracted", "unchecked"}

ASSUME EntriesAssumption == Kind \in [Entries -> Kinds]
ASSUME BackendAssumption == Backend \in {"stored", "minizip"}
ASSUME BoundsAssumption == Candidates \in Nat /\ MaxSaves \in Nat

VARIABLES pc,         \* the step of save_as to come
          saves,      \* calls begun so far
          outcome,    \* how the last call ended
          source,     \* bytes behind each entry, in the source or staged file
          temps,      \* temporary_source_files: the extracted entries
          out,        \* the file under the output path
          outputs,    \* the siblings <output>.fastxlsx-output-<i>
          backups,    \* the siblings <output>.fastxlsx-backup-<i>
          temp,       \* temporary_output_path, as the index of a sibling
          aside,      \* backup_path of the last call that made a backup
          has_backup  \* has_backup of this call

memory == <<temp, aside, has_backup>>
files == <<out, outputs, backups>>
vars == <<pc, saves, outcome, source, temps, files, memory>>

\* Planned bytes, other bytes of the same length, or a shorter or missing file.
Bytes == {"planned", "rewritten", "resized"}
Indexes == 0 .. Candidates - 1
Content == [save : 0 .. MaxSaves, parts : [Entries -> Bytes \cup {Nothing}],
            closed : BOOLEAN]
ASSUME NothingAssumption ==
    Nothing \notin Content /\ Nothing \notin Indexes /\ Nothing \notin Bytes

File(n, parts, closed) == [save |-> n, parts |-> parts, closed |-> closed]
Steps == {"idle", "gather", "open", "write", "displace", "replace",
          "restore", "drop_backup", "succeed", "fail"}

TypeOK == /\ pc \in Steps
          /\ saves \in 0 .. MaxSaves
          /\ outcome \in {"none", "saved", "failed", "crashed"}
          /\ source \in [Entries -> Bytes]
          /\ temps \in [Entries -> Bytes \cup {Nothing}]
          /\ out \in Content \cup {Nothing}
          /\ outputs \in [Indexes -> Content \cup {Nothing}]
          /\ backups \in [Indexes -> Content \cup {Nothing}]
          /\ temp \in Indexes \cup {Nothing}
          /\ aside \in Indexes \cup {Nothing}
          /\ has_backup \in BOOLEAN

\* At first the output path is free, or holds a package of some other origin.
Init == /\ pc = "idle"
        /\ saves = 0
        /\ outcome = "none"
        /\ source = [e \in Entries |-> "planned"]
        /\ temps = [e \in Entries |-> Nothing]
        /\ out \in {Nothing, File(0, [e \in Entries |-> "planned"], TRUE)}
        /\ outputs = [i \in Indexes |-> Nothing]
        /\ backups = [i \in Indexes |-> Nothing]
        /\ temp = Nothing
        /\ aside = Nothing
        /\ has_backup = FALSE

-----------------------------------------------------------------------------
(* The call.                                                               *)

\* save_as is entered with a path that passes its checks; a rejected path
\* throws before anything is touched.
Begin == /\ pc = "idle"
         /\ saves < MaxSaves
         /\ pc' = "gather"
         /\ saves' = saves + 1
         /\ temp' = Nothing
         /\ has_backup' = FALSE
         /\ UNCHANGED <<outcome, source, temps, files, aside>>

\* An exception of any of the steps below is caught once, in save_as.
Throw == /\ pc' = "fail"
         /\ UNCHANGED <<saves, outcome, source, temps, files, memory>>

ToExtract == {e \in Entries : Kind[e] = "extracted" /\ temps[e] = Nothing}

\* A deflated entry is inflated into a temporary file; the reader compares
\* size and CRC-32 with the source's central directory as it goes.
Extract(e) == /\ pc = "gather"
              /\ e \in ToExtract
              /\ source[e] = "planned"
              /\ temps' = [temps EXCEPT ![e] = source[e]]
              /\ UNCHANGED <<pc, saves, outcome, source, files, memory>>

ExtractFails == /\ pc = "gather"
                /\ \E e \in ToExtract : source[e] # "planned" \/ "write" \in Faults
                /\ Throw

\* Mutant of FirstFree: the name is taken without looking for the file.
FixedName(siblings) == IF Candidates = 0 THEN {} ELSE {0}

\* make_package_editor_output_sibling_path: the first name nobody uses.
FirstFree(siblings) ==
    {i \in Indexes : siblings[i] = Nothing /\ \A j \in 0 .. i - 1 : siblings[j] # Nothing}

ChooseSibling == /\ pc = "gather"
                 /\ ToExtract = {}
                 /\ temp' \in FirstFree(outputs)
                 /\ pc' = "open"
                 /\ UNCHANGED <<saves, outcome, source, temps, files, aside, has_backup>>

NoSibling == /\ pc = "gather"
             /\ ToExtract = {}
             /\ FirstFree(outputs) = {} \/ "inspect" \in Faults
             /\ Throw

\* The file an entry is copied from.
Backing(e) == IF Kind[e] = "extracted" THEN temps[e] ELSE source[e]

\* validate_package_entries_zip32 compares the size of every chunk before the
\* sibling is created.
OpenOutput == /\ pc = "open"
              /\ \A e \in Entries : Backing(e) # "resized"
              /\ outputs' = [outputs EXCEPT ![temp] =
                                File(saves, [e \in Entries |-> Nothing], FALSE)]
              /\ pc' = "write"
              /\ UNCHANGED <<saves, outcome, source, temps, out, backups, memory>>

OpenFails == /\ pc = "open"
             /\ \/ \E e \in Entries : Backing(e) = "resized"
                \/ "write" \in Faults
             /\ Throw

Unwritten == {e \in Entries : outputs[temp].parts[e] = Nothing}

\* Mutant of Accepted: only the length is compared.
AcceptedBySize(e) == Backing(e) # "resized"

\* What the writer lets through after it has copied an entry: the length
\* always, the CRC-32 where the chunk carries one.
Accepted(e) == \/ Backing(e) = "planned"
               \/ Backing(e) = "rewritten" /\ Kind[e] = "unchecked"

WriteEntry(e) == /\ pc = "write"
                 /\ e \in Unwritten
                 /\ Accepted(e)
                 /\ outputs' = [outputs EXCEPT ![temp] =
                       File(saves, [@.parts EXCEPT ![e] = Backing(e)], FALSE)]
                 /\ UNCHANGED <<pc, saves, outcome, source, temps, out, backups, memory>>

WriteFails == /\ pc = "write"
              /\ \E e \in Unwritten : ~ Accepted(e) \/ "write" \in Faults
              /\ Throw

\* The central directory is in the stream's buffer when write_stored_zip
\* returns; the destructor flushes it and reports nothing.  minizip-ng closes
\* the file itself and its result is checked.
CloseOutput == /\ pc = "write"
               /\ Unwritten = {}
               /\ \E flushed \in BOOLEAN :
                     /\ ~ flushed => Backend = "stored" /\ "flush" \in Faults
                     /\ outputs' = [outputs EXCEPT ![temp] =
                                       File(saves, @.parts, flushed)]
               /\ pc' = "displace"
               /\ UNCHANGED <<saves, outcome, source, temps, out, backups, memory>>

CloseFails == /\ pc = "write"
              /\ Unwritten = {}
              /\ Backend = "minizip"
              /\ "flush" \in Faults
              /\ Throw

-----------------------------------------------------------------------------
(* commit_package_editor_output_file.                                      *)

\* Mutant of Displace: the old package is removed to make way.
DisplaceByRemoving == /\ pc = "displace"
                      /\ out' = Nothing
                      /\ pc' = "replace"
                      /\ UNCHANGED <<saves, outcome, source, temps, outputs, backups, memory>>

\* The package under the output path, if any, is renamed to a backup.
Displace == /\ pc = "displace"
            /\ IF out = Nothing
               THEN UNCHANGED <<out, backups, aside, has_backup>>
               ELSE /\ aside' \in FirstFree(backups)
                    /\ backups' = [backups EXCEPT ![aside'] = out]
                    /\ out' = Nothing
                    /\ has_backup' = TRUE
            /\ pc' = "replace"
            /\ UNCHANGED <<saves, outcome, source, temps, outputs, temp>>

DisplaceFails == /\ pc = "displace"
                 /\ \/ "inspect" \in Faults
                    \/ out # Nothing /\ "rename" \in Faults
                    \/ out # Nothing /\ FirstFree(backups) = {}
                 /\ Throw

\* The written sibling takes the output path.
Replace == /\ pc = "replace"
           /\ out' = outputs[temp]
           /\ outputs' = [outputs EXCEPT ![temp] = Nothing]
           /\ pc' = IF has_backup THEN "drop_backup" ELSE "succeed"
           /\ UNCHANGED <<saves, outcome, source, temps, backups, memory>>

\* Mutant of ReplaceFails: the call gives up without restoring.
ReplaceGivesUp == pc = "replace" /\ "rename" \in Faults /\ Throw

ReplaceFails == /\ pc = "replace"
                /\ "rename" \in Faults
                /\ pc' = IF has_backup THEN "restore" ELSE "fail"
                /\ UNCHANGED <<saves, outcome, source, temps, files, memory>>

\* The backup is renamed back; if that fails too it keeps its name.
Restore == /\ pc = "restore"
           /\ out' = backups[aside]
           /\ backups' = [backups EXCEPT ![aside] = Nothing]
           /\ pc' = "fail"
           /\ UNCHANGED <<saves, outcome, source, temps, outputs, memory>>

RestoreFails == /\ pc = "restore"
                /\ "restore" \in Faults
                /\ Throw

\* remove_package_editor_output_file_noexcept ignores errors.
DropBackup == /\ pc = "drop_backup"
              /\ \/ backups' = [backups EXCEPT ![aside] = Nothing]
                 \/ "remove" \in Faults /\ UNCHANGED backups
              /\ pc' = "succeed"
              /\ UNCHANGED <<saves, outcome, source, temps, out, outputs, memory>>

Succeed == /\ pc = "succeed"
           /\ temps' = [e \in Entries |-> Nothing]
           /\ outcome' = "saved"
           /\ pc' = "idle"
           /\ UNCHANGED <<saves, source, files, memory>>

\* Mutant of CleanUp: the temporary output is forgotten.
CleanUpSources == /\ pc = "fail"
                  /\ temps' = [e \in Entries |-> Nothing]
                  /\ outcome' = "failed"
                  /\ pc' = "idle"
                  /\ UNCHANGED <<saves, source, files, memory>>

\* The catch block of save_as; the temporary output may not exist.
CleanUp == /\ pc = "fail"
           /\ temps' = [e \in Entries |-> Nothing]
           /\ \/ outputs' = [i \in Indexes |-> IF i = temp THEN Nothing ELSE outputs[i]]
              \/ "remove" \in Faults /\ UNCHANGED outputs
           /\ outcome' = "failed"
           /\ pc' = "idle"
           /\ UNCHANGED <<saves, source, out, backups, memory>>

-----------------------------------------------------------------------------
(* The environment.                                                        *)

\* Somebody changes the bytes behind an entry, or the extracted copy of one.
Change(e) == /\ \E bytes \in Bytes :
                   \/ source' = [source EXCEPT ![e] = bytes] /\ UNCHANGED temps
                   \/ /\ temps[e] # Nothing
                      /\ temps' = [temps EXCEPT ![e] = bytes]
                      /\ UNCHANGED source
             /\ UNCHANGED <<pc, saves, outcome, files, memory>>

\* The process ends; a later one has no use for its extracted copies.
Crash == /\ "crash" \in Faults
         /\ pc # "idle"
         /\ pc' = "idle"
         /\ outcome' = "crashed"
         /\ temps' = [e \in Entries |-> Nothing]
         /\ UNCHANGED <<saves, source, files, memory>>

-----------------------------------------------------------------------------
Next == \/ Begin \/ ExtractFails \/ ChooseSibling \/ NoSibling
        \/ OpenOutput \/ OpenFails \/ WriteFails \/ CloseOutput \/ CloseFails
        \/ Displace \/ DisplaceFails \/ Replace \/ ReplaceFails \/ Restore
        \/ RestoreFails \/ DropBackup \/ Succeed \/ CleanUp \/ Crash
        \/ \E e \in Entries : Extract(e) \/ WriteEntry(e) \/ Change(e)

Spec == Init /\ [][Next]_vars

-----------------------------------------------------------------------------
(* Properties.                                                             *)

\* c is the package the n-th call was asked to write.  The code cannot tell
\* that the file behind an unchecked range was rewritten in place.
Complete(c, n) == /\ c # Nothing
                  /\ c.save = n
                  /\ c.closed
                  /\ \A e \in Entries :
                        \/ c.parts[e] = "planned"
                        \/ c.parts[e] = "rewritten" /\ Kind[e] = "unchecked"

\* The package last put under the path: there, or where a commit that did not
\* finish has moved it.
Kept == IF out # Nothing THEN out
        ELSE IF aside # Nothing THEN backups[aside] ELSE Nothing

\* How far the call is: its package has taken the output path, or not yet.
Call == CASE pc = "idle" -> "idle"
          [] pc \in {"drop_backup", "succeed"} -> "replaced"
          [] OTHER -> "running"

\* save_as seen as one replacement: it happens once in a call that returns,
\* never in one that throws, and a crash or a failed rename between the two
\* renames of the commit leaves the old package under its backup name.
Output == INSTANCE PackageOutput WITH
    call <- Call,
    content <- Kept,
    Packages <- Content \cup {Nothing}

ImplementsOutput == Output!Spec

\* The workbook is under its own name after a save_as that returned: complete,
\* of that call, and with the bytes that were planned although the files
\* behind them may have changed.
SavedOutputIsComplete ==
    pc = "idle" /\ outcome = "saved" => Complete(out, saves)

\* Files that an earlier call left beside the output, because the process
\* ended or a removal failed, are nobody's to overwrite or remove: they may
\* hold the only copy of a package.
LeftoversStay ==
    [][\A i \in Indexes :
          /\ outputs[i] # Nothing /\ outputs'[i] # outputs[i] => outputs[i].save = saves
          /\ backups[i] # Nothing /\ backups'[i] # backups[i] => has_backup /\ i = aside]_vars

\* Unless the process ended or a removal failed, a call that is over has
\* removed what it wrote beside the output and every extracted entry,
\* whichever of its steps failed.
NothingLeftBehind ==
    pc = "idle" /\ outcome \in {"saved", "failed"} =>
        /\ \A e \in Entries : temps[e] = Nothing
        /\ \A i \in Indexes : outputs[i] = Nothing

\* While no process ends and a package that was moved aside can be moved back,
\* every call, also one that throws, leaves the package under its own name and
\* not under that of a backup.
OutputUnderItsName ==
    pc = "idle" /\ outcome \in {"saved", "failed"} => out = Kept
=============================================================================
