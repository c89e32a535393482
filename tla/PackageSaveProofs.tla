------------------------- MODULE PackageSaveProofs -------------------------
(***************************************************************************)
(* Theorems about PackageSave, for every set of entries, every number of   *)
(* sibling names and every subset of the faults.                           *)
(***************************************************************************)
EXTENDS PackageSave, TLAPS

\* A file made of what the writer has is a file.
LEMMA FileType ==
    ASSUME NEW n \in 0 .. MaxSaves, NEW parts \in [Entries -> Bytes \cup {Nothing}],
           NEW closed \in BOOLEAN
    PROVE  /\ File(n, parts, closed) \in Content
           /\ File(n, parts, closed).save = n
           /\ File(n, parts, closed).parts = parts
           /\ File(n, parts, closed).closed = closed
BY DEF File, Content

LEMMA BackingType ==
    ASSUME TypeOK, NEW e \in Entries
    PROVE  Backing(e) \in Bytes \cup {Nothing}
BY DEF TypeOK, Backing

LEMMA FirstFreeType ==
    ASSUME NEW siblings, NEW i \in FirstFree(siblings)
    PROVE  i \in Indexes /\ siblings[i] = Nothing
BY DEF FirstFree

-----------------------------------------------------------------------------
(***************************************************************************)
(* Types, with what the steps of the writer rely on.                       *)
(***************************************************************************)

\* From the creation of the sibling to its renaming the index is set.
SiblingChosen ==
    /\ pc \in {"open", "write", "displace", "replace"} => temp \in Indexes
    /\ pc \in {"write", "displace", "replace"} => outputs[temp] # Nothing

\* A backup of this call is where the call left it.
BackupChosen == has_backup => aside \in Indexes

\* The steps of the commit that follow one with a backup.
BackupHeld == /\ pc \in {"gather", "open", "write", "displace"} => ~ has_backup
              /\ pc \in {"restore", "drop_backup"} => has_backup
              /\ pc = "restore" => backups[aside] # Nothing
              /\ pc = "replace" /\ has_backup => backups[aside] # Nothing
              /\ pc \in {"replace", "restore"} => out = Nothing
              /\ pc \in {"drop_backup", "succeed"} => out # Nothing

TypeInv == TypeOK /\ SiblingChosen /\ BackupChosen /\ BackupHeld

THEOREM TypeStep == TypeInv /\ [Next]_vars => TypeInv'
<1> SUFFICES ASSUME TypeInv, [Next]_vars PROVE TypeInv'
  OBVIOUS
<1> USE BoundsAssumption, NothingAssumption DEF TypeInv, SiblingChosen, BackupChosen, BackupHeld
<1>1. CASE Begin
  <2>1. saves' \in 0 .. MaxSaves
    BY <1>1 DEF Begin, TypeOK
  <2> QED BY <1>1, <2>1 DEF Begin, TypeOK, Steps, files
<1>2. CASE Throw /\ pc \in {"gather", "open", "write", "displace", "restore"}
  BY <1>2 DEF Throw, TypeOK, Steps, files, memory
<1>3. CASE ChooseSibling
  BY <1>3, FirstFreeType DEF ChooseSibling, TypeOK, Steps, files
<1>4. CASE OpenOutput
  <2>1. File(saves, [e \in Entries |-> Nothing], FALSE) \in Content
    BY FileType DEF TypeOK
  <2> QED BY <1>4, <2>1 DEF OpenOutput, TypeOK, Steps, memory
<1>5. CASE CloseOutput
  <2>1. PICK flushed \in BOOLEAN :
           outputs' = [outputs EXCEPT ![temp] = File(saves, outputs[temp].parts, flushed)]
    BY <1>5 DEF CloseOutput
  <2>2. File(saves, outputs[temp].parts, flushed) \in Content
    <3>1. outputs[temp] \in Content
      BY <1>5 DEF CloseOutput, TypeOK
    <3> QED BY <3>1, FileType DEF TypeOK, Content
  <2> QED BY <1>5, <2>1, <2>2 DEF CloseOutput, TypeOK, Steps, memory
<1>6. CASE Displace
  <2>1. CASE out = Nothing
    BY <1>6, <2>1 DEF Displace, TypeOK, Steps
  <2>2. CASE out # Nothing
    BY <1>6, <2>2, FirstFreeType DEF Displace, TypeOK, Steps
  <2> QED BY <2>1, <2>2
<1>7. CASE Replace
  BY <1>7 DEF Replace, TypeOK, Steps, memory
<1>8. CASE ReplaceFails
  BY <1>8 DEF ReplaceFails, TypeOK, Steps, memory, files
<1>9. CASE Restore
  BY <1>9 DEF Restore, TypeOK, Steps, memory
<1>10. CASE DropBackup
  BY <1>10 DEF DropBackup, TypeOK, Steps, memory
<1>11. CASE Succeed
  BY <1>11 DEF Succeed, TypeOK, Steps, memory, files
<1>12. CASE CleanUp
  BY <1>12 DEF CleanUp, TypeOK, Steps, memory
<1>13. CASE Crash
  BY <1>13 DEF Crash, TypeOK, Steps, memory, files
<1>14. ASSUME NEW e \in Entries, Extract(e) PROVE TypeInv'
  BY <1>14 DEF Extract, TypeOK, Steps, memory, files
<1>15. ASSUME NEW e \in Entries, WriteEntry(e) PROVE TypeInv'
  <2> DEFINE parts == [outputs[temp].parts EXCEPT ![e] = Backing(e)]
  <2>1. outputs[temp] \in Content
    BY <1>15 DEF WriteEntry, TypeOK
  <2>2. parts \in [Entries -> Bytes \cup {Nothing}]
    BY <2>1, BackingType DEF Content
  <2>3. File(saves, parts, FALSE) \in Content
    BY <2>2, FileType DEF TypeOK
  <2> QED BY <1>15, <2>3 DEF WriteEntry, TypeOK, Steps, memory
<1>16. ASSUME NEW e \in Entries, Change(e) PROVE TypeInv'
  BY <1>16 DEF Change, TypeOK, Steps, memory, files
<1>17. CASE UNCHANGED vars
  BY <1>17 DEF vars, TypeOK, Steps, memory, files
<1> QED
  BY <1>1, <1>2, <1>3, <1>4, <1>5, <1>6, <1>7, <1>8, <1>9, <1>10, <1>11, <1>12, <1>13,
     <1>14, <1>15, <1>16, <1>17
  DEF Next, ExtractFails, NoSibling, OpenFails, WriteFails, CloseFails, DisplaceFails,
      RestoreFails

LEMMA TypeInit == Init => TypeInv
<1>1. 0 \in 0 .. MaxSaves
  BY BoundsAssumption
<1>2. [e \in Entries |-> "planned"] \in [Entries -> Bytes \cup {Nothing}]
  BY DEF Bytes
<1>3. File(0, [e \in Entries |-> "planned"], TRUE) \in Content
  BY <1>1, <1>2, FileType
<1>4. Init => TypeOK
  BY <1>1, <1>3 DEF Init, TypeOK, Steps, Bytes
<1>5. Init => SiblingChosen /\ BackupChosen /\ BackupHeld
  BY DEF Init, SiblingChosen, BackupChosen, BackupHeld
<1> QED BY <1>4, <1>5 DEF TypeInv

THEOREM TypeInvariant == Spec => []TypeInv
BY TypeInit, TypeStep, PTL DEF Spec

\* The variables of save_as and the files it handles keep their types.
THEOREM TypeCorrect == Spec => []TypeOK
<1>1. TypeInv => TypeOK
  BY DEF TypeInv
<1> QED BY <1>1, TypeInvariant, PTL

-----------------------------------------------------------------------------
(***************************************************************************)
(* What the files hold.                                                    *)
(***************************************************************************)

\* A file system that reports the loss of the end of a file, or a backend
\* that asks it to.
FlushesReported == Backend = "minizip" \/ "flush" \notin Faults

\* No entry in the sibling has bytes the writer should have refused.
EntriesAccepted ==
    pc = "write" => \A e \in Entries :
        outputs[temp].parts[e] # Nothing =>
            \/ outputs[temp].parts[e] = "planned"
            \/ outputs[temp].parts[e] = "rewritten" /\ Kind[e] = "unchecked"

\* It is complete before the old package moves, and then takes its place.
CompleteWhenCommitted ==
    /\ pc \in {"displace", "replace"} => Complete(outputs[temp], saves)
    /\ pc \in {"drop_backup", "succeed"} => Complete(out, saves)
    /\ SavedOutputIsComplete

FilesInv == EntriesAccepted /\ CompleteWhenCommitted

THEOREM FilesStep ==
    ASSUME FlushesReported
    PROVE  TypeInv /\ TypeInv' /\ FilesInv /\ [Next]_vars => FilesInv'
<1> SUFFICES ASSUME TypeInv, TypeInv', FilesInv, [Next]_vars PROVE FilesInv'
  OBVIOUS
<1> USE BoundsAssumption, NothingAssumption
    DEF FilesInv, EntriesAccepted, CompleteWhenCommitted, SavedOutputIsComplete
<1>1. CASE Begin
  BY <1>1 DEF Begin, files
<1>2. CASE Throw /\ pc \in {"gather", "open", "write", "displace", "restore"}
  BY <1>2 DEF Throw, files, memory
<1>3. CASE ChooseSibling
  BY <1>3, FirstFreeType DEF ChooseSibling, files
<1>4. CASE OpenOutput
  <2> DEFINE new == File(saves, [e \in Entries |-> Nothing], FALSE)
  <2>1. new.save = saves /\ new.parts = [e \in Entries |-> Nothing]
    <3>1. [e \in Entries |-> Nothing] \in [Entries -> Bytes \cup {Nothing}] /\ saves \in 0 .. MaxSaves
      BY DEF TypeInv, TypeOK
    <3> QED BY <3>1, FileType
  <2>2. outputs'[temp'] = new
    BY <1>4 DEF OpenOutput, TypeInv, TypeOK, SiblingChosen, memory
  <2> QED BY <1>4, <2>1, <2>2 DEF OpenOutput, memory
<1>5. CASE CloseOutput
  <2> DEFINE new == File(saves, outputs[temp].parts, TRUE)
  <2>1. outputs' = [outputs EXCEPT ![temp] = new]
    BY <1>5, FlushesReported DEF CloseOutput, FlushesReported
  <2>2. temp \in Indexes /\ outputs[temp] \in Content
    BY <1>5 DEF CloseOutput, TypeInv, TypeOK, SiblingChosen
  <2>3. outputs'[temp'] = new
    BY <1>5, <2>1, <2>2 DEF CloseOutput, TypeInv, TypeOK, memory
  <2>4. new.save = saves /\ new.parts = outputs[temp].parts /\ new.closed = TRUE /\ new \in Content
    BY <2>2, FileType DEF TypeInv, TypeOK, Content
  <2>5. Complete(new, saves)
    BY <1>5, <2>4 DEF CloseOutput, Unwritten, Complete
  <2> QED BY <1>5, <2>3, <2>4, <2>5 DEF CloseOutput, memory
<1>6. CASE Displace
  BY <1>6 DEF Displace
<1>7. CASE Replace
  BY <1>7 DEF Replace, TypeInv, TypeOK, SiblingChosen, memory
<1>8. CASE ReplaceFails
  BY <1>8 DEF ReplaceFails, memory, files
<1>9. CASE Restore
  BY <1>9 DEF Restore, memory
<1>10. CASE DropBackup
  BY <1>10 DEF DropBackup, memory
<1>11. CASE Succeed
  BY <1>11 DEF Succeed, memory, files
<1>12. CASE CleanUp
  BY <1>12 DEF CleanUp, TypeInv, TypeOK, memory
<1>13. CASE Crash
  BY <1>13 DEF Crash, memory, files
<1>14. ASSUME NEW e \in Entries, Extract(e) PROVE FilesInv'
  BY <1>14 DEF Extract, memory, files
<1>15. ASSUME NEW e \in Entries, WriteEntry(e) PROVE FilesInv'
  <2> DEFINE parts == [outputs[temp].parts EXCEPT ![e] = Backing(e)]
             new == File(saves, parts, FALSE)
  <2>1. temp \in Indexes /\ outputs[temp] \in Content
    BY <1>15 DEF WriteEntry, TypeInv, TypeOK, SiblingChosen
  <2>2. parts \in [Entries -> Bytes \cup {Nothing}]
    BY <2>1, BackingType DEF TypeInv, Content
  <2>3. new.save = saves /\ new.parts = parts
    <3>1. saves \in 0 .. MaxSaves
      BY DEF TypeInv, TypeOK
    <3> HIDE DEF parts
    <3> QED BY <2>2, <3>1, FileType
  <2>4. outputs'[temp'] = new
    BY <1>15, <2>1 DEF WriteEntry, TypeInv, TypeOK, memory
  <2>5. parts[e] = Backing(e) /\ \A f \in Entries \ {e} : parts[f] = outputs[temp].parts[f]
    BY <2>1 DEF Content
  <2>6. EntriesAccepted'
    BY <1>15, <2>3, <2>4, <2>5 DEF WriteEntry, Accepted, memory
  <2> QED BY <1>15, <2>3, <2>4, <2>6 DEF WriteEntry, memory
<1>16. ASSUME NEW e \in Entries, Change(e) PROVE FilesInv'
  BY <1>16 DEF Change, memory, files
<1>17. CASE UNCHANGED vars
  BY <1>17 DEF vars, memory, files
<1> QED
  BY <1>1, <1>2, <1>3, <1>4, <1>5, <1>6, <1>7, <1>8, <1>9, <1>10, <1>11, <1>12, <1>13,
     <1>14, <1>15, <1>16, <1>17
  DEF Next, ExtractFails, NoSibling, OpenFails, WriteFails, CloseFails, DisplaceFails,
      RestoreFails

THEOREM FilesInvariant == ASSUME FlushesReported PROVE Spec => []FilesInv
<1>1. Init => FilesInv
  BY NothingAssumption
  DEF Init, FilesInv, EntriesAccepted, CompleteWhenCommitted, SavedOutputIsComplete
<1> QED BY <1>1, FlushesReported, FilesStep, TypeInvariant, PTL DEF Spec

\* A save_as that returned has put the complete planned package under the
\* output path, whatever was changed meanwhile and whatever else failed, if the
\* loss of the last buffer is reported (with the stored backend it is not).
THEOREM SavedMeansComplete == ASSUME FlushesReported PROVE Spec => []SavedOutputIsComplete
<1>1. FilesInv => SavedOutputIsComplete
  BY DEF FilesInv, CompleteWhenCommitted
<1> QED BY <1>1, FlushesReported, FilesInvariant, PTL

-----------------------------------------------------------------------------
(***************************************************************************)
(* What lies beside the output.                                            *)
(***************************************************************************)

\* The sibling, once it exists, is this call's.
SiblingOwned ==
    temp \in Indexes /\ outputs[temp] # Nothing => outputs[temp].save = saves

LEMMA OwnedStep == TypeInv /\ SiblingOwned /\ [Next]_vars => SiblingOwned'
<1> SUFFICES ASSUME TypeInv, SiblingOwned, [Next]_vars PROVE SiblingOwned'
  OBVIOUS
<1> USE NothingAssumption DEF SiblingOwned
<1>1. ASSUME NEW parts \in [Entries -> Bytes \cup {Nothing}], NEW closed \in BOOLEAN,
             outputs' = [outputs EXCEPT ![temp] = File(saves, parts, closed)],
             UNCHANGED <<saves, temp>>, temp \in Indexes
      PROVE  SiblingOwned'
  <2>1. File(saves, parts, closed).save = saves
    BY FileType DEF TypeInv, TypeOK
  <2> HIDE DEF File
  <2> QED BY <1>1, <2>1 DEF TypeInv, TypeOK
<1>2. CASE Begin
  BY <1>2 DEF Begin
<1>3. CASE ChooseSibling
  BY <1>3, FirstFreeType DEF ChooseSibling, files
<1>4. CASE OpenOutput
  <2>1. [e \in Entries |-> Nothing] \in [Entries -> Bytes \cup {Nothing}]
    OBVIOUS
  <2> QED BY <1>1, <1>4, <2>1 DEF OpenOutput, TypeInv, SiblingChosen, memory
<1>5. CASE CloseOutput
  <2>1. temp \in Indexes /\ outputs[temp].parts \in [Entries -> Bytes \cup {Nothing}]
    BY <1>5 DEF CloseOutput, TypeInv, TypeOK, SiblingChosen, Content
  <2> QED BY <1>1, <1>5, <2>1 DEF CloseOutput, memory
<1>6. CASE Replace
  BY <1>6 DEF Replace, TypeInv, TypeOK, memory
<1>7. CASE CleanUp
  BY <1>7 DEF CleanUp, memory
<1>8. ASSUME NEW e \in Entries, WriteEntry(e) PROVE SiblingOwned'
  <2>1. temp \in Indexes /\ outputs[temp].parts \in [Entries -> Bytes \cup {Nothing}]
    BY <1>8 DEF WriteEntry, TypeInv, TypeOK, SiblingChosen, Content
  <2>2. [outputs[temp].parts EXCEPT ![e] = Backing(e)] \in [Entries -> Bytes \cup {Nothing}]
    BY <2>1, BackingType DEF TypeInv
  <2> QED BY <1>1, <1>8, <2>1, <2>2 DEF WriteEntry, memory
<1>9. CASE UNCHANGED <<saves, outputs, temp>>
  BY <1>9
<1> QED
  BY <1>2, <1>3, <1>4, <1>5, <1>6, <1>7, <1>8, <1>9
  DEF Next, Throw, ExtractFails, NoSibling, OpenFails, WriteFails, CloseFails, Displace,
      DisplaceFails, ReplaceFails, Restore, RestoreFails, DropBackup, Succeed, Crash,
      Extract, Change, vars, memory, files

THEOREM OwnedInvariant == Spec => [](TypeInv /\ SiblingOwned)
<1>1. Init => SiblingOwned
  BY NothingAssumption DEF Init, SiblingOwned
<1> QED BY <1>1, OwnedStep, TypeInvariant, PTL DEF Spec

\* A save never overwrites or removes a file that an earlier call left beside
\* the output, neither an unfinished package nor a backup.
THEOREM LeftoversUntouched == Spec => LeftoversStay
<1> DEFINE Stays == \A i \in Indexes :
      /\ outputs[i] # Nothing /\ outputs'[i] # outputs[i] => outputs[i].save = saves
      /\ backups[i] # Nothing /\ backups'[i] # backups[i] => has_backup /\ i = aside
<1>1. TypeInv /\ SiblingOwned /\ [Next]_vars => [Stays]_vars
  <2> SUFFICES ASSUME TypeInv, SiblingOwned, [Next]_vars, NEW i \in Indexes
               PROVE
         /\ outputs[i] # Nothing /\ outputs'[i] # outputs[i] => outputs[i].save = saves
         /\ backups[i] # Nothing /\ backups'[i] # backups[i] => has_backup /\ i = aside
    OBVIOUS
  <2>1. outputs'[i] # outputs[i] => i = temp
    BY DEF Next, Throw, Begin, ExtractFails, ChooseSibling, NoSibling, OpenOutput, OpenFails,
           WriteEntry, WriteFails, CloseOutput, CloseFails, Displace, DisplaceFails, Replace,
           ReplaceFails, Restore, RestoreFails, DropBackup, Succeed, CleanUp, Crash, Extract,
           Change, vars, memory, files, TypeInv, TypeOK
  <2>2. backups[i] # Nothing /\ backups'[i] # backups[i] => has_backup /\ i = aside
    <3>1. CASE Displace
      BY <3>1, FirstFreeType DEF Displace, TypeInv, TypeOK
    <3>2. CASE Restore \/ DropBackup
      BY <3>2 DEF Restore, DropBackup, TypeInv, TypeOK, BackupHeld
    <3>3. CASE UNCHANGED backups
      BY <3>3
    <3> QED
      BY <3>1, <3>2, <3>3
      DEF Next, Throw, Begin, ExtractFails, ChooseSibling, NoSibling, OpenOutput, OpenFails,
          WriteEntry, WriteFails, CloseOutput, CloseFails, DisplaceFails, Replace,
          ReplaceFails, RestoreFails, Succeed, CleanUp, Crash, Extract, Change, vars,
          memory, files
  <2> QED BY <2>1, <2>2 DEF SiblingOwned
<1> QED BY <1>1, OwnedInvariant, PTL DEF Spec, LeftoversStay

\* Between calls no sibling exists, and during one only that of the call.
LeftInv ==
    /\ \A i \in Indexes : outputs[i] # Nothing =>
          i = temp /\ pc \in {"write", "displace", "replace", "restore", "fail"}
    /\ pc = "idle" => \A e \in Entries : temps[e] = Nothing

\* Without crashes and failing removals no call leaves a file behind, however
\* it ends.
THEOREM TemporariesRemoved ==
    ASSUME "crash" \notin Faults, "remove" \notin Faults
    PROVE  Spec => []NothingLeftBehind
<1>1. Init => LeftInv
  BY DEF Init, LeftInv
<1>2. TypeInv /\ LeftInv /\ [Next]_vars => LeftInv'
  <2> SUFFICES ASSUME TypeInv, LeftInv, [Next]_vars PROVE LeftInv'
    OBVIOUS
  <2> USE DEF LeftInv
  <2>1. CASE Begin
    BY <2>1 DEF Begin, files
  <2>2. CASE Throw /\ pc \in {"gather", "open", "write", "displace", "restore"}
    BY <2>2 DEF Throw, files, memory
  <2>3. CASE ChooseSibling
    BY <2>3 DEF ChooseSibling, files
  <2>4. CASE OpenOutput \/ CloseOutput \/ \E e \in Entries : WriteEntry(e)
    BY <2>4 DEF OpenOutput, CloseOutput, WriteEntry, TypeInv, TypeOK, memory
  <2>5. CASE Replace \/ CleanUp
    BY <2>5 DEF Replace, CleanUp, TypeInv, TypeOK, memory
  <2>6. CASE Displace \/ ReplaceFails \/ Restore \/ DropBackup \/ Succeed
    BY <2>6 DEF Displace, ReplaceFails, Restore, DropBackup, Succeed, memory, files
  <2>7. CASE UNCHANGED vars
    BY <2>7 DEF vars, memory, files
  <2>8. ASSUME NEW e \in Entries, Extract(e) PROVE LeftInv'
    BY <2>8 DEF Extract, memory, files
  <2>9. ASSUME NEW e \in Entries, Change(e) PROVE LeftInv'
    BY <2>9 DEF Change, memory, files
  <2> QED
    BY <2>1, <2>2, <2>3, <2>4, <2>5, <2>6, <2>7, <2>8, <2>9
    DEF Next, ExtractFails, NoSibling, OpenFails, WriteFails, CloseFails, DisplaceFails,
        RestoreFails, Crash
<1>3. LeftInv => NothingLeftBehind
  BY DEF LeftInv, NothingLeftBehind
<1> QED BY <1>1, <1>2, <1>3, TypeInvariant, PTL DEF Spec

\* The old package is away from its name only inside the commit.
NameInv ==
    /\ out = Nothing /\ aside # Nothing => pc \in {"replace", "restore"}
    /\ pc = "replace" /\ ~ has_backup => aside = Nothing

\* Without crashes and failing restores every call leaves the package under its
\* own name.
THEOREM NameKept ==
    ASSUME "crash" \notin Faults, "restore" \notin Faults
    PROVE  Spec => []OutputUnderItsName
<1>1. Init => NameInv
  BY DEF Init, NameInv
<1>2. TypeInv /\ TypeInv' /\ NameInv /\ [Next]_vars => NameInv'
  <2> SUFFICES ASSUME TypeInv, TypeInv', NameInv, [Next]_vars PROVE NameInv'
    OBVIOUS
  <2> USE DEF NameInv
  <2>1. CASE Begin
    BY <2>1 DEF Begin, files
  <2>2. CASE Throw /\ pc \in {"gather", "open", "write", "displace"}
    BY <2>2 DEF Throw, files, memory
  <2>3. CASE ChooseSibling \/ OpenOutput \/ CloseOutput
    BY <2>3 DEF ChooseSibling, OpenOutput, CloseOutput, files, memory
  <2>4. CASE Displace
    BY <2>4 DEF Displace, TypeInv, BackupHeld
  <2>5. CASE Replace \/ DropBackup
    BY <2>5 DEF Replace, DropBackup, TypeInv, BackupHeld, SiblingChosen, memory
  <2>6. CASE ReplaceFails
    BY <2>6 DEF ReplaceFails, files, memory
  <2>7. CASE Restore
    BY <2>7 DEF Restore, TypeInv, BackupHeld, memory
  <2>8. CASE Succeed \/ CleanUp
    BY <2>8 DEF Succeed, CleanUp, TypeInv, BackupHeld, files, memory
  <2>9. CASE UNCHANGED vars
    BY <2>9 DEF vars, memory, files
  <2>10. ASSUME NEW e \in Entries, Extract(e) \/ WriteEntry(e) \/ Change(e) PROVE NameInv'
    BY <2>10 DEF Extract, WriteEntry, Change, memory, files
  <2> QED
    BY <2>1, <2>2, <2>3, <2>4, <2>5, <2>6, <2>7, <2>8, <2>9, <2>10
    DEF Next, ExtractFails, NoSibling, OpenFails, WriteFails, CloseFails, DisplaceFails,
        RestoreFails, Crash
<1>3. NameInv => OutputUnderItsName
  BY DEF NameInv, OutputUnderItsName, Kept
<1> QED BY <1>1, <1>2, <1>3, TypeInvariant, PTL DEF Spec

-----------------------------------------------------------------------------
(***************************************************************************)
(* Refinement.                                                             *)
(***************************************************************************)

LEMMA KeptType == ASSUME TypeOK, BackupChosen PROVE Kept \in Content \cup {Nothing}
BY DEF TypeOK, BackupChosen, Kept

\* What every step that touches neither the output nor a backup leaves alone.
LEMMA KeptStays == UNCHANGED <<out, backups, aside>> => Kept' = Kept
BY DEF Kept

\* save_as implements one replacement of the package: nothing is lost before
\* the new package is complete, a call that throws has replaced nothing.
THEOREM SaveImplementsOutput == ASSUME FlushesReported PROVE Spec => ImplementsOutput
<1>1. Init => Output!Init
  <2> SUFFICES ASSUME Init PROVE Output!Init
    OBVIOUS
  <2>1. Kept \in Content \cup {Nothing}
    BY TypeInit, KeptType DEF TypeInv
  <2>2. Call = "idle"
    BY DEF Init, Call
  <2> QED BY <2>1, <2>2 DEF Init, Output!Init
<1>2. TypeInv /\ TypeInv' /\ FilesInv /\ [Next]_vars => [Output!Next]_(Output!vars)
  <2> SUFFICES ASSUME TypeInv, TypeInv', FilesInv, [Next]_vars
               PROVE  [Output!Next]_(Output!vars)
    OBVIOUS
  <2> HIDE DEF Call
  <2> USE DEF Output!Next, Output!vars
  <2>1. CASE Begin
    <3>1. Call = "idle" /\ Call' = "running"
      BY <2>1 DEF Begin, Call
    <3>2. Kept' = Kept
      BY <2>1, KeptStays DEF Begin, files
    <3> QED BY <2>1, <3>1, <3>2 DEF Begin, Output!Begin
  <2>2. CASE Throw /\ pc \in {"gather", "open", "write", "displace", "restore"}
    <3>1. Call' = Call
      BY <2>2 DEF Throw, Call
    <3>2. Kept' = Kept
      BY <2>2, KeptStays DEF Throw, files, memory
    <3> QED BY <2>2, <3>1, <3>2 DEF Throw
  <2>3. CASE ChooseSibling \/ OpenOutput \/ CloseOutput \/ ReplaceFails
             \/ \E e \in Entries : Extract(e) \/ WriteEntry(e) \/ Change(e)
    <3>1. Call' = Call
      BY <2>3 DEF ChooseSibling, OpenOutput, CloseOutput, ReplaceFails, Extract, WriteEntry,
                  Change, Call
    <3>2. UNCHANGED <<saves, outcome, out, backups, aside>>
      BY <2>3 DEF ChooseSibling, OpenOutput, CloseOutput, ReplaceFails, Extract, WriteEntry,
                  Change, files, memory
    <3> QED BY <3>1, <3>2, KeptStays
  <2>4. CASE Displace
    <3>1. Call' = Call
      BY <2>4 DEF Displace, Call
    <3>2. Kept' = Kept
      BY <2>4, FirstFreeType, NothingAssumption DEF Displace, Kept, TypeInv, TypeOK
    <3> QED BY <2>4, <3>1, <3>2 DEF Displace
  <2>5. CASE Replace
    <3>1. Call = "running" /\ Call' = "replaced"
      BY <2>5 DEF Replace, Call
    <3>2. Complete(outputs[temp], saves) /\ outputs[temp] # Nothing
      BY <2>5 DEF Replace, FilesInv, CompleteWhenCommitted, Complete
    <3>3. Kept' = outputs[temp]
      BY <2>5, <3>2 DEF Replace, Kept
    <3>4. Kept' \in Content \cup {Nothing}
      BY <2>5, <3>3 DEF Replace, TypeInv, TypeOK, SiblingChosen
    <3> QED BY <2>5, <3>1, <3>2, <3>3, <3>4 DEF Replace, Output!Replace
  <2>6. CASE Restore
    <3>1. Call' = Call
      BY <2>6 DEF Restore, Call
    <3>2. Kept' = Kept
      BY <2>6, NothingAssumption
      DEF Restore, Kept, TypeInv, TypeOK, BackupHeld, BackupChosen, memory
    <3> QED BY <2>6, <3>1, <3>2 DEF Restore
  <2>7. CASE DropBackup
    <3>1. Call' = Call
      BY <2>7 DEF DropBackup, Call
    <3>2. Kept' = Kept
      BY <2>7 DEF DropBackup, Kept, TypeInv, BackupHeld
    <3> QED BY <2>7, <3>1, <3>2 DEF DropBackup
  <2>8. CASE Succeed
    <3>1. Call = "replaced" /\ Call' = "idle"
      BY <2>8 DEF Succeed, Call
    <3>2. Kept' = Kept
      BY <2>8, KeptStays DEF Succeed, files, memory
    <3> QED BY <2>8, <3>1, <3>2 DEF Succeed, Output!Return
  <2>9. CASE CleanUp
    <3>1. Call = "running" /\ Call' = "idle"
      BY <2>9 DEF CleanUp, Call
    <3>2. Kept' = Kept
      BY <2>9, KeptStays DEF CleanUp, memory
    <3> QED BY <2>9, <3>1, <3>2 DEF CleanUp, Output!Throw
  <2>10. CASE Crash
    <3>1. Call # "idle" /\ Call' = "idle"
      BY <2>10 DEF Crash, Call
    <3>2. Kept' = Kept
      BY <2>10, KeptStays DEF Crash, files, memory
    <3> QED BY <2>10, <3>1, <3>2 DEF Crash, Output!Die
  <2>11. CASE UNCHANGED vars
    BY <2>11, KeptStays DEF vars, files, memory, Call
  <2> QED
    BY <2>1, <2>2, <2>3, <2>4, <2>5, <2>6, <2>7, <2>8, <2>9, <2>10, <2>11
    DEF Next, ExtractFails, NoSibling, OpenFails, WriteFails, CloseFails, DisplaceFails,
        RestoreFails
<1> QED BY <1>1, <1>2, FlushesReported, TypeInvariant, FilesInvariant, PTL
        DEF Spec, Output!Spec, ImplementsOutput

=============================================================================
