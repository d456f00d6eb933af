------------------------- MODULE ReviewImportProofs -------------------------
(***************************************************************************)
(* Proofs about the review import of a single importer at a time, with     *)
(* failures and crashes at every step (see SoleImporter for the inductive  *)
(* invariant IInv).                                                        *)
(***************************************************************************)
EXTENDS SoleImporter, TLAPS

\* No batch is the absent verdict: a batch has at least one envelope.
LEMMA BatchIsVerdict == \A b \in Batches : b # NoVerdict /\ b.opps \subseteq Opps
BY BatchesAssumption DEF NoVerdict

\* The records a batch adds are records, and all of the batch.
LEMMA RecordsOfBatch ==
  ASSUME NEW b \in Batches
  PROVE  /\ RecordsOf(b) \subseteq Record
         /\ \A r \in RecordsOf(b) : r.batch = b
         /\ \A o \in b.opps : [opp |-> o, batch |-> b] \in RecordsOf(b)
BY BatchIsVerdict DEF RecordsOf, Record

----------------------------------------------------------------------------
(* Type correctness, for any set of importers. *)

\* The part of TypeOK that speaks of the local variables.
LocalOK == /\ local \in [Importers -> Local]
           /\ \A p \in Importers : ~At(p, "idle") => local[p].batch \in Batches

\* The part that speaks of the store and the files.
SharedOK == /\ verdict \in [Opps -> Batches \cup {NoVerdict}]
            /\ archive \subseteq Batches
            /\ provenance \in File
            /\ stagedImports \subseteq Batches
            /\ provStaging \in File
            /\ provBackup \in File
            /\ writer \in Importers \cup {NoImporter}

\* Before the first import everything is empty and idle.
LEMMA InitTypeOK == Init => TypeOK
BY DEF Init, TypeOK, File, Local, NoFile, Idle, Steps, At

\* Moving to another statement, or returning, keeps the local variables typed.
LEMMA GotoTyped ==
  ASSUME LocalOK, NEW p \in Importers, NEW s \in Steps, Goto(p, s), ~At(p, "idle")
  PROVE  LocalOK'
BY DEF LocalOK, Goto, At, Local

\* A process that returns is idle.
LEMMA ReturnTyped ==
  ASSUME LocalOK, NEW p \in Importers, Return(p)
  PROVE  LocalOK'
BY DEF LocalOK, Return, At, Idle, Local, Steps, NoFile, File

\* A running import works on a batch.
LEMMA BatchAtHand ==
  ASSUME LocalOK, NEW p \in Importers, ~At(p, "idle")
  PROVE  /\ local[p].batch \in Batches
         /\ RecordsOf(local[p].batch) \subseteq Record
         /\ local[p].old \in File
         /\ local[p].old.lines \subseteq Record
BY RecordsOfBatch DEF LocalOK, At, Local, File

\* Absent and written files are files.
LEMMA FilesTyped ==
  /\ NoFile \in File
  /\ \A ls \in SUBSET Record : FileWith(ls) \in File
BY DEF NoFile, FileWith, File

\* Every step keeps the variables in their types, whatever the importers.
LEMMA NextTypeOK == TypeOK /\ [Next]_vars => TypeOK'
<1> SUFFICES ASSUME LocalOK, SharedOK, [Next]_vars PROVE LocalOK' /\ SharedOK'
  BY DEF TypeOK, LocalOK, SharedOK
<1> USE DEF Steps, ReadSteps, WriteSteps, HandlerSteps
<1>1. CASE UNCHANGED vars
  BY <1>1 DEF vars, LocalOK, SharedOK, At
<1>2. ASSUME NEW p \in Importers, NEW b \in Batches, Start(p, b)
      PROVE  LocalOK' /\ SharedOK'
  BY <1>2 DEF Start, LocalOK, SharedOK, Local, At
<1>3. ASSUME NEW p \in Importers, CheckKinds(p) PROVE LocalOK' /\ SharedOK'
  <2>1. LocalOK'
    BY <1>3, GotoTyped, ReturnTyped DEF CheckKinds, At
  <2>2. SharedOK'
    BY <1>3 DEF CheckKinds, SharedOK
  <2> QED BY <2>1, <2>2
<1>4. ASSUME NEW p \in Importers, CheckCards(p) PROVE LocalOK' /\ SharedOK'
  <2>1. LocalOK'
    BY <1>4, GotoTyped, ReturnTyped DEF CheckCards, At
  <2>2. SharedOK'
    BY <1>4 DEF CheckCards, SharedOK
  <2> QED BY <2>1, <2>2
<1>5. ASSUME NEW p \in Importers, Prepare(p) PROVE LocalOK' /\ SharedOK'
  <2>1. LocalOK'
    BY <1>5 DEF Prepare, LocalOK, SharedOK, Local, At
  <2>2. SharedOK'
    BY <1>5 DEF Prepare, SharedOK
  <2> QED BY <2>1, <2>2
<1>6. ASSUME NEW p \in Importers, StageImport(p) PROVE LocalOK' /\ SharedOK'
  <2>1. LocalOK'
    BY <1>6, GotoTyped, ReturnTyped DEF StageImport, At
  <2>2. SharedOK'
    BY <1>6, BatchAtHand DEF StageImport, SharedOK, At
  <2> QED BY <2>1, <2>2
<1>7. ASSUME NEW p \in Importers, StageProvenance(p) PROVE LocalOK' /\ SharedOK'
  <2>1. LocalOK'
    BY <1>7, GotoTyped, ReturnTyped DEF StageProvenance, At
  <2>2. SharedOK'
    BY <1>7, BatchAtHand, FilesTyped DEF StageProvenance, SharedOK, At
  <2> QED BY <2>1, <2>2
<1>8. ASSUME NEW p \in Importers, StageVerdicts(p) PROVE LocalOK' /\ SharedOK'
  <2>1. LocalOK'
    BY <1>8, GotoTyped, ReturnTyped DEF StageVerdicts, At
  <2>2. SharedOK'
    BY <1>8 DEF StageVerdicts, SharedOK
  <2> QED BY <2>1, <2>2
<1>9. ASSUME NEW p \in Importers, BackupProvenance(p) PROVE LocalOK' /\ SharedOK'
  <2>1. LocalOK'
    BY <1>9, GotoTyped, ReturnTyped DEF BackupProvenance, At
  <2>2. SharedOK'
    BY <1>9, BatchAtHand DEF BackupProvenance, SharedOK, At
  <2> QED BY <2>1, <2>2
<1>10. ASSUME NEW p \in Importers, PublishImport(p) PROVE LocalOK' /\ SharedOK'
  <2>1. LocalOK'
    BY <1>10 DEF PublishImport, LocalOK, SharedOK, Local, At
  <2>2. SharedOK'
    BY <1>10, BatchAtHand DEF PublishImport, SharedOK, At
  <2> QED BY <2>1, <2>2
<1>11. ASSUME NEW p \in Importers, PublishProvenance(p) PROVE LocalOK' /\ SharedOK'
  <2>1. LocalOK'
    BY <1>11 DEF PublishProvenance, LocalOK, SharedOK, Local, At
  <2>2. SharedOK'
    BY <1>11, FilesTyped DEF PublishProvenance, SharedOK
  <2> QED BY <2>1, <2>2
<1>12. ASSUME NEW p \in Importers, Commit(p) PROVE LocalOK' /\ SharedOK'
  <2>1. LocalOK'
    BY <1>12, GotoTyped, ReturnTyped DEF Commit, At
  <2>2. SharedOK'
    BY <1>12, BatchAtHand DEF Commit, SharedOK, At
  <2> QED BY <2>1, <2>2
<1>13. ASSUME NEW p \in Importers, RemoveBackup(p) PROVE LocalOK' /\ SharedOK'
  <2>1. LocalOK'
    BY <1>13, GotoTyped, ReturnTyped DEF RemoveBackup, At
  <2>2. SharedOK'
    BY <1>13, FilesTyped DEF RemoveBackup, SharedOK
  <2> QED BY <2>1, <2>2
<1>14. ASSUME NEW p \in Importers, Raise(p) PROVE LocalOK' /\ SharedOK'
  <2>1. LocalOK'
    BY <1>14, GotoTyped, ReturnTyped DEF Raise, At
  <2>2. SharedOK'
    BY <1>14 DEF Raise, SharedOK
  <2> QED BY <2>1, <2>2
<1>15. ASSUME NEW p \in Importers, RollbackTransaction(p) PROVE LocalOK' /\ SharedOK'
  <2>1. LocalOK'
    BY <1>15, GotoTyped, ReturnTyped DEF RollbackTransaction, At
  <2>2. SharedOK'
    BY <1>15 DEF RollbackTransaction, SharedOK
  <2> QED BY <2>1, <2>2
<1>16. ASSUME NEW p \in Importers, UnpublishImport(p) PROVE LocalOK' /\ SharedOK'
  <2>1. LocalOK'
    BY <1>16 DEF UnpublishImport, LocalOK, SharedOK, Local, At
  <2>2. SharedOK'
    BY <1>16 DEF UnpublishImport, SharedOK
  <2> QED BY <2>1, <2>2
<1>17. ASSUME NEW p \in Importers, RestoreProvenance(p) PROVE LocalOK' /\ SharedOK'
  <2>1. LocalOK'
    BY <1>17 DEF RestoreProvenance, LocalOK, SharedOK, Local, At
  <2>2. SharedOK'
    BY <1>17, FilesTyped DEF RestoreProvenance, SharedOK
  <2> QED BY <2>1, <2>2
<1>18. ASSUME NEW p \in Importers, HandlerRaises(p) PROVE LocalOK' /\ SharedOK'
  <2>1. LocalOK'
    BY <1>18, GotoTyped, ReturnTyped DEF HandlerRaises, At, HandlerSteps
  <2>2. SharedOK'
    BY <1>18 DEF HandlerRaises, SharedOK
  <2> QED BY <2>1, <2>2
<1>19. ASSUME NEW p \in Importers, RemoveStaging(p) PROVE LocalOK' /\ SharedOK'
  <2>1. LocalOK'
    BY <1>19, GotoTyped, ReturnTyped DEF RemoveStaging, At
  <2>2. SharedOK'
    BY <1>19, FilesTyped DEF RemoveStaging, SharedOK
  <2> QED BY <2>1, <2>2
<1>20. ASSUME NEW p \in Importers, Crash(p) PROVE LocalOK' /\ SharedOK'
  <2>1. LocalOK'
    BY <1>20, GotoTyped, ReturnTyped DEF Crash, At
  <2>2. SharedOK'
    BY <1>20 DEF Crash, SharedOK
  <2> QED BY <2>1, <2>2
<1>21. QED
  BY <1>1, <1>2, <1>3, <1>4, <1>5, <1>6, <1>7, <1>8, <1>9, <1>10, <1>11, <1>12,
     <1>13, <1>14, <1>15, <1>16, <1>17, <1>18, <1>19, <1>20 DEF Next, TryStep,
     HandlerStep

\* The tables, files and local variables of import_reviews hold values of their
\* kinds, whatever the number of importers, failures and crashes.
THEOREM TypeCorrect == Spec => []TypeOK
BY InitTypeOK, NextTypeOK, PTL DEF Spec

----------------------------------------------------------------------------
(* The inductive invariant of a sole importer. *)

\* What the store and the files satisfy between any two steps.
SharedInv == /\ OwnCards
             /\ CommittedIsAudited
             /\ WholeBatches
             /\ OneKind(provenance.lines)

LocalInv(p) == BatchIsFresh(p) /\ SnapshotIsCurrent(p) /\ FlagsAreTrue(p)

\* Nothing has been imported: every part of the invariant holds vacuously.
LEMMA InitIInv == Init => IInv
BY InitTypeOK DEF Init, IInv, OwnCards, CommittedIsAudited, WholeBatches, OneKind,
   BatchIsFresh, SnapshotIsCurrent, FlagsAreTrue, NoVerdict, NoFile, Idle,
   KindsChecked, CardsChecked, HoldsSnapshot, StagedSteps, BackedUpSteps,
   ReadSteps, WriteSteps, HandlerSteps

\* Every statement of the protocol, its handler and a crash keep the invariant:
\* this is where the order of the statements of import_reviews matters.
LEMMA NextIInv == IInv /\ [Next]_vars => IInv'
<1> SUFFICES ASSUME IInv, [Next]_vars, LocalOK, SharedOK, TypeOK'
             PROVE  SharedInv' /\ \A p \in Importers : LocalInv(p)'
  BY NextTypeOK DEF IInv, TypeOK, LocalOK, SharedOK, SharedInv, LocalInv
<1> USE DEF ReadSteps, WriteSteps, HandlerSteps,
            KindsChecked, CardsChecked, HoldsSnapshot, StagedSteps, BackedUpSteps
<1>0. SharedInv /\ \A p \in Importers : LocalInv(p)
  BY DEF IInv, SharedInv, LocalInv
<1>1. CASE UNCHANGED vars
  BY <1>0, <1>1 DEF vars, SharedInv, OwnCards, CommittedIsAudited, WholeBatches,
     OneKind, LocalInv, BatchIsFresh, SnapshotIsCurrent, FlagsAreTrue, Audits
<1>2. ASSUME NEW p \in Importers, NEW b \in Batches, Start(p, b)
      PROVE  SharedInv' /\ LocalInv(p)'
  <2>1. /\ local'[p] = [local[p] EXCEPT !.step = "kinds", !.batch = b]
        /\ local[p] \in Local
    BY <1>2 DEF Start, LocalOK
  <2>2. /\ local'[p].step = "kinds"
        /\ local'[p].replaced = local[p].replaced
        /\ local'[p].published = local[p].published
    BY <2>1 DEF Local
  <2>3. SharedInv'
    BY <1>0, <1>2 DEF Start, SharedInv, OwnCards, CommittedIsAudited,
       WholeBatches, OneKind
  <2>4. ~local[p].replaced /\ ~local[p].published
    BY <1>0, <1>2 DEF LocalInv, FlagsAreTrue, Start, At
  <2> QED BY <2>2, <2>3, <2>4 DEF LocalInv, BatchIsFresh, SnapshotIsCurrent,
             FlagsAreTrue
<1>3. ASSUME NEW p \in Importers, CheckKinds(p) PROVE SharedInv' /\ LocalInv(p)'
  <2>1. SharedInv'
    BY <1>0, <1>3 DEF CheckKinds, SharedInv, OwnCards, CommittedIsAudited,
       WholeBatches, OneKind
  <2>2. CASE SameKind(local[p].batch, provenance.lines)
    <3>1. /\ local'[p].step = "cards"
        /\ local'[p].batch = local[p].batch
        /\ local'[p].old = local[p].old
        /\ local'[p].published = local[p].published
        /\ local'[p].replaced = local[p].replaced
      BY <1>3, <2>2 DEF CheckKinds, Goto, LocalOK, Local
    <3>2. ~local[p].replaced
      BY <1>0, <1>3 DEF CheckKinds, At, LocalInv, FlagsAreTrue
    <3>3. LocalInv(p)'
      BY <1>0, <1>3, <2>2, <3>1, <3>2 DEF CheckKinds, At, LocalInv, BatchIsFresh,
         SnapshotIsCurrent, FlagsAreTrue
    <3> QED BY <2>1, <3>3
  <2>3. CASE ~SameKind(local[p].batch, provenance.lines)
    <3>1. local'[p] = Idle
      BY <1>3, <2>3 DEF CheckKinds, Return, LocalOK
    <3>2. LocalInv(p)'
      BY <3>1 DEF Idle, NoFile, LocalInv, BatchIsFresh, SnapshotIsCurrent,
         FlagsAreTrue
    <3> QED BY <2>1, <3>2
  <2> QED BY <2>2, <2>3
<1>4. ASSUME NEW p \in Importers, CheckCards(p) PROVE SharedInv' /\ LocalInv(p)'
  <2>1. SharedInv'
    BY <1>0, <1>4 DEF CheckCards, SharedInv, OwnCards, CommittedIsAudited,
       WholeBatches, OneKind
  <2>2. CASE NotYetReviewed(local[p].batch, verdict)
    <3>1. /\ local'[p].step = "prepare"
        /\ local'[p].batch = local[p].batch
        /\ local'[p].old = local[p].old
        /\ local'[p].published = local[p].published
        /\ local'[p].replaced = local[p].replaced
      BY <1>4, <2>2 DEF CheckCards, Goto, LocalOK, Local
    <3>2. ~local[p].replaced
      BY <1>0, <1>4 DEF CheckCards, At, LocalInv, FlagsAreTrue
    <3>3. LocalInv(p)'
      BY <1>0, <1>4, <2>2, <3>1, <3>2 DEF CheckCards, At, LocalInv, BatchIsFresh,
         SnapshotIsCurrent, FlagsAreTrue
    <3> QED BY <2>1, <3>3
  <2>3. CASE ~NotYetReviewed(local[p].batch, verdict)
    <3>1. local'[p] = Idle
      BY <1>4, <2>3 DEF CheckCards, Return, LocalOK
    <3>2. LocalInv(p)'
      BY <3>1 DEF Idle, NoFile, LocalInv, BatchIsFresh, SnapshotIsCurrent,
         FlagsAreTrue
    <3> QED BY <2>1, <3>2
  <2> QED BY <2>2, <2>3
<1>5. ASSUME NEW p \in Importers, Prepare(p) PROVE SharedInv' /\ LocalInv(p)'
  <2>1. /\ local'[p].step = "stage_import"
        /\ local'[p].batch = local[p].batch
        /\ local'[p].old = provenance
        /\ local'[p].published = local[p].published
        /\ local'[p].replaced = local[p].replaced
    BY <1>5 DEF Prepare, Goto, LocalOK, Local
  <2>2. LocalInv(p)'
    BY <1>0, <1>5, <2>1, BatchAtHand DEF Prepare, At, SharedInv,
       CommittedIsAudited, LocalInv,
       BatchIsFresh, SnapshotIsCurrent, FlagsAreTrue, Audits
  <2>3. SharedInv'
    BY <1>0, <1>5, BatchAtHand DEF Prepare, At, SharedInv, OwnCards,
       CommittedIsAudited,
       WholeBatches, OneKind, LocalInv, BatchIsFresh, SnapshotIsCurrent, FlagsAreTrue
  <2> QED BY <2>1, <2>2, <2>3
<1>6. ASSUME NEW p \in Importers, StageImport(p) PROVE SharedInv' /\ LocalInv(p)'
  <2>1. /\ local'[p].step = "stage_provenance"
        /\ local'[p].batch = local[p].batch
        /\ local'[p].old = local[p].old
        /\ local'[p].published = local[p].published
        /\ local'[p].replaced = local[p].replaced
    BY <1>6 DEF StageImport, Goto, LocalOK, Local
  <2>2. LocalInv(p)'
    BY <1>0, <1>6, <2>1, BatchAtHand DEF StageImport, At, SharedInv,
       CommittedIsAudited, LocalInv,
       BatchIsFresh, SnapshotIsCurrent, FlagsAreTrue, Audits
  <2>3. SharedInv'
    BY <1>0, <1>6, BatchAtHand DEF StageImport, At, SharedInv, OwnCards,
       CommittedIsAudited,
       WholeBatches, OneKind, LocalInv, BatchIsFresh, SnapshotIsCurrent, FlagsAreTrue
  <2> QED BY <2>1, <2>2, <2>3
<1>7. ASSUME NEW p \in Importers, StageProvenance(p) PROVE SharedInv' /\ LocalInv(p)'
  <2>1. /\ local'[p].step = "stage_verdicts"
        /\ local'[p].batch = local[p].batch
        /\ local'[p].old = local[p].old
        /\ local'[p].published = local[p].published
        /\ local'[p].replaced = local[p].replaced
    BY <1>7 DEF StageProvenance, Goto, LocalOK, Local
  <2>2. LocalInv(p)'
    BY <1>0, <1>7, <2>1, BatchAtHand DEF StageProvenance, At, SharedInv,
       CommittedIsAudited, LocalInv,
       BatchIsFresh, SnapshotIsCurrent, FlagsAreTrue, Audits
  <2>3. SharedInv'
    BY <1>0, <1>7, BatchAtHand DEF StageProvenance, At, SharedInv, OwnCards,
       CommittedIsAudited,
       WholeBatches, OneKind, LocalInv, BatchIsFresh, SnapshotIsCurrent, FlagsAreTrue
  <2> QED BY <2>1, <2>2, <2>3
<1>8. ASSUME NEW p \in Importers, StageVerdicts(p) PROVE SharedInv' /\ LocalInv(p)'
  <2>1. /\ local'[p].step = "backup"
        /\ local'[p].batch = local[p].batch
        /\ local'[p].old = local[p].old
        /\ local'[p].published = local[p].published
        /\ local'[p].replaced = local[p].replaced
    BY <1>8 DEF StageVerdicts, Goto, LocalOK, Local
  <2>2. LocalInv(p)'
    BY <1>0, <1>8, <2>1, BatchAtHand DEF StageVerdicts, At, SharedInv,
       CommittedIsAudited, LocalInv,
       BatchIsFresh, SnapshotIsCurrent, FlagsAreTrue, Audits
  <2>3. SharedInv'
    BY <1>0, <1>8, BatchAtHand DEF StageVerdicts, At, SharedInv, OwnCards,
       CommittedIsAudited,
       WholeBatches, OneKind, LocalInv, BatchIsFresh, SnapshotIsCurrent, FlagsAreTrue
  <2> QED BY <2>1, <2>2, <2>3
<1>9. ASSUME NEW p \in Importers, BackupProvenance(p) PROVE SharedInv' /\ LocalInv(p)'
  <2>1. /\ local'[p].step = "publish_import"
        /\ local'[p].batch = local[p].batch
        /\ local'[p].old = local[p].old
        /\ local'[p].published = local[p].published
        /\ local'[p].replaced = local[p].replaced
    BY <1>9 DEF BackupProvenance, Goto, LocalOK, Local
  <2>2. LocalInv(p)'
    BY <1>0, <1>9, <2>1, BatchAtHand DEF BackupProvenance, At, SharedInv,
       CommittedIsAudited, LocalInv,
       BatchIsFresh, SnapshotIsCurrent, FlagsAreTrue, Audits
  <2>3. SharedInv'
    BY <1>0, <1>9, BatchAtHand DEF BackupProvenance, At, SharedInv, OwnCards,
       CommittedIsAudited,
       WholeBatches, OneKind, LocalInv, BatchIsFresh, SnapshotIsCurrent, FlagsAreTrue
  <2> QED BY <2>1, <2>2, <2>3
<1>10. ASSUME NEW p \in Importers, PublishImport(p) PROVE SharedInv' /\ LocalInv(p)'
  <2>1. /\ local'[p].step = "publish_provenance"
        /\ local'[p].batch = local[p].batch
        /\ local'[p].old = local[p].old
        /\ local'[p].published = TRUE
        /\ local'[p].replaced = local[p].replaced
    BY <1>10 DEF PublishImport, Goto, LocalOK, Local
  <2>2. LocalInv(p)'
    BY <1>0, <1>10, <2>1, BatchAtHand DEF PublishImport, At, SharedInv,
       CommittedIsAudited, LocalInv,
       BatchIsFresh, SnapshotIsCurrent, FlagsAreTrue, Audits
  <2>3. SharedInv'
    BY <1>0, <1>10, BatchAtHand DEF PublishImport, At, SharedInv, OwnCards,
       CommittedIsAudited,
       WholeBatches, OneKind, LocalInv, BatchIsFresh, SnapshotIsCurrent, FlagsAreTrue
  <2> QED BY <2>1, <2>2, <2>3
<1>11. ASSUME NEW p \in Importers, PublishProvenance(p) PROVE SharedInv' /\ LocalInv(p)'
  <2>1. /\ local'[p].step = "commit"
        /\ local'[p].batch = local[p].batch
        /\ local'[p].old = local[p].old
        /\ local'[p].published = local[p].published
        /\ local'[p].replaced = TRUE
    BY <1>11 DEF PublishProvenance, LocalOK, Local
  <2>2. /\ ~local[p].replaced
        /\ local[p].batch \in archive
        /\ local[p].published => local[p].step = "publish_provenance"
    BY <1>0, <1>11 DEF PublishProvenance, At, LocalInv, FlagsAreTrue
  <2>3. /\ local[p].old = provenance
        /\ Audits(local[p].old.lines)
        /\ OneKind(local[p].old.lines)
        /\ provStaging = FileWith(local[p].old.lines \cup RecordsOf(local[p].batch))
        /\ local[p].old.exists => provBackup = local[p].old
    BY <1>0, <1>11, <2>2 DEF PublishProvenance, At, LocalInv, SnapshotIsCurrent
  <2>4. /\ SameKind(local[p].batch, local[p].old.lines)
        /\ NotYetReviewed(local[p].batch, verdict)
    BY <1>0, <1>11, <2>2, <2>3 DEF PublishProvenance, At, LocalInv, BatchIsFresh
  <2>5. UNCHANGED <<verdict, archive, provBackup>> /\ provenance' = provStaging
    BY <1>11 DEF PublishProvenance
  <2>6. BatchIsFresh(p)'
    BY <2>1, <2>4, <2>5 DEF BatchIsFresh
  <2>7. SnapshotIsCurrent(p)'
    BY <2>1, <2>3, <2>5 DEF SnapshotIsCurrent, Audits
  <2>8. FlagsAreTrue(p)'
    BY <2>1, <2>2, <2>3, <2>5 DEF FlagsAreTrue
  <2>9. provenance'.lines = local[p].old.lines \cup RecordsOf(local[p].batch)
    BY <2>3, <2>5 DEF FileWith
  <2>10. OneKind(provenance.lines)'
    <3>1. local[p].batch \in Batches
      BY <1>11, BatchAtHand DEF PublishProvenance, At
    <3>2. \A r \in local[p].old.lines : r.batch.kind = local[p].batch.kind
      BY <2>4 DEF SameKind, KindsOf
    <3>3. \A r \in RecordsOf(local[p].batch) : r.batch.kind = local[p].batch.kind
      BY <3>1, RecordsOfBatch
    <3> QED BY <2>9, <3>2, <3>3 DEF OneKind
  <2>11. CommittedIsAudited'
    BY <1>0, <2>3, <2>5, <2>9 DEF SharedInv, CommittedIsAudited, Audits
  <2>12. OwnCards' /\ WholeBatches'
    BY <1>0, <2>5 DEF SharedInv, OwnCards, WholeBatches
  <2> QED BY <2>6, <2>7, <2>8, <2>10, <2>11, <2>12 DEF LocalInv, SharedInv
<1>12. ASSUME NEW p \in Importers, Commit(p) PROVE SharedInv' /\ LocalInv(p)'
  <2> DEFINE b == local[p].batch
  <2>1. /\ local'[p].step = "cleanup"
        /\ local'[p].batch = local[p].batch
        /\ local'[p].old = local[p].old
        /\ local'[p].published = local[p].published
        /\ local'[p].replaced = local[p].replaced
    BY <1>12 DEF Commit, Goto, LocalOK, Local
  <2>2. /\ b \in Batches
        /\ b \in archive
        /\ provenance = FileWith(local[p].old.lines \cup RecordsOf(b))
        /\ local[p].published => local[p].step = "commit"
    BY <1>0, <1>12, BatchAtHand DEF Commit, At, LocalInv, FlagsAreTrue
  <2>3. NotYetReviewed(b, verdict)
    BY <1>0, <1>12 DEF Commit, At, LocalInv, BatchIsFresh
  <2>4. /\ UNCHANGED <<archive, provenance>>
        /\ verdict' = [o \in Opps |-> IF o \in b.opps THEN b ELSE verdict[o]]
    BY <1>12 DEF Commit
  <2>5. LocalInv(p)'
    BY <2>1 DEF LocalInv, BatchIsFresh, SnapshotIsCurrent, FlagsAreTrue
  <2>6. OwnCards'
    BY <1>0, <2>4 DEF SharedInv, OwnCards
  <2>7. \A o \in b.opps : [opp |-> o, batch |-> b] \in provenance.lines
    BY <2>2, RecordsOfBatch DEF FileWith
  <2>8. CommittedIsAudited'
    BY <1>0, <2>2, <2>4, <2>7 DEF SharedInv, CommittedIsAudited
  <2>9. WholeBatches'
    BY <1>0, <2>2, <2>3, <2>4, BatchIsVerdict DEF SharedInv, OwnCards,
       WholeBatches, NotYetReviewed
  <2>10. OneKind(provenance.lines)'
    BY <1>0, <2>4 DEF SharedInv, OneKind
  <2> QED BY <2>5, <2>6, <2>8, <2>9, <2>10 DEF SharedInv
<1>13. ASSUME NEW p \in Importers, RemoveBackup(p) PROVE SharedInv' /\ LocalInv(p)'
  <2>1. local'[p] = Idle
    BY <1>13 DEF RemoveBackup, Return, LocalOK
  <2>2. LocalInv(p)'
    BY <2>1 DEF Idle, NoFile, LocalInv, BatchIsFresh, SnapshotIsCurrent,
       FlagsAreTrue
  <2>3. SharedInv'
    BY <1>0, <1>13, BatchAtHand DEF RemoveBackup, At, SharedInv, OwnCards,
       CommittedIsAudited,
       WholeBatches, OneKind, LocalInv, BatchIsFresh, SnapshotIsCurrent, FlagsAreTrue
  <2> QED BY <2>1, <2>2, <2>3
<1>14. ASSUME NEW p \in Importers, Raise(p) PROVE SharedInv' /\ LocalInv(p)'
  <2>1. /\ local'[p].step = "rollback"
        /\ local'[p].batch = local[p].batch
        /\ local'[p].old = local[p].old
        /\ local'[p].published = local[p].published
        /\ local'[p].replaced = local[p].replaced
    BY <1>14 DEF Raise, Goto, LocalOK, Local
  <2>2. LocalInv(p)'
    BY <1>0, <1>14, <2>1, BatchAtHand DEF Raise, At, SharedInv,
       CommittedIsAudited, LocalInv,
       BatchIsFresh, SnapshotIsCurrent, FlagsAreTrue, Audits
  <2>3. SharedInv'
    BY <1>0, <1>14, BatchAtHand DEF Raise, At, SharedInv, OwnCards,
       CommittedIsAudited,
       WholeBatches, OneKind, LocalInv, BatchIsFresh, SnapshotIsCurrent, FlagsAreTrue
  <2> QED BY <2>1, <2>2, <2>3
<1>15. ASSUME NEW p \in Importers, RollbackTransaction(p) PROVE SharedInv' /\ LocalInv(p)'
  <2>1. /\ local'[p].step = "unpublish"
        /\ local'[p].batch = local[p].batch
        /\ local'[p].old = local[p].old
        /\ local'[p].published = local[p].published
        /\ local'[p].replaced = local[p].replaced
    BY <1>15 DEF RollbackTransaction, Goto, LocalOK, Local
  <2>2. LocalInv(p)'
    BY <1>0, <1>15, <2>1, BatchAtHand DEF RollbackTransaction, At, SharedInv,
       CommittedIsAudited, LocalInv,
       BatchIsFresh, SnapshotIsCurrent, FlagsAreTrue, Audits
  <2>3. SharedInv'
    BY <1>0, <1>15, BatchAtHand DEF RollbackTransaction, At, SharedInv,
       OwnCards, CommittedIsAudited,
       WholeBatches, OneKind, LocalInv, BatchIsFresh, SnapshotIsCurrent, FlagsAreTrue
  <2> QED BY <2>1, <2>2, <2>3
<1>16. ASSUME NEW p \in Importers, UnpublishImport(p) PROVE SharedInv' /\ LocalInv(p)'
  <2>1. /\ local'[p].step = "restore"
        /\ local'[p].batch = local[p].batch
        /\ local'[p].old = local[p].old
        /\ local'[p].published = FALSE
        /\ local'[p].replaced = local[p].replaced
    BY <1>16 DEF UnpublishImport, LocalOK, Local
  <2>2. LocalInv(p)'
    BY <1>0, <1>16, <2>1, BatchAtHand DEF UnpublishImport, At, SharedInv,
       CommittedIsAudited, LocalInv,
       BatchIsFresh, SnapshotIsCurrent, FlagsAreTrue, Audits
  <2>3. /\ local[p].batch \in Batches
        /\ NotYetReviewed(local[p].batch, verdict)
    BY <1>0, <1>16, BatchAtHand DEF UnpublishImport, At, LocalInv, BatchIsFresh
  <2>4. \A o \in Opps : verdict[o] # local[p].batch
    BY <1>0, <2>3, BatchIsVerdict DEF SharedInv, OwnCards, NotYetReviewed
  <2>5. SharedInv'
    BY <1>0, <1>16, <2>4 DEF UnpublishImport, SharedInv, OwnCards,
       CommittedIsAudited,
       WholeBatches, OneKind
  <2> QED BY <2>2, <2>5
<1>17. ASSUME NEW p \in Importers, RestoreProvenance(p) PROVE SharedInv' /\ LocalInv(p)'
  <2>1. /\ local'[p].step = "unstage"
        /\ local'[p].batch = local[p].batch
        /\ local'[p].old = local[p].old
        /\ local'[p].published = local[p].published
        /\ local'[p].replaced = FALSE
    BY <1>17 DEF RestoreProvenance, LocalOK, Local
  <2>2. /\ Audits(local[p].old.lines)
        /\ OneKind(local[p].old.lines)
        /\ NotYetReviewed(local[p].batch, verdict)
        /\ ~local[p].published
        /\ ~local[p].replaced => local[p].old = provenance
        /\ local[p].replaced /\ local[p].old.exists => provBackup = local[p].old
    BY <1>0, <1>17 DEF RestoreProvenance, At, LocalInv, BatchIsFresh,
       SnapshotIsCurrent, FlagsAreTrue
  <2>3. ~local[p].old.exists => local[p].old = NoFile
    BY <1>17, BatchAtHand DEF RestoreProvenance, At, File, NoFile
  <2>4. provenance' = local[p].old /\ UNCHANGED <<verdict, archive>>
    BY <1>17, <2>2, <2>3 DEF RestoreProvenance
  <2>5. SameKind(local[p].batch, local[p].old.lines)
    BY <1>0, <1>17, <2>2 DEF RestoreProvenance, At, LocalInv, BatchIsFresh
  <2>6. LocalInv(p)'
    BY <2>1, <2>2, <2>4, <2>5 DEF LocalInv, BatchIsFresh, SnapshotIsCurrent,
       FlagsAreTrue, Audits
  <2>7. SharedInv'
    BY <1>0, <2>2, <2>4 DEF SharedInv, OwnCards, CommittedIsAudited,
       WholeBatches, OneKind, Audits
  <2> QED BY <2>6, <2>7
<1>18. ASSUME NEW p \in Importers, HandlerRaises(p) PROVE SharedInv' /\ LocalInv(p)'
  <2>1. local'[p] = Idle
    BY <1>18 DEF HandlerRaises, Return, LocalOK
  <2>2. LocalInv(p)'
    BY <2>1 DEF Idle, NoFile, LocalInv, BatchIsFresh, SnapshotIsCurrent,
       FlagsAreTrue
  <2>3. SharedInv'
    BY <1>0, <1>18, BatchAtHand DEF HandlerRaises, At, HandlerSteps, SharedInv, OwnCards,
       CommittedIsAudited,
       WholeBatches, OneKind, LocalInv, BatchIsFresh, SnapshotIsCurrent, FlagsAreTrue
  <2> QED BY <2>1, <2>2, <2>3
<1>19. ASSUME NEW p \in Importers, RemoveStaging(p) PROVE SharedInv' /\ LocalInv(p)'
  <2>1. local'[p] = Idle
    BY <1>19 DEF RemoveStaging, Return, LocalOK
  <2>2. LocalInv(p)'
    BY <2>1 DEF Idle, NoFile, LocalInv, BatchIsFresh, SnapshotIsCurrent,
       FlagsAreTrue
  <2>3. SharedInv'
    BY <1>0, <1>19, BatchAtHand DEF RemoveStaging, At, SharedInv, OwnCards,
       CommittedIsAudited,
       WholeBatches, OneKind, LocalInv, BatchIsFresh, SnapshotIsCurrent, FlagsAreTrue
  <2> QED BY <2>1, <2>2, <2>3
<1>20. ASSUME NEW p \in Importers, Crash(p) PROVE SharedInv' /\ LocalInv(p)'
  <2>1. local'[p] = Idle
    BY <1>20 DEF Crash, Return, LocalOK
  <2>2. LocalInv(p)'
    BY <2>1 DEF Idle, NoFile, LocalInv, BatchIsFresh, SnapshotIsCurrent,
       FlagsAreTrue
  <2>3. SharedInv'
    BY <1>0, <1>20, BatchAtHand DEF Crash, At, SharedInv, OwnCards,
       CommittedIsAudited,
       WholeBatches, OneKind, LocalInv, BatchIsFresh, SnapshotIsCurrent, FlagsAreTrue
  <2> QED BY <2>1, <2>2, <2>3
<1>21. QED
  BY <1>1, SoleImporterAssumption, <1>2, <1>3, <1>4, <1>5, <1>6, <1>7, <1>8,
     <1>9, <1>10, <1>11, <1>12, <1>13, <1>14, <1>15, <1>16, <1>17, <1>18, <1>19,
     <1>20 DEF Next, TryStep, HandlerStep

\* The invariant holds in every reachable state of a sole importer.
LEMMA Inductive == Spec => []IInv
BY InitIInv, NextIInv, PTL DEF Spec

\* Whatever fails or crashes, a verdict in the store has its archived file and
\* its provenance record: import_reviews commits SQLite last.
THEOREM AuditTrail == Spec => []CommittedIsAudited
<1>1. IInv => CommittedIsAudited
  BY DEF IInv
<1>2. QED
  BY <1>1, Inductive, PTL

\* The verdicts of a batch are committed together and never replaced.
THEOREM BatchesStayWhole == Spec => []WholeBatches
<1>1. IInv => WholeBatches
  BY DEF IInv
<1>2. QED
  BY <1>1, Inductive, PTL

\* Human and fixture reviews never meet in one run, in the store or in
\* provenance.jsonl, even after a crash that left records behind.
THEOREM KindsNeverMix == Spec => []NeverMixed
<1>1. IInv => NeverMixed
  <2> SUFFICES ASSUME IInv PROVE NeverMixed
    OBVIOUS
  <2>1. OneKind(provenance.lines) /\ CommittedIsAudited
    BY DEF IInv
  <2>2. \A o \in Opps : verdict[o] # NoVerdict =>
          \E r \in provenance.lines : r.batch = verdict[o]
    BY <2>1 DEF CommittedIsAudited
  <2> QED BY <2>1, <2>2 DEF OneKind, NeverMixed
<1>2. QED
  BY <1>1, Inductive, PTL

----------------------------------------------------------------------------
(* The write lock, for any set of importers. *)

\* Every way out of the transaction, a commit, a rollback or a crash, gives
\* SQLite's write lock back, so no later import waits for a dead one.
THEOREM LockDiscipline == Spec => []LockIsReleased
<1>1. Init => LockIsReleased
  BY DEF Init, LockIsReleased
<1>2. TypeOK /\ LockIsReleased /\ [Next]_vars => LockIsReleased'
  <2> SUFFICES ASSUME LocalOK, SharedOK, LockIsReleased, [Next]_vars
               PROVE  LockIsReleased'
    BY DEF TypeOK, LocalOK, SharedOK
  <2> USE DEF LockIsReleased, At, Goto, Return, LocalOK, Local, SharedOK
  <2>1. CASE UNCHANGED vars
    BY <2>1 DEF vars
  <2>2. ASSUME NEW p \in Importers, NEW b \in Batches, Start(p, b)
        PROVE  LockIsReleased'
    BY <2>2 DEF Start
  <2>3. ASSUME NEW p \in Importers, CheckKinds(p) PROVE LockIsReleased'
    BY <2>3, ImporterAssumption DEF CheckKinds
  <2>4. ASSUME NEW p \in Importers, CheckCards(p) PROVE LockIsReleased'
    BY <2>4, ImporterAssumption DEF CheckCards
  <2>5. ASSUME NEW p \in Importers, Prepare(p) PROVE LockIsReleased'
    BY <2>5, ImporterAssumption DEF Prepare
  <2>6. ASSUME NEW p \in Importers, StageImport(p) PROVE LockIsReleased'
    BY <2>6, ImporterAssumption DEF StageImport
  <2>7. ASSUME NEW p \in Importers, StageProvenance(p) PROVE LockIsReleased'
    BY <2>7, ImporterAssumption DEF StageProvenance
  <2>8. ASSUME NEW p \in Importers, StageVerdicts(p) PROVE LockIsReleased'
    BY <2>8, ImporterAssumption DEF StageVerdicts
  <2>9. ASSUME NEW p \in Importers, BackupProvenance(p) PROVE LockIsReleased'
    BY <2>9, ImporterAssumption DEF BackupProvenance
  <2>10. ASSUME NEW p \in Importers, PublishImport(p) PROVE LockIsReleased'
    BY <2>10, ImporterAssumption DEF PublishImport
  <2>11. ASSUME NEW p \in Importers, PublishProvenance(p) PROVE LockIsReleased'
    BY <2>11, ImporterAssumption DEF PublishProvenance
  <2>12. ASSUME NEW p \in Importers, Commit(p) PROVE LockIsReleased'
    BY <2>12, ImporterAssumption DEF Commit
  <2>13. ASSUME NEW p \in Importers, RemoveBackup(p) PROVE LockIsReleased'
    BY <2>13, ImporterAssumption DEF RemoveBackup
  <2>14. ASSUME NEW p \in Importers, Raise(p) PROVE LockIsReleased'
    BY <2>14, ImporterAssumption DEF Raise, WriteSteps
  <2>15. ASSUME NEW p \in Importers, RollbackTransaction(p) PROVE LockIsReleased'
    BY <2>15, ImporterAssumption DEF RollbackTransaction
  <2>16. ASSUME NEW p \in Importers, UnpublishImport(p) PROVE LockIsReleased'
    BY <2>16, ImporterAssumption DEF UnpublishImport
  <2>17. ASSUME NEW p \in Importers, RestoreProvenance(p) PROVE LockIsReleased'
    BY <2>17, ImporterAssumption DEF RestoreProvenance
  <2>18. ASSUME NEW p \in Importers, HandlerRaises(p) PROVE LockIsReleased'
    BY <2>18, ImporterAssumption DEF HandlerRaises, HandlerSteps
  <2>19. ASSUME NEW p \in Importers, RemoveStaging(p) PROVE LockIsReleased'
    BY <2>19, ImporterAssumption DEF RemoveStaging
  <2>20. ASSUME NEW p \in Importers, Crash(p) PROVE LockIsReleased'
    BY <2>20, ImporterAssumption DEF Crash
  <2> QED
    BY <2>1, <2>2, <2>3, <2>4, <2>5, <2>6, <2>7, <2>8, <2>9, <2>10, <2>11,
       <2>12, <2>13, <2>14, <2>15, <2>16, <2>17, <2>18, <2>19, <2>20 DEF Next,
       TryStep, HandlerStep
<1>3. QED
  BY <1>1, <1>2, TypeCorrect, PTL DEF Spec
=============================================================================
