----------------------- MODULE ReviewImportRefinement -----------------------
(***************************************************************************)
(* The publication protocol of import_reviews implements the atomic import *)
(* of AtomicImport when one process imports at a time and is not killed.   *)
(* Failures may strike at every step of the write phase.  The abstract     *)
(* import takes place at the commit of the SQL transaction.                *)
(***************************************************************************)
EXTENDS ReviewImportProofs

\* With one importer the mapping is about that importer alone.
Mapping ==
  \A p \in Importers :
    /\ EffectiveArchive =
         IF Unfinished(p) /\ local[p].published THEN archive \ {local[p].batch}
                                                ELSE archive
    /\ EffectiveLines =
         IF Unfinished(p) /\ local[p].replaced THEN local[p].old.lines
                                               ELSE provenance.lines

\* The refinement mapping, read for the only importer.
LEMMA MappingOfSole == Mapping
<1> SUFFICES ASSUME NEW p \in Importers
             PROVE  /\ EffectiveArchive =
                         IF Unfinished(p) /\ local[p].published
                         THEN archive \ {local[p].batch} ELSE archive
                    /\ EffectiveLines =
                         IF Unfinished(p) /\ local[p].replaced
                         THEN local[p].old.lines ELSE provenance.lines
  BY DEF Mapping
<1>0. Importers = {p}
  BY SoleImporterAssumption
<1>1. EffectiveArchive = IF Unfinished(p) /\ local[p].published
                         THEN archive \ {local[p].batch} ELSE archive
  <2>1. EffectiveArchive = archive \ {local[q].batch : q \in
                             {r \in {p} : Unfinished(r) /\ local[r].published}}
    BY <1>0 DEF EffectiveArchive
  <2> QED BY <2>1
<1>2. EffectiveLines = IF Unfinished(p) /\ local[p].replaced
                       THEN local[p].old.lines ELSE provenance.lines
  <2>1. CASE Unfinished(p) /\ local[p].replaced
    <3>1. Replacing = {p}
      BY <1>0, <2>1 DEF Replacing
    <3>2. (CHOOSE q \in Replacing : TRUE) = p
      BY <3>1
    <3> QED BY <2>1, <3>1, <3>2 DEF EffectiveLines
  <2>2. CASE ~(Unfinished(p) /\ local[p].replaced)
    <3>1. Replacing = {}
      BY <1>0, <2>2 DEF Replacing
    <3> QED BY <2>2, <3>1 DEF EffectiveLines
  <2> QED BY <2>1, <2>2
<1> QED BY <1>1, <1>2

\* The same mapping after a step.
LEMMA MappingOfSoleNext == Mapping'
BY MappingOfSole, PTL

\* The initial state of the protocol is the initial state of the promise.
LEMMA InitRefines == Init => Atomic!AInit
<1> SUFFICES ASSUME Init PROVE Atomic!AInit
  OBVIOUS
<1>1. EffectiveArchive = {}
  BY DEF Init, EffectiveArchive
<1>2. Replacing = {}
  BY DEF Init, Replacing, Idle
<1>3. EffectiveLines = {}
  BY <1>2 DEF Init, EffectiveLines, NoFile
<1>4. verdict = [o \in Opps |-> NoVerdict]
  BY DEF Init
<1> QED BY <1>1, <1>3, <1>4 DEF Atomic!AInit, Atomic!NoVerdict, NoVerdict

\* An import that is not killed leaves the flags, the archive and the gate in
\* step with each other.
Tidy == NoLeftovers /\ GateHeld

\* What each statement does to the local variables of the process.
FieldsAfter(p, step, batch, old, published, replaced) ==
  /\ local'[p].step = step
  /\ local'[p].batch = batch
  /\ local'[p].old = old
  /\ local'[p].published = published
  /\ local'[p].replaced = replaced

\* Returning resets the local variables.
LEMMA IdleAfter ==
  ASSUME LocalOK, NEW p \in Importers, Return(p)
  PROVE  FieldsAfter(p, "idle", NoVerdict, NoFile, FALSE, FALSE)
BY DEF Return, Idle, LocalOK, FieldsAfter

\* Moving on keeps all local variables but the statement.
LEMMA GotoAfter ==
  ASSUME LocalOK, NEW p \in Importers, NEW s \in Steps, Goto(p, s)
  PROVE  FieldsAfter(p, s, local[p].batch, local[p].old,
                     local[p].published, local[p].replaced)
BY DEF Goto, LocalOK, Local, FieldsAfter

\* Every step but the commit leaves the abstract state as it is; the commit
\* is the abstract import.
LEMMA StepRefines ==
  ASSUME IInv, Tidy, LocalOK, SharedOK, ~CanCrash, NEW p \in Importers,
         \/ \E b \in Batches : Start(p, b)
         \/ TryStep(p)
         \/ HandlerStep(p)
  PROVE  Tidy' /\ [Atomic!ANext]_(Atomic!avars)
<1> USE DEF ReadSteps, WriteSteps, HandlerSteps, KindsChecked, CardsChecked,
            HoldsSnapshot, StagedSteps, BackedUpSteps, Steps, At
<1> DEFINE Stutter == UNCHANGED <<verdict, EffectiveArchive, EffectiveLines>>
<1>a. /\ BatchIsFresh(p) /\ SnapshotIsCurrent(p) /\ FlagsAreTrue(p)
      /\ OwnCards
  BY DEF IInv
<1>b. \A q \in Importers : q = p
  BY SoleImporterAssumption
<1>c. /\ NoLeftovers' <=>
           \A b \in archive' : \/ \E o \in Opps : verdict'[o] = b
                               \/ /\ Unfinished(p)' /\ local'[p].published
                                  /\ local'[p].batch = b
      /\ GateHeld' <=> (local'[p].step # "idle" => FixtureAllowed(local'[p].batch))
  BY <1>b DEF NoLeftovers, GateHeld
<1>d. /\ \A b \in archive : \/ \E o \in Opps : verdict[o] = b
                            \/ /\ Unfinished(p) /\ local[p].published
                               /\ local[p].batch = b
      /\ local[p].step # "idle" => FixtureAllowed(local[p].batch)
  BY <1>b DEF Tidy, NoLeftovers, GateHeld
<1>e. /\ EffectiveArchive =
           IF Unfinished(p) /\ local[p].published THEN archive \ {local[p].batch}
                                                  ELSE archive
      /\ EffectiveLines =
           IF Unfinished(p) /\ local[p].replaced THEN local[p].old.lines
                                                 ELSE provenance.lines
  BY MappingOfSole DEF Mapping
<1>f. /\ EffectiveArchive' =
           IF Unfinished(p)' /\ local'[p].published THEN archive' \ {local'[p].batch}
                                                    ELSE archive'
      /\ EffectiveLines' =
           IF Unfinished(p)' /\ local'[p].replaced THEN local'[p].old.lines
                                                   ELSE provenance'.lines
  BY MappingOfSoleNext DEF Mapping
<1>1. ASSUME NEW b \in Batches, Start(p, b) PROVE Tidy' /\ Stutter
  <2>1. FieldsAfter(p, "kinds", b, local[p].old, local[p].published,
                    local[p].replaced)
    BY <1>1 DEF Start, LocalOK, Local, FieldsAfter
  <2>2. ~local[p].published /\ ~local[p].replaced
    BY <1>1, <1>a DEF Start, FlagsAreTrue
  <2> QED BY <1>1, <1>c, <1>d, <1>e, <1>f, <2>1, <2>2
          DEF Start, Tidy, FieldsAfter, Unfinished
<1>2. ASSUME CheckKinds(p) PROVE Tidy' /\ Stutter
  <2>1. \/ FieldsAfter(p, "cards", local[p].batch, local[p].old,
                      local[p].published, local[p].replaced)
        \/ FieldsAfter(p, "idle", NoVerdict, NoFile, FALSE, FALSE)
    BY <1>2, GotoAfter, IdleAfter DEF CheckKinds
  <2>2. Unfinished(p) /\ FlagsAreTrue(p)
    BY <1>2, <1>a DEF CheckKinds, Unfinished
  <2> QED BY <1>2, <1>a, <1>c, <1>d, <1>e, <1>f, <2>1, <2>2
          DEF CheckKinds, Tidy, FieldsAfter, Unfinished, FlagsAreTrue,
              SnapshotIsCurrent
<1>3. ASSUME CheckCards(p) PROVE Tidy' /\ Stutter
  <2>1. \/ FieldsAfter(p, "prepare", local[p].batch, local[p].old,
                      local[p].published, local[p].replaced)
        \/ FieldsAfter(p, "idle", NoVerdict, NoFile, FALSE, FALSE)
    BY <1>3, GotoAfter, IdleAfter DEF CheckCards
  <2>2. Unfinished(p) /\ FlagsAreTrue(p)
    BY <1>3, <1>a DEF CheckCards, Unfinished
  <2> QED BY <1>3, <1>a, <1>c, <1>d, <1>e, <1>f, <2>1, <2>2
          DEF CheckCards, Tidy, FieldsAfter, Unfinished, FlagsAreTrue,
              SnapshotIsCurrent
<1>4. ASSUME Prepare(p) PROVE Tidy' /\ Stutter
  <2>1. FieldsAfter(p, "stage_import", local[p].batch, provenance,
                    local[p].published, local[p].replaced)
    BY <1>4 DEF Prepare, LocalOK, Local, FieldsAfter
  <2>2. Unfinished(p) /\ FlagsAreTrue(p)
    BY <1>4, <1>a DEF Prepare, Unfinished
  <2> QED BY <1>4, <1>a, <1>c, <1>d, <1>e, <1>f, <2>1, <2>2
          DEF Prepare, Tidy, FieldsAfter, Unfinished, FlagsAreTrue,
              SnapshotIsCurrent
<1>5. ASSUME StageImport(p) PROVE Tidy' /\ Stutter
  <2>1. FieldsAfter(p, "stage_provenance", local[p].batch, local[p].old,
                    local[p].published, local[p].replaced)
    BY <1>5, GotoAfter DEF StageImport
  <2>2. Unfinished(p) /\ FlagsAreTrue(p)
    BY <1>5, <1>a DEF StageImport, Unfinished
  <2> QED BY <1>5, <1>a, <1>c, <1>d, <1>e, <1>f, <2>1, <2>2
          DEF StageImport, Tidy, FieldsAfter, Unfinished, FlagsAreTrue,
              SnapshotIsCurrent
<1>6. ASSUME StageProvenance(p) PROVE Tidy' /\ Stutter
  <2>1. FieldsAfter(p, "stage_verdicts", local[p].batch, local[p].old,
                    local[p].published, local[p].replaced)
    BY <1>6, GotoAfter DEF StageProvenance
  <2>2. Unfinished(p) /\ FlagsAreTrue(p)
    BY <1>6, <1>a DEF StageProvenance, Unfinished
  <2> QED BY <1>6, <1>a, <1>c, <1>d, <1>e, <1>f, <2>1, <2>2
          DEF StageProvenance, Tidy, FieldsAfter, Unfinished, FlagsAreTrue,
              SnapshotIsCurrent
<1>7. ASSUME StageVerdicts(p) PROVE Tidy' /\ Stutter
  <2>1. FieldsAfter(p, "backup", local[p].batch, local[p].old,
                    local[p].published, local[p].replaced)
    BY <1>7, GotoAfter DEF StageVerdicts
  <2>2. Unfinished(p) /\ FlagsAreTrue(p)
    BY <1>7, <1>a DEF StageVerdicts, Unfinished
  <2> QED BY <1>7, <1>a, <1>c, <1>d, <1>e, <1>f, <2>1, <2>2
          DEF StageVerdicts, Tidy, FieldsAfter, Unfinished, FlagsAreTrue,
              SnapshotIsCurrent
<1>8. ASSUME BackupProvenance(p) PROVE Tidy' /\ Stutter
  <2>1. FieldsAfter(p, "publish_import", local[p].batch, local[p].old,
                    local[p].published, local[p].replaced)
    BY <1>8, GotoAfter DEF BackupProvenance
  <2>2. Unfinished(p) /\ FlagsAreTrue(p)
    BY <1>8, <1>a DEF BackupProvenance, Unfinished
  <2> QED BY <1>8, <1>a, <1>c, <1>d, <1>e, <1>f, <2>1, <2>2
          DEF BackupProvenance, Tidy, FieldsAfter, Unfinished, FlagsAreTrue,
              SnapshotIsCurrent
<1>9. ASSUME PublishImport(p) PROVE Tidy' /\ Stutter
  <2>1. FieldsAfter(p, "publish_provenance", local[p].batch, local[p].old, TRUE,
                    local[p].replaced)
    BY <1>9 DEF PublishImport, LocalOK, Local, FieldsAfter
  <2>2. Unfinished(p) /\ FlagsAreTrue(p)
    BY <1>9, <1>a DEF PublishImport, Unfinished
  <2>3. NotYetReviewed(local[p].batch, verdict) /\ local[p].batch \in Batches
    BY <1>9, <1>a, BatchAtHand DEF PublishImport, BatchIsFresh
  <2>4. \A o \in Opps : verdict[o] # local[p].batch
    BY <2>3, <1>a, BatchIsVerdict DEF NotYetReviewed, OwnCards
  <2>5. ~local[p].published
    BY <1>9, <2>2 DEF PublishImport, FlagsAreTrue
  <2>6. local[p].batch \notin archive
    BY <1>d, <2>4, <2>5
  <2>7. EffectiveArchive' = EffectiveArchive
    BY <1>9, <1>e, <1>f, <2>1, <2>5, <2>6 DEF PublishImport, FieldsAfter,
       Unfinished
  <2>8. EffectiveLines' = EffectiveLines
    BY <1>9, <1>e, <1>f, <2>1 DEF PublishImport, FieldsAfter, Unfinished
  <2>9. Tidy'
    BY <1>9, <1>c, <1>d, <2>1, <2>2, <2>5
       DEF PublishImport, Tidy, FieldsAfter, Unfinished
  <2> QED BY <1>9, <2>7, <2>8, <2>9 DEF PublishImport
<1>10. ASSUME PublishProvenance(p) PROVE Tidy' /\ Stutter
  <2>1. FieldsAfter(p, "commit", local[p].batch, local[p].old,
                    local[p].published, TRUE)
    BY <1>10 DEF PublishProvenance, LocalOK, Local, FieldsAfter
  <2>2. Unfinished(p) /\ FlagsAreTrue(p)
    BY <1>10, <1>a DEF PublishProvenance, Unfinished
  <2> QED BY <1>10, <1>a, <1>c, <1>d, <1>e, <1>f, <2>1, <2>2
          DEF PublishProvenance, Tidy, FieldsAfter, Unfinished, FlagsAreTrue,
              SnapshotIsCurrent
<1>11. ASSUME Commit(p) PROVE Tidy' /\ Atomic!Import(local[p].batch)
  <2> DEFINE b == local[p].batch
  <2>1. FieldsAfter(p, "cleanup", b, local[p].old, local[p].published,
                    local[p].replaced)
    BY <1>11, GotoAfter DEF Commit
  <2>2. /\ b \in archive
        /\ local[p].replaced
        /\ provenance = FileWith(local[p].old.lines \cup RecordsOf(b))
    BY <1>11, <1>a DEF Commit, FlagsAreTrue
  <2>3. SameKind(b, local[p].old.lines) /\ NotYetReviewed(b, verdict)
    BY <1>11, <1>a, <2>2 DEF Commit, BatchIsFresh
  <2>4. FixtureAllowed(b) /\ b \in Batches
    BY <1>11, <1>d, BatchAtHand DEF Commit
  <2>5. /\ EffectiveLines = local[p].old.lines
        /\ EffectiveLines' = EffectiveLines \cup RecordsOf(b)
    BY <1>11, <1>e, <1>f, <2>1, <2>2 DEF Commit, FieldsAfter, Unfinished, FileWith
  <2>6. /\ EffectiveArchive' = archive
        /\ EffectiveArchive \cup {b} = archive
    BY <1>11, <1>e, <1>f, <2>1, <2>2 DEF Commit, FieldsAfter, Unfinished
  <2>7. Atomic!Import(b)
    <3>1. /\ Atomic!FixtureAllowed(b)
          /\ Atomic!SameKind(b, EffectiveLines)
          /\ Atomic!NotYetReviewed(b, verdict)
      BY <2>3, <2>4, <2>5
         DEF Atomic!FixtureAllowed, FixtureAllowed, Atomic!SameKind, SameKind,
             Atomic!KindsOf, KindsOf, Atomic!NotYetReviewed, NotYetReviewed,
             Atomic!NoVerdict, NoVerdict
    <3>2. EffectiveLines' = EffectiveLines \cup Atomic!RecordsOf(b)
      BY <2>5 DEF Atomic!RecordsOf, RecordsOf
    <3>3. verdict' = [o \in Opps |-> IF o \in b.opps THEN b ELSE verdict[o]]
      BY <1>11 DEF Commit
    <3>4. EffectiveArchive' = EffectiveArchive \cup {b}
      BY <2>6
    <3> QED BY <3>1, <3>2, <3>3, <3>4 DEF Atomic!Import
  <2>8. \A o \in b.opps : o \in Opps /\ verdict'[o] = b
    BY <1>11, <2>4, BatchIsVerdict DEF Commit
  <2>9. \E o \in Opps : verdict'[o] = b
    BY <2>4, <2>8, BatchesAssumption
  <2>10. \A c \in archive, o \in Opps : verdict[o] = c => verdict'[o] = c \/ c = NoVerdict
    BY <1>11, <2>3 DEF Commit, NotYetReviewed
  <2>11. \A c \in archive : c # NoVerdict
    BY BatchIsVerdict DEF SharedOK
  <2>12. Tidy'
    BY <1>11, <1>c, <1>d, <2>1, <2>4, <2>9, <2>10, <2>11 DEF Commit, Tidy,
       FieldsAfter
  <2> QED BY <2>7, <2>12
<1>12. ASSUME RemoveBackup(p) PROVE Tidy' /\ Stutter
  <2>1. FieldsAfter(p, "idle", NoVerdict, NoFile, FALSE, FALSE)
    BY <1>12, IdleAfter DEF RemoveBackup
  <2>2. ~Unfinished(p)
    BY <1>12 DEF RemoveBackup, Unfinished
  <2> QED BY <1>12, <1>a, <1>c, <1>d, <1>e, <1>f, <2>1, <2>2
          DEF RemoveBackup, Tidy, FieldsAfter, Unfinished, FlagsAreTrue,
              SnapshotIsCurrent
<1>13. ASSUME Raise(p) PROVE Tidy' /\ Stutter
  <2>1. FieldsAfter(p, "rollback", local[p].batch, local[p].old,
                    local[p].published, local[p].replaced)
    BY <1>13, GotoAfter DEF Raise
  <2>2. Unfinished(p) /\ FlagsAreTrue(p)
    BY <1>13, <1>a DEF Raise, Unfinished
  <2> QED BY <1>13, <1>a, <1>c, <1>d, <1>e, <1>f, <2>1, <2>2
          DEF Raise, Tidy, FieldsAfter, Unfinished, FlagsAreTrue,
              SnapshotIsCurrent
<1>14. ASSUME RollbackTransaction(p) PROVE Tidy' /\ Stutter
  <2>1. FieldsAfter(p, "unpublish", local[p].batch, local[p].old,
                    local[p].published, local[p].replaced)
    BY <1>14, GotoAfter DEF RollbackTransaction
  <2>2. Unfinished(p) /\ FlagsAreTrue(p)
    BY <1>14, <1>a DEF RollbackTransaction, Unfinished
  <2> QED BY <1>14, <1>a, <1>c, <1>d, <1>e, <1>f, <2>1, <2>2
          DEF RollbackTransaction, Tidy, FieldsAfter, Unfinished, FlagsAreTrue,
              SnapshotIsCurrent
<1>15. ASSUME UnpublishImport(p) PROVE Tidy' /\ Stutter
  <2>1. FieldsAfter(p, "restore", local[p].batch, local[p].old, FALSE,
                    local[p].replaced)
    BY <1>15 DEF UnpublishImport, LocalOK, Local, FieldsAfter
  <2>2. Unfinished(p) /\ FlagsAreTrue(p)
    BY <1>15, <1>a DEF UnpublishImport, Unfinished
  <2> QED BY <1>15, <1>a, <1>c, <1>d, <1>e, <1>f, <2>1, <2>2
          DEF UnpublishImport, Tidy, FieldsAfter, Unfinished, FlagsAreTrue,
              SnapshotIsCurrent
<1>16. ASSUME RestoreProvenance(p) PROVE Tidy' /\ Stutter
  <2>1. FieldsAfter(p, "unstage", local[p].batch, local[p].old,
                    local[p].published, FALSE)
    BY <1>16 DEF RestoreProvenance, LocalOK, Local, FieldsAfter
  <2>2. Unfinished(p) /\ FlagsAreTrue(p)
    BY <1>16, <1>a DEF RestoreProvenance, Unfinished
  <2>3. ~local[p].published
    BY <1>16, <2>2 DEF RestoreProvenance, FlagsAreTrue
  <2>4. EffectiveArchive' = EffectiveArchive
    BY <1>16, <1>e, <1>f, <2>1, <2>3 DEF RestoreProvenance, FieldsAfter,
       Unfinished
  <2>5. ASSUME ~local[p].replaced PROVE EffectiveLines' = EffectiveLines
    BY <1>16, <1>e, <1>f, <2>1, <2>5 DEF RestoreProvenance, FieldsAfter,
       Unfinished
  <2>6. ASSUME local[p].replaced PROVE EffectiveLines' = EffectiveLines
    <3>1. provenance'.lines = local[p].old.lines
      <4>1. CASE local[p].old.exists
        BY <1>16, <2>2, <2>6, <4>1 DEF RestoreProvenance, FlagsAreTrue
      <4>2. CASE ~local[p].old.exists
        <5>1. local[p].old \in File
          BY DEF LocalOK, Local
        <5> QED BY <1>16, <2>6, <4>2, <5>1 DEF RestoreProvenance, NoFile, File
      <4> QED BY <4>1, <4>2
    <3>2. EffectiveLines' = EffectiveLines
      BY <1>e, <1>f, <2>1, <2>2, <2>6, <3>1 DEF FieldsAfter
    <3> QED BY <3>2
  <2>7. EffectiveLines' = EffectiveLines
    BY <2>5, <2>6
  <2>8. Tidy'
    BY <1>16, <1>c, <1>d, <2>1, <2>2, <2>3
       DEF RestoreProvenance, Tidy, FieldsAfter, Unfinished
  <2> QED BY <1>16, <2>4, <2>7, <2>8 DEF RestoreProvenance
<1>17. ASSUME HandlerRaises(p) PROVE Tidy' /\ Stutter
  <2>1. FieldsAfter(p, "idle", NoVerdict, NoFile, FALSE, FALSE)
    BY <1>17, IdleAfter DEF HandlerRaises
  <2>2. Unfinished(p) /\ FlagsAreTrue(p)
    BY <1>17, <1>a DEF HandlerRaises, Unfinished
  <2> QED BY <1>17, <1>a, <1>c, <1>d, <1>e, <1>f, <2>1, <2>2
          DEF HandlerRaises, Tidy, FieldsAfter, Unfinished, FlagsAreTrue,
              SnapshotIsCurrent
<1>18. ASSUME RemoveStaging(p) PROVE Tidy' /\ Stutter
  <2>1. FieldsAfter(p, "idle", NoVerdict, NoFile, FALSE, FALSE)
    BY <1>18, IdleAfter DEF RemoveStaging
  <2>2. Unfinished(p) /\ FlagsAreTrue(p)
    BY <1>18, <1>a DEF RemoveStaging, Unfinished
  <2> QED BY <1>18, <1>a, <1>c, <1>d, <1>e, <1>f, <2>1, <2>2
          DEF RemoveStaging, Tidy, FieldsAfter, Unfinished, FlagsAreTrue,
              SnapshotIsCurrent
<1>19. ASSUME Stutter PROVE [Atomic!ANext]_(Atomic!avars)
  BY <1>19 DEF Atomic!avars
<1>20. ASSUME Commit(p) PROVE Atomic!ANext
  <2>1. local[p].batch \in Batches
    BY <1>20, BatchAtHand DEF Commit
  <2> QED BY <1>11, <1>20, <2>1 DEF Atomic!ANext
<1>21. ASSUME TryStep(p) PROVE Tidy' /\ [Atomic!ANext]_(Atomic!avars)
  BY <1>2, <1>3, <1>4, <1>5, <1>6, <1>7, <1>8, <1>9, <1>10, <1>11, <1>12,
     <1>19, <1>20, <1>21 DEF TryStep
<1>22. ASSUME HandlerStep(p) PROVE Tidy' /\ [Atomic!ANext]_(Atomic!avars)
  BY <1>13, <1>14, <1>15, <1>16, <1>17, <1>18, <1>19, <1>22 DEF HandlerStep
<1> QED BY <1>1, <1>19, <1>21, <1>22

\* Nothing has been archived before the first import.
LEMMA InitTidy == Init => Tidy
BY DEF Init, Tidy, NoLeftovers, GateHeld, Idle, At

\* The exception handler undoes exactly what the write phase published, so an
\* import either takes effect at once or leaves no trace.
THEOREM ImportRefinesAtomic ==
  ASSUME ~CanCrash
  PROVE  Spec => ImportIsAtomic
<1>1. IInv /\ Tidy /\ [Next]_vars => Tidy' /\ [Atomic!ANext]_(Atomic!avars)
  <2> SUFFICES ASSUME IInv, Tidy, LocalOK, SharedOK, [Next]_vars
               PROVE  Tidy' /\ [Atomic!ANext]_(Atomic!avars)
    BY DEF IInv, TypeOK, LocalOK, SharedOK
  <2>1. CASE UNCHANGED vars
    BY <2>1 DEF vars, Tidy, NoLeftovers, GateHeld, Unfinished, At, Atomic!avars,
       EffectiveArchive, EffectiveLines, Replacing
  <2>2. ASSUME NEW p \in Importers, Crash(p) PROVE FALSE
    BY <2>2 DEF Crash
  <2> QED BY <2>1, <2>2, StepRefines DEF Next
<1>2. QED
  BY <1>1, InitTidy, InitRefines, Inductive, PTL DEF Spec, ImportIsAtomic,
     Atomic!ASpec
=============================================================================
