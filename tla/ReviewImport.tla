---------------------------- MODULE ReviewImport ----------------------------
(***************************************************************************)
(* import_reviews of src/demand_radar/review.py, step by step: the reads   *)
(* that validate a batch, the publication protocol that spans SQLite and   *)
(* the run directory, and the exception handler that undoes it.            *)
(*                                                                         *)
(* Each importer is one `demand-radar review import` process.  A process   *)
(* imports any number of batches, one after the other; several importers   *)
(* model several processes working on the same run directory and store.    *)
(* A refused batch has no effect, so a refusal is either a step back to    *)
(* "idle" or, when it comes before the first read, no step at all.         *)
(*                                                                         *)
(* The archive name is built from the second of the import and a prefix of *)
(* the content's hash; a batch stands for its own archive name, which is   *)
(* the case of a retry within the same second.                             *)
(***************************************************************************)
EXTENDS Reviews

CONSTANTS
  Importers,      \* the processes that run `review import`
  NoImporter,     \* nobody holds SQLite's write lock
  CanFail,        \* a step of the write phase may raise an exception
  CanCrash        \* a process may be killed (kill -9, power loss, Ctrl-C), and a
                  \* second exception may end the handler of the first

VARIABLES
  verdict,        \* committed rows of critic_verdicts
  archive,        \* files in reviews/imports/
  provenance,     \* reviews/provenance.jsonl
  stagedImports,  \* reviews/imports/*.staging
  provStaging,    \* reviews/provenance.jsonl.staging
  provBackup,     \* reviews/provenance.jsonl.bak
  writer,         \* the process whose SQL transaction holds the write lock
  local           \* the local variables of import_reviews in each process

vars == <<verdict, archive, provenance, stagedImports, provStaging,
          provBackup, writer, local>>

ASSUME SwitchAssumption == CanFail \in BOOLEAN /\ CanCrash \in BOOLEAN
ASSUME ImporterAssumption == NoImporter \notin Importers

NoFile == [exists |-> FALSE, lines |-> {}]
FileWith(ls) == [exists |-> TRUE, lines |-> ls]

ReadSteps == {"kinds", "cards", "prepare"}
WriteSteps == {"stage_import", "stage_provenance", "stage_verdicts", "backup",
               "publish_import", "publish_provenance", "commit"}
HandlerSteps == {"rollback", "unpublish", "restore", "unstage"}
Steps == ReadSteps \cup WriteSteps \cup HandlerSteps \cup {"idle", "cleanup"}

Idle == [step |-> "idle", batch |-> NoVerdict, old |-> NoFile,
         published |-> FALSE, replaced |-> FALSE]

Init ==
  /\ verdict = [o \in Opps |-> NoVerdict]
  /\ archive = {}
  /\ provenance = NoFile
  /\ stagedImports = {}
  /\ provStaging = NoFile
  /\ provBackup = NoFile
  /\ writer = NoImporter
  /\ local = [p \in Importers |-> Idle]

At(p, s) == local[p].step = s
Goto(p, s) == local' = [local EXCEPT ![p].step = s]
Return(p) == local' = [local EXCEPT ![p] = Idle]

----------------------------------------------------------------------------
(* Validation: reads only. *)

\* Faulty variant: the batch is not kept for the steps that need it.
StartWithoutBatch(p, b) ==
  /\ At(p, "idle")
  /\ FixtureAllowed(b)
  /\ Goto(p, "kinds")
  /\ UNCHANGED <<verdict, archive, provenance, stagedImports, provStaging,
                 provBackup, writer>>

\* The envelopes parse, are of one kind, and pass the fixture gate.
Start(p, b) ==
  /\ At(p, "idle")
  /\ FixtureAllowed(b)
  /\ local' = [local EXCEPT ![p] = [@ EXCEPT !.step = "kinds", !.batch = b]]
  /\ UNCHANGED <<verdict, archive, provenance, stagedImports, provStaging,
                 provBackup, writer>>

\* Faulty variant: the kinds that have already landed are not looked at.
KindsUnchecked(p) ==
  /\ At(p, "kinds")
  /\ Goto(p, "cards")
  /\ UNCHANGED <<verdict, archive, provenance, stagedImports, provStaging,
                 provBackup, writer>>

\* _provenance_source_kinds: what has already landed in this run.
CheckKinds(p) ==
  /\ At(p, "kinds")
  /\ IF SameKind(local[p].batch, provenance.lines) THEN Goto(p, "cards")
                                                   ELSE Return(p)
  /\ UNCHANGED <<verdict, archive, provenance, stagedImports, provStaging,
                 provBackup, writer>>

\* Faulty variant: a card may be reviewed twice.
CardsUnchecked(p) ==
  /\ At(p, "cards")
  /\ Goto(p, "prepare")
  /\ UNCHANGED <<verdict, archive, provenance, stagedImports, provStaging,
                 provBackup, writer>>

\* already_reviewed: SQLite readers see the committed rows.
CheckCards(p) ==
  /\ At(p, "cards")
  /\ IF NotYetReviewed(local[p].batch, verdict) THEN Goto(p, "prepare")
                                                ELSE Return(p)
  /\ UNCHANGED <<verdict, archive, provenance, stagedImports, provStaging,
                 provBackup, writer>>

\* existing_provenance is read a second time, from the file.
Prepare(p) ==
  /\ At(p, "prepare")
  /\ local' = [local EXCEPT ![p] = [@ EXCEPT !.step = "stage_import",
                                           !.old = provenance]]
  /\ UNCHANGED <<verdict, archive, provenance, stagedImports, provStaging,
                 provBackup, writer>>

----------------------------------------------------------------------------
(* The write phase: the body of the try block, in its order. *)

StageImport(p) ==
  /\ At(p, "stage_import")
  /\ stagedImports' = stagedImports \cup {local[p].batch}
  /\ Goto(p, "stage_provenance")
  /\ UNCHANGED <<verdict, archive, provenance, provStaging, provBackup, writer>>

StageProvenance(p) ==
  /\ At(p, "stage_provenance")
  /\ provStaging' = FileWith(local[p].old.lines \cup RecordsOf(local[p].batch))
  /\ Goto(p, "stage_verdicts")
  /\ UNCHANGED <<verdict, archive, provenance, stagedImports, provBackup, writer>>

\* Faulty variant: upsert_critic_verdict, which commits, in place of
\* stage_critic_verdicts.
StageVerdictsAndCommit(p) ==
  /\ At(p, "stage_verdicts")
  /\ writer = NoImporter
  /\ verdict' = [o \in Opps |-> IF o \in local[p].batch.opps
                                THEN local[p].batch ELSE verdict[o]]
  /\ Goto(p, "backup")
  /\ UNCHANGED <<archive, provenance, stagedImports, provStaging, provBackup, writer>>

\* The first INSERT takes SQLite's write lock; the rows stay in the
\* transaction until Commit.
StageVerdicts(p) ==
  /\ At(p, "stage_verdicts")
  /\ writer = NoImporter
  /\ writer' = p
  /\ Goto(p, "backup")
  /\ UNCHANGED <<verdict, archive, provenance, stagedImports, provStaging,
                 provBackup>>

BackupProvenance(p) ==
  /\ At(p, "backup")
  /\ local[p].old.exists => provenance.exists
  /\ provBackup' = IF local[p].old.exists THEN provenance ELSE provBackup
  /\ Goto(p, "publish_import")
  /\ UNCHANGED <<verdict, archive, provenance, stagedImports, provStaging, writer>>

\* os.replace moves the staged file: it needs the staged file to be there.
PublishImport(p) ==
  /\ At(p, "publish_import")
  /\ local[p].batch \in stagedImports
  /\ stagedImports' = stagedImports \ {local[p].batch}
  /\ archive' = archive \cup {local[p].batch}
  /\ local' = [local EXCEPT ![p] = [@ EXCEPT !.step = "publish_provenance",
                                           !.published = TRUE]]
  /\ UNCHANGED <<verdict, provenance, provStaging, provBackup, writer>>

PublishProvenance(p) ==
  /\ At(p, "publish_provenance")
  /\ provStaging.exists
  /\ provenance' = provStaging
  /\ provStaging' = NoFile
  /\ local' = [local EXCEPT ![p] = [@ EXCEPT !.step = "commit",
                                           !.replaced = TRUE]]
  /\ UNCHANGED <<verdict, archive, stagedImports, provBackup, writer>>

Commit(p) ==
  /\ At(p, "commit")
  /\ verdict' = [o \in Opps |-> IF o \in local[p].batch.opps
                                THEN local[p].batch ELSE verdict[o]]
  /\ writer' = NoImporter
  /\ Goto(p, "cleanup")
  /\ UNCHANGED <<archive, provenance, stagedImports, provStaging, provBackup>>

\* Past the try block: the backup is no longer needed.
RemoveBackup(p) ==
  /\ At(p, "cleanup")
  /\ provBackup' = NoFile
  /\ Return(p)
  /\ UNCHANGED <<verdict, archive, provenance, stagedImports, provStaging, writer>>

----------------------------------------------------------------------------
(* The except block. *)

\* The step p is at raises whatever the environment does: a file it moves or
\* copies is gone, or another process keeps the write lock past the timeout.
MustFail(p) ==
  \/ At(p, "stage_verdicts") /\ writer # NoImporter
  \/ At(p, "backup") /\ local[p].old.exists /\ ~provenance.exists
  \/ At(p, "publish_import") /\ local[p].batch \notin stagedImports
  \/ At(p, "publish_provenance") /\ ~provStaging.exists

Raise(p) ==
  /\ local[p].step \in WriteSteps
  /\ CanFail \/ MustFail(p)
  /\ Goto(p, "rollback")
  /\ UNCHANGED <<verdict, archive, provenance, stagedImports, provStaging,
                 provBackup, writer>>

\* Faulty variant: the write phase is tried again, without end.
RollbackAndRetry(p) ==
  /\ At(p, "rollback")
  /\ writer' = IF writer = p THEN NoImporter ELSE writer
  /\ Goto(p, "stage_import")
  /\ UNCHANGED <<verdict, archive, provenance, stagedImports, provStaging,
                 provBackup>>

\* Faulty variant: the handler cleans up the files only.
NoRollback(p) ==
  /\ At(p, "rollback")
  /\ Goto(p, "unpublish")
  /\ UNCHANGED <<verdict, archive, provenance, stagedImports, provStaging,
                 provBackup, writer>>

RollbackTransaction(p) ==
  /\ At(p, "rollback")
  /\ writer' = IF writer = p THEN NoImporter ELSE writer
  /\ Goto(p, "unpublish")
  /\ UNCHANGED <<verdict, archive, provenance, stagedImports, provStaging,
                 provBackup>>

\* Faulty variant: the archived file of a failed import stays.
KeepImport(p) ==
  /\ At(p, "unpublish")
  /\ local' = [local EXCEPT ![p] = [@ EXCEPT !.step = "restore",
                                           !.published = FALSE]]
  /\ UNCHANGED <<verdict, archive, provenance, stagedImports, provStaging,
                 provBackup, writer>>

UnpublishImport(p) ==
  /\ At(p, "unpublish")
  /\ archive' = IF local[p].published THEN archive \ {local[p].batch} ELSE archive
  /\ local' = [local EXCEPT ![p] = [@ EXCEPT !.step = "restore",
                                           !.published = FALSE]]
  /\ UNCHANGED <<verdict, provenance, stagedImports, provStaging, provBackup, writer>>

\* os.replace(backup) needs the backup.
RestoreProvenance(p) ==
  /\ At(p, "restore")
  /\ LET old == local[p].old IN
       \/ /\ ~local[p].replaced
          /\ UNCHANGED <<provenance, provBackup>>
       \/ /\ local[p].replaced /\ old.exists /\ provBackup.exists
          /\ provenance' = provBackup
          /\ provBackup' = NoFile
       \/ /\ local[p].replaced /\ ~old.exists
          /\ provenance' = NoFile
          /\ UNCHANGED provBackup
  /\ local' = [local EXCEPT ![p] = [@ EXCEPT !.step = "unstage",
                                           !.replaced = FALSE]]
  /\ UNCHANGED <<verdict, archive, stagedImports, provStaging, writer>>

\* Nothing catches what the handler itself raises, nor the last unlink: the
\* process ends, and SQLite drops its transaction.  Whatever follows the statement
\* is not done.
HandlerRaises(p) ==
  /\ \/ CanCrash /\ local[p].step \in HandlerSteps \cup {"cleanup"}
     \/ At(p, "restore") /\ local[p].replaced /\ local[p].old.exists /\ ~provBackup.exists
  /\ writer' = IF writer = p THEN NoImporter ELSE writer
  /\ Return(p)
  /\ UNCHANGED <<verdict, archive, provenance, stagedImports, provStaging, provBackup>>

RemoveStaging(p) ==
  /\ At(p, "unstage")
  /\ stagedImports' = stagedImports \ {local[p].batch}
  /\ provStaging' = NoFile
  /\ provBackup' = NoFile
  /\ Return(p)
  /\ UNCHANGED <<verdict, archive, provenance, writer>>

\* A killed process runs no handler: SQLite drops its transaction, every file
\* stays as it is.  BaseException (Ctrl-C) takes the same path.
Crash(p) ==
  /\ CanCrash
  /\ ~At(p, "idle")
  /\ writer' = IF writer = p THEN NoImporter ELSE writer
  /\ Return(p)
  /\ UNCHANGED <<verdict, archive, provenance, stagedImports, provStaging,
                 provBackup>>

----------------------------------------------------------------------------

TryStep(p) ==
  \/ CheckKinds(p) \/ CheckCards(p) \/ Prepare(p)
  \/ StageImport(p) \/ StageProvenance(p) \/ StageVerdicts(p)
  \/ BackupProvenance(p) \/ PublishImport(p) \/ PublishProvenance(p)
  \/ Commit(p) \/ RemoveBackup(p)

HandlerStep(p) ==
  \/ Raise(p) \/ RollbackTransaction(p) \/ UnpublishImport(p)
  \/ RestoreProvenance(p) \/ HandlerRaises(p) \/ RemoveStaging(p)

Next ==
  \E p \in Importers :
    \/ \E b \in Batches : Start(p, b)
    \/ TryStep(p)
    \/ HandlerStep(p)
    \/ Crash(p)

Spec == Init /\ [][Next]_vars

\* A running process keeps executing its statements; nothing obliges an
\* operator to start an import, and nothing obliges a process to crash.
Fairness == \A p \in Importers : WF_vars(TryStep(p) \/ HandlerStep(p))

FairSpec == Spec /\ Fairness

----------------------------------------------------------------------------
(* Properties *)

\* A file that does not exist has no lines.
File == {f \in [exists : BOOLEAN, lines : SUBSET Record] : f.exists \/ f.lines = {}}

Local == [step : Steps, batch : Batches \cup {NoVerdict}, old : File,
          published : BOOLEAN, replaced : BOOLEAN]

\* The tables, files and local variables hold values of their kinds.
TypeOK ==
  /\ verdict \in [Opps -> Batches \cup {NoVerdict}]
  /\ archive \subseteq Batches
  /\ provenance \in File
  /\ stagedImports \subseteq Batches
  /\ provStaging \in File
  /\ provBackup \in File
  /\ writer \in Importers \cup {NoImporter}
  /\ local \in [Importers -> Local]
  /\ \A p \in Importers : ~At(p, "idle") => local[p].batch \in Batches

\* The commit comes last: a verdict that can be read from the store already
\* has its audit trail, the archived file and the provenance record, and keeps
\* it through every later import, failure and crash of a single importer.
CommittedIsAudited ==
  \A o \in Opps : verdict[o] # NoVerdict =>
    /\ verdict[o] \in archive
    /\ [opp |-> o, batch |-> verdict[o]] \in provenance.lines

\* "A single invalid envelope rejects the whole batch": the verdicts of a batch
\* are in the store all together or not at all, and no later import replaces
\* one of them.
WholeBatches ==
  \A b \in Batches, o1, o2 \in Opps :
    o1 \in b.opps /\ o2 \in b.opps /\ verdict[o1] = b => verdict[o2] = b

\* Human and fixture reviews are "never mixed across separate import calls
\* into the same run": neither among the verdicts nor in the provenance file.
NeverMixed ==
  /\ \A o1, o2 \in Opps :
       verdict[o1] # NoVerdict /\ verdict[o2] # NoVerdict
         => verdict[o1].kind = verdict[o2].kind
  /\ \A r1, r2 \in provenance.lines : r1.batch.kind = r2.batch.kind

\* No process leaves the write lock behind: whoever holds it is between its
\* first INSERT and its commit or rollback.
LockIsReleased ==
  writer # NoImporter =>
    local[writer].step \in {"backup", "publish_import", "publish_provenance",
                            "commit", "rollback"}

\* The protocol implements the atomic import.  What an unfinished import has
\* published does not count until its commit: the mapping takes the archived
\* file and the new provenance lines away again.
Unfinished(p) == ~At(p, "idle") /\ ~At(p, "cleanup")

EffectiveArchive ==
  archive \ {local[p].batch : p \in {q \in Importers : Unfinished(q) /\ local[q].published}}

Replacing == {p \in Importers : Unfinished(p) /\ local[p].replaced}

EffectiveLines ==
  IF Replacing = {} THEN provenance.lines
                    ELSE local[CHOOSE p \in Replacing : TRUE].old.lines

Atomic == INSTANCE AtomicImport WITH archive <- EffectiveArchive,
                                     lines <- EffectiveLines

ImportIsAtomic == Atomic!ASpec

\* A started import ends: every step of the protocol and of its handler is
\* followed by another one until the process has returned.
ImportReturns == \A p \in Importers : ~At(p, "idle") ~> At(p, "idle")
=============================================================================
