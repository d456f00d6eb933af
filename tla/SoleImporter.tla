---------------------------- MODULE SoleImporter ----------------------------
(***************************************************************************)
(* The setting import_reviews is written for: "exception-safe within this  *)
(* process only" (src/demand_radar/review.py).  One process at a time      *)
(* imports into a run.  The module also names the inductive invariant      *)
(* behind the properties that hold in this setting.                        *)
(***************************************************************************)
EXTENDS ReviewImport

ASSUME SoleImporterAssumption == \A p, q \in Importers : p = q

(***************************************************************************)
(* What each stretch of the protocol may rely on.                          *)
(***************************************************************************)

KindsChecked == {"cards", "prepare"} \cup WriteSteps \cup HandlerSteps
CardsChecked == {"prepare"} \cup WriteSteps \cup HandlerSteps
HoldsSnapshot == WriteSteps \cup HandlerSteps
StagedSteps == {"stage_verdicts", "backup", "publish_import", "publish_provenance"}
BackedUpSteps == {"publish_import", "publish_provenance", "commit"}

\* A verdict is on a card of its own batch.
OwnCards == \A o \in Opps : verdict[o] # NoVerdict => o \in verdict[o].opps

\* Every committed verdict has a record in ls.
Audits(ls) ==
  \A o \in Opps : verdict[o] # NoVerdict => [opp |-> o, batch |-> verdict[o]] \in ls

OneKind(ls) == \A r1, r2 \in ls : r1.batch.kind = r2.batch.kind

\* Once checked, a batch is new to the store and agrees in kind with what the
\* run had before it.
BatchIsFresh(p) ==
  LET l == local[p] IN
  /\ l.step \in KindsChecked =>
       SameKind(l.batch, IF l.replaced THEN l.old.lines ELSE provenance.lines)
  /\ l.step \in CardsChecked => NotYetReviewed(l.batch, verdict)

\* The snapshot of provenance.jsonl stays accurate until it is replaced, and
\* what replaces it is the snapshot and the batch's own records.
SnapshotIsCurrent(p) ==
  LET l == local[p] IN
  /\ l.step \in HoldsSnapshot /\ ~l.replaced => l.old = provenance
  /\ l.step \in HoldsSnapshot => Audits(l.old.lines) /\ OneKind(l.old.lines)
  /\ l.step \in StagedSteps =>
       provStaging = FileWith(l.old.lines \cup RecordsOf(l.batch))
  /\ l.step \in BackedUpSteps /\ l.old.exists => provBackup = l.old

\* The flags tell what has been published.
FlagsAreTrue(p) ==
  LET l == local[p] IN
  /\ l.published => l.step \in {"publish_provenance", "commit", "cleanup",
                                "rollback", "unpublish"}
  /\ l.step \in {"publish_provenance", "commit"} => l.batch \in archive
  /\ l.replaced => l.step \in {"commit", "cleanup", "rollback", "unpublish", "restore"}
  /\ l.step = "commit" =>
       /\ l.replaced
       /\ provenance = FileWith(l.old.lines \cup RecordsOf(l.batch))
  /\ l.replaced /\ l.old.exists /\ l.step # "cleanup" => provBackup = l.old

IInv ==
  /\ TypeOK
  /\ OwnCards
  /\ CommittedIsAudited
  /\ WholeBatches
  /\ OneKind(provenance.lines)
  /\ \A p \in Importers : BatchIsFresh(p) /\ SnapshotIsCurrent(p) /\ FlagsAreTrue(p)

(***************************************************************************)
(* Without crashes nothing is left behind: an archived file belongs to a   *)
(* committed batch or to an import that is about to commit it.             *)
(***************************************************************************)
NoLeftovers ==
  \A b \in archive :
    \/ \E o \in Opps : verdict[o] = b
    \/ \E p \in Importers : Unfinished(p) /\ local[p].published /\ local[p].batch = b

GateHeld == \A p \in Importers : ~At(p, "idle") => FixtureAllowed(local[p].batch)
=============================================================================
