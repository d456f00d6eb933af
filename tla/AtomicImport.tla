---------------------------- MODULE AtomicImport ----------------------------
(***************************************************************************)
(* What `demand-radar review import` promises (the docstring of            *)
(* import_reviews, src/demand_radar/review.py): a batch of reviews takes   *)
(* effect as a whole or not at all.  Three things change together: the     *)
(* critic_verdicts table, the archive of imported files, and               *)
(* reviews/provenance.jsonl.                                               *)
(***************************************************************************)
EXTENDS Reviews

VARIABLES
  verdict,     \* committed rows of critic_verdicts: [Opps -> Batches + NoVerdict]
  archive,     \* files published in reviews/imports/
  lines        \* records of reviews/provenance.jsonl

avars == <<verdict, archive, lines>>

AInit ==
  /\ verdict = [o \in Opps |-> NoVerdict]
  /\ archive = {}
  /\ lines = {}

Import(b) ==
  /\ FixtureAllowed(b)
  /\ SameKind(b, lines)
  /\ NotYetReviewed(b, verdict)
  /\ verdict' = [o \in Opps |-> IF o \in b.opps THEN b ELSE verdict[o]]
  /\ archive' = archive \cup {b}
  /\ lines' = lines \cup RecordsOf(b)

ANext == \E b \in Batches : Import(b)

ASpec == AInit /\ [][ANext]_avars
=============================================================================
