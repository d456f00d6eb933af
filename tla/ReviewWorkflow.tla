--------------------------- MODULE ReviewWorkflow ---------------------------
(***************************************************************************)
(* What happens to a `--critic human` run after it has ended BLOCKED       *)
(* (src/demand_radar/review.py): a packet is exported, reviewers or the    *)
(* fixture generator write envelopes, envelopes are imported, and finalize *)
(* judges the cards again.  One operator does this, a command at a time.   *)
(* Meanwhile other runs on the same store find the clusters of the same    *)
(* cards, write them anew, review and judge them.                          *)
(*                                                                         *)
(* A card stands for its own hash.  The evidence behind it is never        *)
(* deleted or changed, so its manifest hash adds nothing.  A command reads *)
(* the store in one step and writes what it made of it in a later one:     *)
(* import checks and commits, a judge reads a card with its verdict and    *)
(* writes the card, a critic is shown a card and answers.  The inside of   *)
(* import's write phase is ReviewImport.                                   *)
(***************************************************************************)
EXTENDS Judge

CONSTANTS
  Opps,           \* the opportunity cards of the run
  Texts,          \* texts an analyst may write for a card
  Verdicts,       \* opinions a reviewer or critic may give
  OtherCritic,    \* the critic of the other runs: "agent" or "human"
  Others,         \* other runs, each of which finds the cluster of one card
  Finds,          \* which card that is
  MaxEnvelopes,   \* bound on the envelopes written
  MaxCrashes      \* bound on the number of killed commands

ASSUME WorkflowAssumption ==
  /\ Verdicts \subseteq Opinions
  /\ OtherCritic \in {"agent", "human"}
  /\ Finds \in [Others -> Opps]
  /\ MaxEnvelopes \in Nat /\ MaxCrashes \in Nat

VARIABLES
  \* the store
  card,           \* opportunity_cards
  volume,         \* whether the evidence of a card's cluster meets the gates
  verdict,        \* critic_verdicts
  \* the run directory
  marked,         \* task.yaml: test_fixture
  provenance,     \* reviews/provenance.jsonl
  outputs,        \* outputs/report.md and opportunities.json: cards, verdicts
  verification,   \* verification.json
  preliminary,    \* the copies in preliminary/
  channel,        \* reviews/review-channel-status.json is there
  \* outside
  packet,         \* the exported packet: card directories and manifest
  envelopes,      \* envelopes written so far
  \* commands
  step,           \* where import or finalize is
  batch,          \* envelopes an import has checked and not yet written
  judged,         \* cards the judge of finalize is done with
  judging,        \* the card it has decided on and not yet written
  other,          \* where another run is with its card
  working,        \* the card it has read or decided on
  crashes

store == <<card, volume, verdict>>
directory == <<marked, provenance, outputs, verification, preliminary, channel>>
outside == <<packet, envelopes>>
command == <<step, batch, judged, judging>>
another == <<other, working>>
vars == <<store, directory, outside, command, another, crashes>>

R == INSTANCE Reviews WITH Batches <- {}, RunMarked <- marked

Report == {[id |-> o, card |-> card[o], verdict |-> verdict[o]] : o \in Opps}

\* The run is over: its cards were judged without a review.
Init ==
  /\ volume \in [Opps -> BOOLEAN]
  /\ \E t \in Texts : card = [o \in Opps |->
       [text |-> t, counted |-> volume[o], status |-> "investigate"]]
  /\ verdict = [o \in Opps |-> R!NoVerdict]
  /\ marked \in BOOLEAN
  /\ provenance = {}
  /\ outputs = Report
  /\ verification = "BLOCKED"
  /\ preliminary = [outputs |-> {}, verification |-> {}]
  /\ channel = FALSE
  /\ packet = [dirs |-> [o \in Opps |-> {}], manifest |-> [o \in Opps |-> {}]]
  /\ envelopes = {}
  /\ step = "idle"
  /\ batch = {} /\ judged = {} /\ judging = {}
  /\ other = [q \in Others |-> "away"]
  /\ working = [q \in Others |-> card[Finds[q]]]
  /\ crashes = 0

----------------------------------------------------------------------------
(* review export, review generate-fixtures, and the reviewers *)

ExportPacket ==
  /\ step = "idle"
  /\ LET all == [o \in Opps |-> {card[o]}]
     IN packet' = [dirs |-> all, manifest |-> all]
  /\ UNCHANGED <<store, directory, envelopes, command, another, crashes>>

\* The manifest is written last, over an older one.
ExportKilled(written) ==
  /\ step = "idle"
  /\ crashes < MaxCrashes
  /\ crashes' = crashes + 1
  /\ packet' = [packet EXCEPT !.dirs =
       [o \in Opps |-> IF o \in written THEN {card[o]} ELSE @[o]]]
  /\ UNCHANGED <<store, directory, envelopes, command, another>>

Envelope(kind, o, c, v) == [kind |-> kind, opp |-> o, seen |-> c, opinion |-> v]

\* A reviewer reads a card's directory and fills in its template.
FillTemplate(o, v) ==
  /\ \E c \in packet.dirs[o] : envelopes' = envelopes \cup {Envelope("human", o, c, v)}
  /\ Cardinality(envelopes') \leq MaxEnvelopes
  /\ UNCHANGED <<store, directory, packet, command, another, crashes>>

FixtureVerdict == [fatal |-> TRUE, recommended |-> "investigate"]

\* Faulty variant: a schema id that import does not know for a fixture.
FixturesOfUnknownKind ==
  /\ envelopes' = envelopes \cup
       UNION {{Envelope("fixture", o, c, FixtureVerdict) :
                 c \in packet.manifest[o]} : o \in Opps}
  /\ UNCHANGED <<store, directory, packet, command, another, crashes>>

\* One fixture per opportunity of the manifest, from the manifest alone.
GenerateFixtures ==
  /\ packet.manifest # [o \in Opps |-> {}]
  /\ envelopes' = envelopes \cup
       UNION {{Envelope("test_fixture", o, c, FixtureVerdict) :
                 c \in packet.manifest[o]} : o \in Opps}
  /\ Cardinality(envelopes') \leq MaxEnvelopes
  /\ UNCHANGED <<store, directory, packet, command, another, crashes>>

\* The file is text: someone may write another opinion into a fixture.
EditFixture(e, v) ==
  /\ e.kind = "test_fixture"
  /\ envelopes' = envelopes \cup {Envelope(e.kind, e.opp, e.seen, v)}
  /\ Cardinality(envelopes') \leq MaxEnvelopes
  /\ UNCHANGED <<store, directory, packet, command, another, crashes>>

\* mark_run_as_test_fixture
MarkRun ==
  /\ step = "idle"
  /\ marked' = TRUE
  /\ UNCHANGED <<store, provenance, outputs, verification, preliminary, channel,
                 outside, command, another, crashes>>

\* `run` on a completed run executes no node, but writes task.yaml.
RunAgain ==
  /\ step = "idle"
  /\ marked' = FALSE
  /\ UNCHANGED <<store, provenance, outputs, verification, preliminary, channel,
                 outside, command, another, crashes>>

----------------------------------------------------------------------------
(* review import *)

BatchOf(es) == [id |-> "batch", kind |-> (CHOOSE e \in es : TRUE).kind,
                opps |-> {e.opp : e \in es}]

\* Faulty variant: a fixture may recommend what a person may.
EnvelopeOfAnyOpinion(e) == e.seen = card[e.opp]

\* validate_review_envelope, validate_review_fixture_envelope: the hash is
\* that of the card as it is now.
EnvelopeValid(e) ==
  /\ e.seen = card[e.opp]
  /\ e.kind = "test_fixture" => e.opinion.recommended # "experiment_ready"

Importable(es) ==
  /\ es # {}
  /\ \A e, f \in es : e.kind = f.kind /\ (e.opp = f.opp => e = f)
  /\ R!FixtureAllowed(BatchOf(es))
  /\ R!SameKind(BatchOf(es), provenance)
  /\ R!NotYetReviewed(BatchOf(es), verdict)
  /\ \A e \in es : EnvelopeValid(e)

VerdictOf(kind, c, v) ==
  [kind |-> kind, text |-> c.text, fatal |-> v.fatal, recommended |-> v.recommended]

\* Every envelope is checked before anything is written.
CheckReviews(es) ==
  /\ step = "idle"
  /\ Importable(es)
  /\ batch' = es
  /\ step' = "import"
  /\ UNCHANGED <<store, directory, outside, judged, judging, another, crashes>>

EndImport == step = "import" /\ step' = "idle" /\ batch' = {} /\ UNCHANGED <<judged, judging>>

\* The write phase.  The store has been open to other runs since the check, and
\* what it says by now is not asked: a verdict that is there is replaced.
CommitReviews ==
  /\ EndImport
  /\ verdict' = [o \in Opps |->
       IF \E e \in batch : e.opp = o
       THEN LET e == CHOOSE x \in batch : x.opp = o
            IN VerdictOf(e.kind, e.seen, e.opinion)
       ELSE verdict[o]]
  /\ provenance' = provenance \cup R!RecordsOf(BatchOf(batch))
  /\ UNCHANGED <<card, volume, marked, outputs, verification, preliminary,
                 channel, outside, another, crashes>>

\* The write phase raised, and was rolled back.
ImportFails ==
  /\ EndImport
  /\ UNCHANGED <<store, directory, outside, another, crashes>>

\* Killed before the files were published, or between that and the commit.
ImportKilled ==
  /\ EndImport
  /\ crashes < MaxCrashes
  /\ crashes' = crashes + 1
  /\ \/ provenance' = provenance \cup R!RecordsOf(BatchOf(batch))
     \/ UNCHANGED provenance
  /\ UNCHANGED <<store, marked, outputs, verification, preliminary, channel,
                 outside, another>>

----------------------------------------------------------------------------
(* The judge, for finalize and for other runs *)

FactsOf(enough) ==
  [authors |-> IF enough THEN MinAuthors ELSE 0,
   families |-> IF enough THEN MinFamilies ELSE 0,
   problem |-> IF enough THEN MinProblem ELSE 0,
   workaround |-> IF enough THEN MinWorkaround ELSE 0,
   dominant |-> ~enough]

ReviewsOf(o) == IF verdict[o] = R!NoVerdict THEN {} ELSE {verdict[o]}

\* Faulty variant: a card without a review is put back to where it began.
JudgedIfReviewed(o) ==
  [card[o] EXCEPT !.status =
     IF ReviewsOf(o) = {} THEN "observed"
     ELSE JudgeStatus(TRUE, ReviewsOf(o), FactsOf(volume[o]))]

\* The whole card as the judge writes it back.
JudgedCard(o) ==
  [card[o] EXCEPT !.status = JudgeStatus(TRUE, ReviewsOf(o), FactsOf(volume[o]))]

----------------------------------------------------------------------------
(* finalize *)

\* Faulty variant: every finalize takes its copies anew.
ArchiveAgain ==
  /\ step = "idle"
  /\ step' = "archive_outputs"
  /\ judged' = {}
  /\ UNCHANGED <<store, directory, outside, batch, judging, another, crashes>>

StartFinalize ==
  /\ step = "idle"
  /\ step' = IF preliminary.outputs = {} /\ preliminary.verification = {}
             THEN "archive_outputs" ELSE "judge"
  /\ judged' = {}
  /\ UNCHANGED <<store, directory, outside, batch, judging, another, crashes>>

\* _archive_preliminary_artifacts.  A preliminary/ that is there is left alone,
\* whatever it holds.
ArchiveOutputs ==
  /\ step = "archive_outputs"
  /\ preliminary' = [preliminary EXCEPT !.outputs = {outputs}]
  /\ step' = "archive_verification"
  /\ UNCHANGED <<store, marked, provenance, outputs, verification, channel,
                 outside, batch, judged, judging, another, crashes>>

ArchiveVerification ==
  /\ step = "archive_verification"
  /\ preliminary' = [preliminary EXCEPT !.verification = {verification}]
  /\ step' = "judge"
  /\ UNCHANGED <<store, marked, provenance, outputs, verification, channel,
                 outside, batch, judged, judging, another, crashes>>

\* The card, its cluster and its verdict are read one after the other, with no
\* call between them; the card that is written is the one that was read.
FinalizeReads(o) ==
  /\ step = "judge"
  /\ judging = {}
  /\ o \notin judged
  /\ judging' = {[id |-> o, card |-> JudgedCard(o)]}
  /\ UNCHANGED <<store, directory, outside, step, batch, judged, another, crashes>>

FinalizeWrites ==
  /\ step = "judge"
  /\ \E j \in judging :
       /\ card' = [card EXCEPT ![j.id] = j.card]
       /\ judged' = judged \cup {j.id}
  /\ judging' = {}
  /\ UNCHANGED <<volume, verdict, directory, outside, step, batch, another, crashes>>

AllReviewed == Opps # {} /\ \A o \in Opps : verdict[o] # R!NoVerdict

RenderReport ==
  /\ step = "judge"
  /\ judged = Opps
  /\ outputs' = Report
  /\ step' = "verify"
  /\ UNCHANGED <<store, marked, provenance, verification, preliminary, channel,
                 outside, batch, judged, judging, another, crashes>>

\* Faulty variant: one verdict makes the critic's part a PASS.
VerifyWithAnyReview ==
  /\ step = "verify"
  /\ LET critic == AgentStatus({}, {"critic_review"},
                               \E o \in Opps : verdict[o] # R!NoVerdict)
     IN verification' = OverallVerdict(TRUE, "PASS", critic)
  /\ step' = "mark_channel"
  /\ UNCHANGED <<store, marked, provenance, outputs, preliminary, channel,
                 outside, batch, judged, judging, another, crashes>>

\* The analyst's part of the run is over and went well.
VerifyRun ==
  /\ step = "verify"
  /\ LET critic == AgentStatus({}, {"critic_review"}, AllReviewed)
         checks == \A o \in Opps : card[o].status = "experiment_ready" => card[o].counted
     IN verification' = OverallVerdict(checks, "PASS", critic)
  /\ step' = "mark_channel"
  /\ UNCHANGED <<store, marked, provenance, outputs, preliminary, channel,
                 outside, batch, judged, judging, another, crashes>>

\* Faulty variant: synthetic reviews only, but not of every card.
MarkPureChannel ==
  /\ step = "mark_channel"
  /\ channel' = (channel \/ R!KindsOf(provenance) = {"test_fixture"})
  /\ step' = "idle"
  /\ UNCHANGED <<store, marked, provenance, outputs, verification, preliminary,
                 outside, batch, judged, judging, another, crashes>>

\* state.json, which nothing here reads, is written first.
MarkChannel ==
  /\ step = "mark_channel"
  /\ channel' = (channel \/ (R!KindsOf(provenance) = {"test_fixture"} /\ AllReviewed))
  /\ step' = "idle"
  /\ UNCHANGED <<store, marked, provenance, outputs, verification, preliminary,
                 outside, batch, judged, judging, another, crashes>>

FinalizeKilled ==
  /\ step \notin {"idle", "import"}
  /\ crashes < MaxCrashes
  /\ crashes' = crashes + 1
  /\ step' = "idle"
  /\ judging' = {}
  /\ UNCHANGED <<store, directory, outside, batch, judged, another>>

FinalizeStep ==
  \/ ArchiveOutputs \/ ArchiveVerification
  \/ (\E o \in Opps : FinalizeReads(o)) \/ FinalizeWrites
  \/ RenderReport \/ VerifyRun \/ MarkChannel

----------------------------------------------------------------------------
(* Another run that finds the cluster of one of the cards *)

At(q, from, to) == other[q] = from /\ other' = [other EXCEPT ![q] = to]

\* propose_clusters and verify_clusters write the cluster.
OtherFinds(q, enough) ==
  /\ At(q, "away", "found")
  /\ volume' = [volume EXCEPT ![Finds[q]] = enough]
  /\ UNCHANGED <<card, verdict, directory, outside, command, working, crashes>>

\* generate_opportunities reads the cluster, and asks.
OtherConsiders(q) ==
  /\ At(q, "found", "considering")
  /\ working' = [working EXCEPT ![q].counted = volume[Finds[q]]]
  /\ UNCHANGED <<store, directory, outside, command, crashes>>

\* The row keeps its run_id; its content is new.
OtherGenerates(q, t) ==
  /\ At(q, "considering", "critic")
  /\ card' = [card EXCEPT ![Finds[q]] =
       [text |-> t, counted |-> working[q].counted, status |-> "observed"]]
  /\ UNCHANGED <<volume, verdict, directory, outside, command, working, crashes>>

\* critic_review reads the card and asks; under a human critic it does nothing.
OtherAsks(q) ==
  /\ OtherCritic = "agent"
  /\ At(q, "critic", "asked")
  /\ working' = [working EXCEPT ![q] = card[Finds[q]]]
  /\ UNCHANGED <<store, directory, outside, command, crashes>>

OtherSkips(q) ==
  /\ OtherCritic = "human"
  /\ At(q, "critic", "judge")
  /\ UNCHANGED <<store, directory, outside, command, working, crashes>>

\* An agent's verdict takes the place of any other; a failed call changes nothing.
OtherReviews(q) ==
  /\ At(q, "asked", "judge")
  /\ \/ \E v \in Verdicts :
          verdict' = [verdict EXCEPT ![Finds[q]] = VerdictOf("agent", working[q], v)]
     \/ UNCHANGED verdict
  /\ UNCHANGED <<card, volume, directory, outside, command, working, crashes>>

OtherReads(q) ==
  /\ At(q, "judge", "judging")
  /\ working' = [working EXCEPT ![q] = JudgedCard(Finds[q])]
  /\ UNCHANGED <<store, directory, outside, command, crashes>>

OtherJudges(q) ==
  /\ At(q, "judging", "done")
  /\ card' = [card EXCEPT ![Finds[q]] = working[q]]
  /\ UNCHANGED <<volume, verdict, directory, outside, command, working, crashes>>

OtherStep(q) ==
  \/ \E enough \in BOOLEAN : OtherFinds(q, enough)
  \/ OtherConsiders(q)
  \/ \E t \in Texts : OtherGenerates(q, t)
  \/ OtherAsks(q) \/ OtherSkips(q) \/ OtherReviews(q)
  \/ OtherReads(q) \/ OtherJudges(q)

----------------------------------------------------------------------------

Next ==
  \/ ExportPacket \/ (\E S \in SUBSET Opps : ExportKilled(S))
  \/ \E o \in Opps, v \in Verdicts : FillTemplate(o, v)
  \/ GenerateFixtures \/ (\E e \in envelopes, v \in Verdicts : EditFixture(e, v))
  \/ MarkRun \/ RunAgain
  \/ (\E es \in SUBSET envelopes : CheckReviews(es))
  \/ CommitReviews \/ ImportFails \/ ImportKilled
  \/ StartFinalize \/ FinalizeStep \/ FinalizeKilled
  \/ \E q \in Others : OtherStep(q)

Spec == Init /\ [][Next]_vars

----------------------------------------------------------------------------
(* Properties *)

Card == [text : Texts, counted : BOOLEAN, status : Statuses]

Verdict == {R!NoVerdict} \cup
  [kind : R!Kinds \cup {"agent"}, text : Texts, fatal : BOOLEAN,
   recommended : {"experiment_ready", "investigate", "rejected"}]

\* Every variable holds values of its kind; the copies of a file are at most one.
TypeOK ==
  /\ card \in [Opps -> Card]
  /\ volume \in [Opps -> BOOLEAN]
  /\ verdict \in [Opps -> Verdict]
  /\ {marked, channel} \subseteq BOOLEAN
  /\ \A r \in provenance : r.opp \in Opps /\ r.batch.kind \in R!Kinds
  /\ outputs \subseteq [id : Opps, card : Card, verdict : Verdict]
  /\ verification \in {"PASS", "FAIL", "BLOCKED"}
  /\ Cardinality(preliminary.outputs) \leq 1
  /\ preliminary.verification \subseteq {"PASS", "FAIL", "BLOCKED"}
  /\ packet.dirs \in [Opps -> SUBSET Card] /\ packet.manifest \in [Opps -> SUBSET Card]
  /\ envelopes \subseteq [kind : R!Kinds, opp : Opps, seen : Card, opinion : Opinions]
  /\ step \in {"idle", "import", "archive_outputs", "archive_verification", "judge",
               "verify", "mark_channel"}
  /\ batch \subseteq envelopes
  /\ judged \subseteq Opps
  /\ judging \subseteq [id : Opps, card : Card]
  /\ other \in [Others -> {"away", "found", "considering", "critic", "asked", "judge",
                           "judging", "done"}]
  /\ working \in [Others -> Card]
  /\ crashes \in 0 .. MaxCrashes

\* verify_run and import_reviews: a run under human review is PASS only when
\* reviews/provenance.jsonl names a review of every card.
PassIsReviewed ==
  verification = "PASS" => \A o \in Opps : \E r \in provenance : r.opp = o

\* The marker file of finalize: where it says the reviews are synthetic, every
\* card has a verdict and no verdict is a person's; and when no finalize is under
\* way, a PASS that rests on synthetic verdicts only carries it.
ChannelIsTrue ==
  LET synthetic == \A o \in Opps : verdict[o].kind = "test_fixture" IN
  /\ channel => synthetic
  /\ step = "idle" /\ verification = "PASS" /\ synthetic => channel

\* The judge and the fixture rules together: nobody's judge, finalize's or that of
\* another run, ever decides that a card is ready with a synthetic verdict before it,
\* whatever was written into a fixture and however commands and runs overlap.
FixturesNeverHelp ==
  [][/\ \A j \in judging' \ judging :
          j.card.status = "experiment_ready" => verdict[j.id].kind # "test_fixture"
     /\ \A q \in Others :
          other[q] = "judge" /\ other'[q] = "judging" /\ working'[q].status = "experiment_ready"
            => verdict[Finds[q]].kind # "test_fixture"]_vars

\* import_reviews, deterministic_judge and render_report under human critics: a card
\* that is ready, in the store or in a report, stands beside a person's verdict that
\* approves it, and reviews/provenance.jsonl names that review.
ReadyNeedsAPerson ==
  \A row \in Report \cup outputs : row.card.status = "experiment_ready" =>
    /\ row.verdict.kind = "human"
    /\ ~row.verdict.fatal /\ row.verdict.recommended = "experiment_ready"
    /\ \E r \in provenance : r.opp = row.id /\ r.batch.kind = "human"

\* _archive_preliminary_artifacts: beside a PASS there is the report and the
\* verification it has taken the place of, from before any review came in,
\* however often finalize was executed.
BeforeAndAfter ==
  verification = "PASS" =>
    /\ \E rep \in preliminary.outputs : \A row \in rep : row.verdict = R!NoVerdict
    /\ preliminary.verification = {"BLOCKED"}

\* export_review_packet and deterministic_judge: finalizing some reviews leaves
\* the templates of the cards that are still to be reviewed importable, unless
\* another run has found the card.
OutstandingReviewsStayValid ==
  \A o \in Opps :
    verdict[o] = R!NoVerdict /\ (\A q \in Others : Finds[q] = o => other[q] = "away")
      => packet.dirs[o] \subseteq {card[o]}

\* What import's check of the hash suggests of other runs' rewrites, and what no run
\* lists as it does not hold: a verdict enters the store only for the text its
\* reviewer was given.
VerdictsMeetTheirText ==
  [][\A o \in Opps : verdict'[o] # verdict[o] => verdict'[o].text = card[o].text]_vars

=============================================================================
