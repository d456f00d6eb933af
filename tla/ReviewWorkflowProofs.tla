------------------------ MODULE ReviewWorkflowProofs ------------------------
(***************************************************************************)
(* Proofs about ReviewWorkflow, for all cards, texts, opinions, other runs *)
(* and bounds.                                                             *)
(***************************************************************************)
EXTENDS ReviewWorkflow, FiniteSetTheorems, TLAPS

----------------------------------------------------------------------------
(* The inductive invariant *)

Row == [id : Opps, card : Card, verdict : Verdict]

Shape ==
  /\ preliminary = [outputs |-> preliminary.outputs,
                    verification |-> preliminary.verification]
  /\ packet = [dirs |-> packet.dirs, manifest |-> packet.manifest]
  /\ \A r \in provenance : r = [opp |-> r.opp, batch |-> r.batch]

Unreviewed(rows) == \A row \in rows : row.verdict = R!NoVerdict

Recorded(o, kind) == \E r \in provenance : r.opp = o /\ r.batch.kind = kind

\* No synthetic opinion that was checked or stored recommends a card.
FixtureInv ==
  /\ \A e \in batch : e.kind = "test_fixture" => e.opinion.recommended # "experiment_ready"
  /\ \A o \in Opps : verdict[o].kind = "test_fixture" =>
       verdict[o].recommended # "experiment_ready"

\* What was checked of a batch is still true when it is written: no command has come
\* between, and without an agent nobody else writes verdicts.
BatchInv ==
  /\ step = "import" <=> batch # {}
  /\ \A e, f \in batch : e.kind = f.kind /\ (e.opp = f.opp => e = f)
  /\ \A e \in batch, r \in provenance : r.batch.kind = e.kind
  /\ OtherCritic = "human" => \A e \in batch : verdict[e.opp] = R!NoVerdict

\* Provenance records are of one kind, and every verdict of a reviewer has one.
OnRecord ==
  /\ \A r, s \in provenance : r.batch.kind = s.batch.kind
  /\ \A o \in Opps : verdict[o].kind \in R!Kinds => Recorded(o, verdict[o].kind)
  /\ \A row \in outputs : row.verdict.kind \in R!Kinds => Recorded(row.id, row.verdict.kind)

NoAgents == OtherCritic = "human" =>
  /\ \A q \in Others : other[q] # "asked"
  /\ \A o \in Opps : verdict[o].kind # "agent"

Approves(v) == v.kind = "human" /\ ~v.fatal /\ v.recommended = "experiment_ready"

\* A card that is ready has been approved, also the one a judge still holds.
ReadyInv == OtherCritic = "human" =>
  /\ \A o \in Opps : card[o].status = "experiment_ready" => Approves(verdict[o])
  /\ \A j \in judging : j.card.status = "experiment_ready" => Approves(verdict[j.id])
  /\ \A q \in Others : working[q].status = "experiment_ready" => Approves(verdict[Finds[q]])
  /\ \A row \in outputs : row.card.status = "experiment_ready" => Approves(row.verdict)

Synthetic == \A o \in Opps : verdict[o].kind = "test_fixture"

ChannelInv ==
  /\ verification = "PASS" => AllReviewed
  /\ OtherCritic = "human" =>
       /\ channel => Synthetic
       /\ MaxCrashes = 0 /\ step # "mark_channel" /\ verification = "PASS" /\ Synthetic =>
            channel

\* How far the copies of the outputs and of the verification are; nothing is
\* rendered before.
CopiesInv ==
  /\ step = "archive_outputs" => preliminary.outputs = {}
  /\ step = "archive_verification" => preliminary.outputs # {} /\ verification = "BLOCKED"
  /\ step \in {"judge", "verify", "mark_channel"} => preliminary.outputs # {}
  /\ preliminary.outputs = {} =>
       /\ preliminary.verification = {}
       /\ verification = "BLOCKED" /\ Unreviewed(outputs)
  /\ \A rows \in preliminary.outputs : Unreviewed(rows)
  /\ MaxCrashes = 0 /\ preliminary.outputs # {} /\ step # "archive_verification" =>
       preliminary.verification = {"BLOCKED"}

Untouched(o) == \A q \in Others : Finds[q] = o => other[q] = "away"

\* As long as no other run has found a card, judging it without a verdict leaves it
\* as it was exported.
CalmInv == \A o \in Opps :
  verdict[o] = R!NoVerdict /\ Untouched(o) =>
    /\ card[o].status = "investigate"
    /\ packet.dirs[o] \subseteq {card[o]}
    /\ \A j \in judging : j.id = o => j.card = card[o]

IInv == /\ TypeOK /\ Shape /\ FixtureInv /\ BatchInv /\ OnRecord /\ NoAgents /\ ReadyInv
        /\ ChannelInv /\ CopiesInv /\ CalmInv

----------------------------------------------------------------------------
(* Verdicts, judgements, batches *)

LEMMA VerdictKinds ==
  \A v \in Verdict : /\ v.kind = "none" <=> v = R!NoVerdict
                     /\ v # R!NoVerdict => v.recommended \in
                          {"experiment_ready", "investigate", "rejected"}
  BY DEF Verdict, R!NoVerdict, R!Kinds

LEMMA VerdictOfType ==
  ASSUME NEW kind \in R!Kinds \cup {"agent"}, NEW c \in Card, NEW v \in Opinions
  PROVE  /\ VerdictOf(kind, c, v) \in Verdict /\ VerdictOf(kind, c, v) # R!NoVerdict
         /\ VerdictOf(kind, c, v).kind = kind /\ VerdictOf(kind, c, v).text = c.text
         /\ VerdictOf(kind, c, v).recommended = v.recommended
<1>1. VerdictOf(kind, c, v) \in Verdict
  BY DEF VerdictOf, Verdict, Card, Opinions
<1>2. /\ VerdictOf(kind, c, v).kind = kind /\ VerdictOf(kind, c, v).text = c.text
      /\ VerdictOf(kind, c, v).recommended = v.recommended
  BY DEF VerdictOf
<1>3. kind # "none"
  BY DEF R!Kinds
<1> QED
  BY <1>1, <1>2, <1>3, VerdictKinds

\* What deterministic_judge may say of a card, by the verdict that is stored.
LEMMA JudgeStatusIs ==
  ASSUME NEW facts, NEW reviews
  PROVE  LET status == JudgeStatus(TRUE, reviews, facts) IN
         /\ status \in Statuses
         /\ reviews = {} => status = "investigate"
         /\ status = "experiment_ready" =>
              /\ reviews # {}
              /\ \A v \in reviews : ~v.fatal /\ v.recommended \notin {"investigate", "rejected"}
  BY DEF JudgeStatus, Statuses

LEMMA JudgedCardIs ==
  ASSUME TypeOK, NEW o \in Opps
  PROVE  /\ JudgedCard(o) \in Card
         /\ JudgedCard(o).text = card[o].text /\ JudgedCard(o).counted = card[o].counted
         /\ verdict[o] = R!NoVerdict => JudgedCard(o).status = "investigate"
         /\ JudgedCard(o).status = "experiment_ready" =>
              /\ verdict[o] # R!NoVerdict /\ verdict[o].recommended = "experiment_ready"
              /\ ~verdict[o].fatal
<1> DEFINE status == JudgeStatus(TRUE, ReviewsOf(o), FactsOf(volume[o]))
<1>1. card[o] \in Card /\ verdict[o] \in Verdict
  BY DEF TypeOK
<1>2. /\ status \in Statuses
      /\ ReviewsOf(o) = {} => status = "investigate"
      /\ status = "experiment_ready" =>
           /\ ReviewsOf(o) # {}
           /\ \A v \in ReviewsOf(o) :
                ~v.fatal /\ v.recommended \notin {"investigate", "rejected"}
  BY JudgeStatusIs
<1>3. JudgedCard(o) = [card[o] EXCEPT !.status = status]
  BY DEF JudgedCard
<1> HIDE DEF status
<1>4. JudgedCard(o) = [text |-> card[o].text, counted |-> card[o].counted, status |-> status]
  <2>1. \A c \in Card : [c EXCEPT !.status = status]
          = [text |-> c.text, counted |-> c.counted, status |-> status]
    BY DEF Card
  <2> QED
    BY <1>1, <1>3, <2>1
<1>5. JudgedCard(o) \in Card
  BY <1>1, <1>2, <1>4 DEF Card
<1>6. JudgedCard(o).status = status /\ JudgedCard(o).text = card[o].text
      /\ JudgedCard(o).counted = card[o].counted
  BY <1>4
<1>7. verdict[o] = R!NoVerdict => ReviewsOf(o) = {}
  BY DEF ReviewsOf
<1>8. verdict[o] # R!NoVerdict => ReviewsOf(o) = {verdict[o]}
  BY DEF ReviewsOf
<1>9. verdict[o] # R!NoVerdict =>
        verdict[o].recommended \in {"experiment_ready", "investigate", "rejected"}
  BY <1>1, VerdictKinds
<1>10. ASSUME status = "experiment_ready"
       PROVE  /\ verdict[o] # R!NoVerdict /\ verdict[o].recommended = "experiment_ready"
              /\ ~verdict[o].fatal
  <2>1. verdict[o] # R!NoVerdict /\ verdict[o] \in ReviewsOf(o)
    BY <1>2, <1>7, <1>8, <1>10
  <2>2. ~verdict[o].fatal /\ verdict[o].recommended \notin {"investigate", "rejected"}
    BY <1>2, <1>10, <2>1
  <2> QED
    BY <1>9, <2>1, <2>2
<1> QED
  BY <1>2, <1>5, <1>6, <1>7, <1>10

\* A batch is of one kind, and its provenance records are of that kind.
LEMMA BatchIs ==
  ASSUME TypeOK, NEW es \in SUBSET envelopes, es # {},
         \A e, f \in es : e.kind = f.kind /\ (e.opp = f.opp => e = f)
  PROVE  /\ BatchOf(es).kind \in R!Kinds
         /\ \A e \in es : /\ e.opp \in Opps /\ e.opinion \in Opinions /\ e.seen \in Card
                          /\ e.kind = BatchOf(es).kind
                          /\ e.opp \in BatchOf(es).opps
                          /\ [opp |-> e.opp, batch |-> BatchOf(es)] \in R!RecordsOf(BatchOf(es))
         /\ \A r \in R!RecordsOf(BatchOf(es)) :
              r = [opp |-> r.opp, batch |-> BatchOf(es)] /\ r.opp \in Opps
<1>1. \A e \in es : /\ e.opp \in Opps /\ e.opinion \in Opinions /\ e.kind \in R!Kinds
                    /\ e.seen \in Card
  BY DEF TypeOK
<1>2. /\ BatchOf(es).kind = (CHOOSE e \in es : TRUE).kind
      /\ BatchOf(es).opps = {e.opp : e \in es}
  BY DEF BatchOf
<1>3. PICK e \in es : BatchOf(es).kind = e.kind
  BY <1>2
<1>4. \A f \in es : f.kind = BatchOf(es).kind
  BY <1>3
<1>5. R!RecordsOf(BatchOf(es)) = {[opp |-> o, batch |-> BatchOf(es)] : o \in BatchOf(es).opps}
  BY DEF R!RecordsOf
<1>6. \A f \in es : f.opp \in BatchOf(es).opps
  BY <1>2
<1>7. \A f \in es : [opp |-> f.opp, batch |-> BatchOf(es)] \in R!RecordsOf(BatchOf(es))
  BY <1>5, <1>6
<1>8. \A r \in R!RecordsOf(BatchOf(es)) :
         r = [opp |-> r.opp, batch |-> BatchOf(es)] /\ r.opp \in Opps
  BY <1>1, <1>2, <1>5
<1> QED
  BY <1>1, <1>3, <1>4, <1>6, <1>7, <1>8

\* What the check of a batch finds out.
LEMMA CheckIs ==
  ASSUME TypeOK, NEW es \in SUBSET envelopes, Importable(es)
  PROVE  /\ es # {}
         /\ \A e, f \in es : e.kind = f.kind /\ (e.opp = f.opp => e = f)
         /\ \A e \in es : /\ verdict[e.opp] = R!NoVerdict
                          /\ e.kind = "test_fixture" =>
                               e.opinion.recommended # "experiment_ready"
         /\ \A e \in es, r \in provenance : r.batch.kind = e.kind
<1>1. /\ es # {} /\ \A e, f \in es : e.kind = f.kind /\ (e.opp = f.opp => e = f)
      /\ R!SameKind(BatchOf(es), provenance) /\ R!NotYetReviewed(BatchOf(es), verdict)
      /\ \A e \in es : EnvelopeValid(e)
  BY DEF Importable
<1>2. \A e \in es : e.kind = BatchOf(es).kind /\ e.opp \in BatchOf(es).opps
  BY <1>1, BatchIs
<1>3. \A e \in es : verdict[e.opp] = R!NoVerdict
  BY <1>1, <1>2 DEF R!NotYetReviewed
<1>4. \A r \in provenance : r.batch.kind = BatchOf(es).kind
  BY <1>1 DEF R!SameKind, R!KindsOf
<1>5. \A e \in es : e.kind = "test_fixture" => e.opinion.recommended # "experiment_ready"
  BY <1>1 DEF EnvelopeValid
<1> QED
  BY <1>1, <1>2, <1>3, <1>4, <1>5

\* A commit gives the cards of the batch the verdicts of its envelopes.
LEMMA CommitIs ==
  ASSUME TypeOK, BatchInv, CommitReviews
  PROVE  /\ verdict' \in [Opps -> Verdict]
         /\ \A o \in Opps : verdict'[o] = verdict[o] \/ \E e \in batch :
              /\ e.opp = o
              /\ verdict'[o] # R!NoVerdict /\ verdict'[o].kind = e.kind
              /\ verdict'[o].recommended = e.opinion.recommended
         /\ UNCHANGED <<card, volume>>
<1>1. batch \in SUBSET envelopes /\ batch # {} /\ verdict \in [Opps -> Verdict]
      /\ \A e, f \in batch : e.kind = f.kind /\ (e.opp = f.opp => e = f)
  BY DEF CommitReviews, EndImport, BatchInv, TypeOK
<1>2. ASSUME NEW o \in Opps, ~\E e \in batch : e.opp = o PROVE verdict'[o] = verdict[o]
  BY <1>2 DEF CommitReviews
<1>3. ASSUME NEW o \in Opps, NEW e \in batch, e.opp = o
      PROVE  /\ verdict'[o] \in Verdict /\ verdict'[o] # R!NoVerdict
             /\ verdict'[o].kind = e.kind
             /\ verdict'[o].recommended = e.opinion.recommended
  <2>1. verdict'[o] = LET f == CHOOSE x \in batch : x.opp = o
                      IN VerdictOf(f.kind, f.seen, f.opinion)
    BY <1>3 DEF CommitReviews
  <2>2. (CHOOSE x \in batch : x.opp = o) = e
    BY <1>1, <1>3
  <2>3. e.kind \in R!Kinds /\ e.seen \in Card /\ e.opinion \in Opinions
    BY <1>1, <1>3, BatchIs
  <2>4. verdict'[o] = VerdictOf(e.kind, e.seen, e.opinion)
    BY <2>1, <2>2
  <2> QED
    BY <2>3, <2>4, VerdictOfType
<1>4. \A o \in Opps : verdict'[o] \in Verdict
  BY <1>1, <1>2, <1>3
<1>5. verdict' = [o \in Opps |-> verdict'[o]]
  BY DEF CommitReviews
<1>6. verdict' \in [Opps -> Verdict]
  BY <1>4, <1>5
<1>7. UNCHANGED <<card, volume>>
  BY DEF CommitReviews
<1> QED
  BY <1>2, <1>3, <1>6, <1>7

LEMMA ReviewIs ==
  ASSUME TypeOK, NEW q \in Others, OtherReviews(q)
  PROVE  /\ UNCHANGED <<card, volume>> /\ verdict' \in [Opps -> Verdict]
         /\ \A o \in Opps : verdict'[o] = verdict[o] \/
              (o = Finds[q] /\ verdict'[o].kind = "agent" /\ verdict'[o] # R!NoVerdict)
         /\ other[q] = "asked"
<1>1. /\ working[q] \in Card /\ verdict \in [Opps -> Verdict] /\ Verdicts \subseteq Opinions
      /\ Finds[q] \in Opps
  BY WorkflowAssumption DEF TypeOK
<1>2. UNCHANGED <<card, volume>> /\ other[q] = "asked"
  BY DEF OtherReviews, At
<1>3. ASSUME NEW v \in Verdicts,
             verdict' = [verdict EXCEPT ![Finds[q]] = VerdictOf("agent", working[q], v)]
      PROVE  /\ verdict' \in [Opps -> Verdict]
             /\ \A o \in Opps : verdict'[o] = verdict[o] \/
                  (o = Finds[q] /\ verdict'[o].kind = "agent" /\ verdict'[o] # R!NoVerdict)
  <2>1. /\ VerdictOf("agent", working[q], v) \in Verdict
        /\ VerdictOf("agent", working[q], v).kind = "agent"
        /\ VerdictOf("agent", working[q], v) # R!NoVerdict
    BY <1>1, VerdictOfType
  <2> HIDE DEF Verdict
  <2> QED
    BY <1>1, <1>3, <2>1
<1>4. verdict' = verdict \/ \E v \in Verdicts :
        verdict' = [verdict EXCEPT ![Finds[q]] = VerdictOf("agent", working[q], v)]
  BY DEF OtherReviews
<1> QED
  BY <1>1, <1>2, <1>3, <1>4

----------------------------------------------------------------------------
(* Which steps change what *)

DeskStep ==
  \/ ExportPacket \/ (\E S \in SUBSET Opps : ExportKilled(S))
  \/ (\E o \in Opps, v \in Verdicts : FillTemplate(o, v))
  \/ GenerateFixtures \/ (\E e \in envelopes, v \in Verdicts : EditFixture(e, v))
  \/ MarkRun \/ RunAgain

ImportStep ==
  \/ (\E es \in SUBSET envelopes : CheckReviews(es))
  \/ CommitReviews \/ ImportFails \/ ImportKilled

RunStep == StartFinalize \/ FinalizeStep \/ FinalizeKilled

LEMMA StepIs ==
  [Next]_vars =>
    \/ UNCHANGED vars \/ DeskStep \/ ImportStep \/ RunStep \/ \E q \in Others : OtherStep(q)
  BY DEF Next, DeskStep, ImportStep, RunStep

LEMMA DeskChanges ==
  DeskStep => UNCHANGED <<store, provenance, outputs, verification, preliminary, channel,
                          command, another>>
  BY DEF DeskStep, ExportPacket, ExportKilled, FillTemplate, GenerateFixtures, EditFixture,
     MarkRun, RunAgain, store, directory, outside, command, another

LEMMA ImportChanges ==
  ImportStep =>
    /\ UNCHANGED <<card, volume, marked, outputs, verification, preliminary, channel,
                   outside, judged, judging, another>>
    /\ ~CommitReviews => UNCHANGED verdict
    /\ {step, step'} = {"idle", "import"}
  BY DEF ImportStep, CheckReviews, CommitReviews, ImportFails, ImportKilled, EndImport, store,
     directory, outside, another

LEMMA RunChanges ==
  RunStep =>
    /\ UNCHANGED <<volume, verdict, marked, provenance, outside, batch, another>>
    /\ ~FinalizeWrites => UNCHANGED card
    /\ (\A o \in Opps : ~FinalizeReads(o)) => judging' \in {judging, {}}
    /\ step # "import" /\ step' # "import"
  BY DEF RunStep, StartFinalize, FinalizeStep, FinalizeKilled, ArchiveOutputs,
     ArchiveVerification, FinalizeReads, FinalizeWrites, RenderReport, VerifyRun, MarkChannel,
     store, directory, outside, another

LEMMA OtherChanges ==
  ASSUME NEW q \in Others, OtherStep(q)
  PROVE  /\ UNCHANGED <<directory, outside, command, crashes>>
         /\ ~OtherReviews(q) => UNCHANGED verdict
         /\ (\A t \in Texts : ~OtherGenerates(q, t)) /\ ~OtherJudges(q) => UNCHANGED card
         /\ (\A enough \in BOOLEAN : ~OtherFinds(q, enough)) => UNCHANGED volume
         /\ ~OtherConsiders(q) /\ ~OtherAsks(q) /\ ~OtherReads(q) => UNCHANGED working
         /\ \E to \in {"found", "considering", "critic", "asked", "judge", "judging", "done"} :
              other' = [other EXCEPT ![q] = to] /\ (to = "asked" => OtherCritic = "agent")
  BY DEF OtherStep, OtherFinds, OtherConsiders, OtherGenerates, OtherAsks, OtherSkips,
     OtherReviews, OtherReads, OtherJudges, At, store, another

\* The verdicts are only ever replaced; without an agent, not even that.
LEMMA VerdictsOnlyGrow ==
  ASSUME TypeOK, BatchInv, NoAgents, [Next]_vars
  PROVE  /\ verdict' \in [Opps -> Verdict]
         /\ \A o \in Opps : verdict[o] # R!NoVerdict => verdict'[o] # R!NoVerdict
         /\ OtherCritic = "human" =>
              \A o \in Opps : verdict'[o] # verdict[o] => verdict[o] = R!NoVerdict
<1>1. verdict \in [Opps -> Verdict]
  BY DEF TypeOK
<1>2. CASE CommitReviews
  <2>1. /\ verdict' \in [Opps -> Verdict]
        /\ \A o \in Opps : verdict'[o] = verdict[o] \/
             \E e \in batch : e.opp = o /\ verdict'[o] # R!NoVerdict
    BY <1>2, CommitIs
  <2> QED
    BY <2>1 DEF BatchInv
<1>3. ASSUME NEW q \in Others, OtherReviews(q)
      PROVE  /\ verdict' \in [Opps -> Verdict] /\ OtherCritic # "human"
             /\ \A o \in Opps : verdict[o] # R!NoVerdict => verdict'[o] # R!NoVerdict
  BY <1>3, ReviewIs DEF NoAgents
<1>4. CASE UNCHANGED verdict
  BY <1>1, <1>4
<1>5. CommitReviews \/ (\E q \in Others : OtherReviews(q)) \/ UNCHANGED verdict
  BY StepIs, DeskChanges, ImportChanges, RunChanges, OtherChanges DEF vars, store
<1> QED
  BY <1>2, <1>3, <1>4, <1>5

----------------------------------------------------------------------------
(* Types *)

LEMMA FinalizeIs ==
  ASSUME TypeOK, FinalizeWrites
  PROVE  \E j \in judging : /\ j.id \in Opps /\ j.card \in Card
                            /\ card' = [card EXCEPT ![j.id] = j.card]
                            /\ judged' = judged \cup {j.id}
                            /\ judging' = {}
  BY DEF FinalizeWrites, TypeOK

LEMMA WorkingIs ==
  ASSUME TypeOK, NEW q \in Others, OtherStep(q)
  PROVE  \/ UNCHANGED working
         \/ \E w \in Card : /\ working' = [working EXCEPT ![q] = w]
                            /\ \/ w.status = working[q].status
                               \/ w = card[Finds[q]] \/ w = JudgedCard(Finds[q])
<1>1. /\ working[q] \in Card /\ card[Finds[q]] \in Card /\ Finds[q] \in Opps
      /\ volume[Finds[q]] \in BOOLEAN
  BY WorkflowAssumption DEF TypeOK
<1>2. ASSUME OtherConsiders(q)
      PROVE  \E w \in Card : working' = [working EXCEPT ![q] = w] /\ w.status = working[q].status
  <2> DEFINE enough == volume[Finds[q]]
             w == [text |-> working[q].text, counted |-> enough, status |-> working[q].status]
  <2>1. w \in Card /\ w.status = working[q].status
    BY <1>1 DEF Card
  <2>2. working' = [working EXCEPT ![q].counted = enough]
    BY <1>2 DEF OtherConsiders
  <2> HIDE DEF enough
  <2>3. \A c \in Card : [c EXCEPT !.counted = enough]
          = [text |-> c.text, counted |-> enough, status |-> c.status]
    BY DEF Card
  <2>4. [working[q] EXCEPT !.counted = enough] = w
    BY <1>1, <2>3
  <2> HIDE DEF w
  <2>5. working' = [working EXCEPT ![q] = w]
    BY <2>2, <2>4
  <2> QED
    BY <2>1, <2>5
<1>3. OtherAsks(q) => working' = [working EXCEPT ![q] = card[Finds[q]]]
  BY DEF OtherAsks
<1>4. OtherReads(q) => working' = [working EXCEPT ![q] = JudgedCard(Finds[q])]
  BY DEF OtherReads
<1>5. JudgedCard(Finds[q]) \in Card
  BY <1>1, JudgedCardIs
<1> QED
  BY <1>1, <1>2, <1>3, <1>4, <1>5, OtherChanges

LEMMA StoreTypes ==
  ASSUME TypeOK, BatchInv, NoAgents, [Next]_vars
  PROVE  /\ card' \in [Opps -> Card] /\ volume' \in [Opps -> BOOLEAN]
         /\ verdict' \in [Opps -> Verdict]
<1>1. /\ verdict' \in [Opps -> Verdict] /\ card \in [Opps -> Card]
      /\ volume \in [Opps -> BOOLEAN] /\ \A q \in Others : Finds[q] \in Opps
  BY VerdictsOnlyGrow, WorkflowAssumption DEF TypeOK
<1>2. FinalizeWrites => card' \in [Opps -> Card]
  BY <1>1, FinalizeIs
<1>3. ASSUME NEW q \in Others, OtherStep(q)
      PROVE  card' \in [Opps -> Card] /\ volume' \in [Opps -> BOOLEAN]
  <2>1. working[q] \in Card
    BY DEF TypeOK
  <2>2. ASSUME NEW t \in Texts, OtherGenerates(q, t) PROVE card' \in [Opps -> Card]
    <3>1. [text |-> t, counted |-> working[q].counted, status |-> "observed"] \in Card
      BY <2>1 DEF Card, Statuses
    <3> HIDE DEF Card
    <3> QED
      BY <1>1, <2>2, <3>1 DEF OtherGenerates
  <2>3. OtherJudges(q) => card' \in [Opps -> Card]
    BY <1>1, <2>1 DEF OtherJudges
  <2>4. \A enough \in BOOLEAN : OtherFinds(q, enough) => volume' \in [Opps -> BOOLEAN]
    BY <1>1 DEF OtherFinds
  <2> QED
    BY <1>1, <1>3, <2>2, <2>3, <2>4, OtherChanges
<1>4. /\ ~FinalizeWrites /\ (\A q \in Others : ~OtherStep(q)) => UNCHANGED card
      /\ (\A q \in Others : ~OtherStep(q)) => UNCHANGED volume
  BY StepIs, DeskChanges, ImportChanges, RunChanges DEF vars, store
<1>5. FinalizeWrites => UNCHANGED volume
  BY DEF FinalizeWrites
<1> QED
  BY <1>1, <1>2, <1>3, <1>4, <1>5

LEMMA EnvelopesType ==
  ASSUME TypeOK, [Next]_vars
  PROVE  envelopes' \subseteq [kind : R!Kinds, opp : Opps, seen : Card, opinion : Opinions]
<1> DEFINE Envelopes == [kind : R!Kinds, opp : Opps, seen : Card, opinion : Opinions]
<1>1. \A kind \in R!Kinds : \A o \in Opps : \A c \in Card : \A v \in Opinions :
        Envelope(kind, o, c, v) \in Envelopes
  BY DEF Envelope
<1>2. /\ envelopes \subseteq Envelopes
      /\ \A o \in Opps : packet.dirs[o] \subseteq Card /\ packet.manifest[o] \subseteq Card
  BY DEF TypeOK
<1> HIDE DEF Envelopes
<1>3. ASSUME NEW o \in Opps, NEW v \in Verdicts, FillTemplate(o, v)
      PROVE  envelopes' \subseteq Envelopes
  <2>1. PICK c \in packet.dirs[o] : envelopes' = envelopes \cup {Envelope("human", o, c, v)}
    BY <1>3 DEF FillTemplate
  <2>2. c \in Card /\ v \in Opinions /\ "human" \in R!Kinds
    BY <1>2, WorkflowAssumption DEF R!Kinds
  <2> QED
    BY <1>1, <1>2, <2>1, <2>2
<1>4. ASSUME GenerateFixtures PROVE envelopes' \subseteq Envelopes
  <2>1. FixtureVerdict \in Opinions /\ "test_fixture" \in R!Kinds
    BY DEF FixtureVerdict, Opinions, R!Kinds
  <2>2. ASSUME NEW x \in envelopes' PROVE x \in Envelopes
    <3>1. CASE x \in envelopes
      BY <1>2, <3>1
    <3>2. CASE \E o \in Opps : \E c \in packet.manifest[o] :
                 x = Envelope("test_fixture", o, c, FixtureVerdict)
      <4>1. PICK o \in Opps : \E c \in packet.manifest[o] :
                   x = Envelope("test_fixture", o, c, FixtureVerdict)
        BY <3>2
      <4>2. PICK c \in packet.manifest[o] : x = Envelope("test_fixture", o, c, FixtureVerdict)
        BY <4>1
      <4>3. c \in Card
        BY <1>2
      <4> QED
        BY <1>1, <2>1, <4>2, <4>3
    <3> QED
      BY <1>4, <3>1, <3>2 DEF GenerateFixtures
  <2> QED
    BY <2>2
<1>5. ASSUME NEW e \in envelopes, NEW v \in Verdicts, EditFixture(e, v)
      PROVE  envelopes' \subseteq Envelopes
  <2>1. /\ e.kind \in R!Kinds /\ e.opp \in Opps /\ e.seen \in Card /\ v \in Opinions
    BY WorkflowAssumption DEF TypeOK
  <2> QED
    BY <1>1, <1>2, <1>5, <2>1 DEF EditFixture
<1>6. \/ UNCHANGED envelopes \/ (\E o \in Opps, v \in Verdicts : FillTemplate(o, v))
      \/ GenerateFixtures \/ (\E e \in envelopes, v \in Verdicts : EditFixture(e, v))
  <2>1. DeskStep => \/ UNCHANGED envelopes
                    \/ (\E o \in Opps, v \in Verdicts : FillTemplate(o, v))
                    \/ GenerateFixtures
                    \/ (\E e \in envelopes, v \in Verdicts : EditFixture(e, v))
    BY DEF DeskStep, ExportPacket, ExportKilled, MarkRun, RunAgain, outside
  <2> QED
    BY <2>1, StepIs, ImportChanges, RunChanges, OtherChanges DEF vars, outside
<1> QED
  BY <1>2, <1>3, <1>4, <1>5, <1>6 DEF Envelopes

\* The packet holds the cards as they are exported.
LEMMA PacketType ==
  ASSUME TypeOK, Shape, [Next]_vars
  PROVE  /\ packet' = [dirs |-> packet'.dirs, manifest |-> packet'.manifest]
         /\ packet'.dirs \in [Opps -> SUBSET Card] /\ packet'.manifest \in [Opps -> SUBSET Card]
         /\ \A o \in Opps : packet'.dirs[o] = packet.dirs[o] \/ packet'.dirs[o] = {card[o]}
<1>1. /\ card \in [Opps -> Card]
      /\ packet.dirs \in [Opps -> SUBSET Card] /\ packet.manifest \in [Opps -> SUBSET Card]
      /\ packet = [dirs |-> packet.dirs, manifest |-> packet.manifest]
  BY DEF TypeOK, Shape
<1>2. CASE ExportPacket
  <2>1. packet' = [dirs |-> [o \in Opps |-> {card[o]}], manifest |-> [o \in Opps |-> {card[o]}]]
    BY <1>2 DEF ExportPacket
  <2> QED
    BY <1>1, <2>1
<1>3. ASSUME NEW S \in SUBSET Opps, ExportKilled(S)
      PROVE  /\ packet' = [dirs |-> packet'.dirs, manifest |-> packet'.manifest]
             /\ packet'.dirs \in [Opps -> SUBSET Card]
             /\ packet'.manifest \in [Opps -> SUBSET Card]
             /\ \A o \in Opps : packet'.dirs[o] = packet.dirs[o] \/ packet'.dirs[o] = {card[o]}
  <2> DEFINE dirs == [o \in Opps |-> IF o \in S THEN {card[o]} ELSE packet.dirs[o]]
  <2>1. packet' = [packet EXCEPT !.dirs = dirs]
    BY <1>3 DEF ExportKilled
  <2>2. dirs \in [Opps -> SUBSET Card]
    BY <1>1
  <2>3. \A o \in Opps : dirs[o] = packet.dirs[o] \/ dirs[o] = {card[o]}
    OBVIOUS
  <2> HIDE DEF dirs
  <2>4. packet' = [dirs |-> dirs, manifest |-> packet.manifest]
    BY <1>1, <2>1
  <2> QED
    BY <1>1, <2>2, <2>3, <2>4
<1>4. ExportPacket \/ (\E S \in SUBSET Opps : ExportKilled(S)) \/ UNCHANGED packet
  <2>1. DeskStep =>
          ExportPacket \/ (\E S \in SUBSET Opps : ExportKilled(S)) \/ UNCHANGED packet
    BY DEF DeskStep, FillTemplate, GenerateFixtures, EditFixture, MarkRun, RunAgain, outside
  <2> QED
    BY <2>1, StepIs, ImportChanges, RunChanges, OtherChanges DEF vars, outside
<1> QED
  BY <1>1, <1>2, <1>3, <1>4

\* Records are added by imports alone, killed or not.
LEMMA ProvenanceIs ==
  ASSUME TypeOK, BatchInv, [Next]_vars
  PROVE  \/ UNCHANGED provenance
         \/ /\ CommitReviews \/ ImportKilled
            /\ provenance' = provenance \cup R!RecordsOf(BatchOf(batch))
            /\ batch \in SUBSET envelopes /\ batch # {} /\ batch' = {}
            /\ \A e, f \in batch : e.kind = f.kind /\ (e.opp = f.opp => e = f)
<1>1. \/ UNCHANGED provenance
      \/ /\ CommitReviews \/ ImportKilled
         /\ provenance' = provenance \cup R!RecordsOf(BatchOf(batch))
  <2>1. ImportStep =>
          \/ UNCHANGED provenance
          \/ /\ CommitReviews \/ ImportKilled
             /\ provenance' = provenance \cup R!RecordsOf(BatchOf(batch))
    BY DEF ImportStep, CheckReviews, CommitReviews, ImportFails, ImportKilled, directory
  <2> QED
    BY <2>1, StepIs, DeskChanges, RunChanges, OtherChanges DEF vars, directory
<1>2. batch \in SUBSET envelopes
  BY DEF TypeOK
<1>3. CommitReviews \/ ImportKilled => step = "import" /\ batch' = {}
  BY DEF CommitReviews, ImportKilled, EndImport
<1> QED
  BY <1>1, <1>2, <1>3 DEF BatchInv

LEMMA ProvenanceType ==
  ASSUME TypeOK, Shape, BatchInv, OnRecord, [Next]_vars
  PROVE  /\ \A r \in provenance' : /\ r = [opp |-> r.opp, batch |-> r.batch]
                                   /\ r.opp \in Opps /\ r.batch.kind \in R!Kinds
         /\ \A r, s \in provenance' : r.batch.kind = s.batch.kind
         /\ provenance \subseteq provenance'
<1>1. /\ \A r \in provenance : /\ r = [opp |-> r.opp, batch |-> r.batch]
                               /\ r.opp \in Opps /\ r.batch.kind \in R!Kinds
      /\ \A r, s \in provenance : r.batch.kind = s.batch.kind
  BY DEF TypeOK, Shape, OnRecord
<1>2. CASE UNCHANGED provenance
  BY <1>1, <1>2
<1>3. CASE ~UNCHANGED provenance
  <2> DEFINE b == BatchOf(batch)
  <2>1. /\ provenance' = provenance \cup R!RecordsOf(b)
        /\ b.kind \in R!Kinds /\ batch # {} /\ \A e \in batch : e.kind = b.kind
        /\ \A r \in R!RecordsOf(b) : r = [opp |-> r.opp, batch |-> b] /\ r.opp \in Opps
    BY <1>3, ProvenanceIs, BatchIs
  <2>2. \A r \in provenance : r.batch.kind = b.kind
    BY <2>1 DEF BatchInv
  <2> HIDE DEF b
  <2>3. \A r \in R!RecordsOf(b) : r.batch = b /\ r = [opp |-> r.opp, batch |-> r.batch]
    BY <2>1
  <2>4. \A r \in provenance' : r \in provenance \/ r \in R!RecordsOf(b)
    BY <2>1
  <2> QED
    BY <1>1, <2>1, <2>2, <2>3, <2>4
<1> QED
  BY <1>2, <1>3

LEMMA ReportType ==
  ASSUME TypeOK
  PROVE  /\ Report \subseteq Row
         /\ \A row \in Report : \E o \in Opps :
              row.verdict = verdict[o] /\ row.card = card[o]
         /\ \A o \in Opps : \E row \in Report : row.verdict = verdict[o] /\ row.card = card[o]
<1>1. \A o \in Opps : card[o] \in Card /\ verdict[o] \in Verdict
  BY DEF TypeOK
<1> HIDE DEF Card, Verdict
<1>2. ASSUME NEW row \in Report
      PROVE  row \in Row /\ \E o \in Opps : row.verdict = verdict[o] /\ row.card = card[o]
  <2>1. PICK o \in Opps : row = [id |-> o, card |-> card[o], verdict |-> verdict[o]]
    BY DEF Report
  <2> QED
    BY <1>1, <2>1 DEF Row
<1>3. ASSUME NEW o \in Opps
      PROVE  \E row \in Report : row.verdict = verdict[o] /\ row.card = card[o]
  <2>1. [id |-> o, card |-> card[o], verdict |-> verdict[o]] \in Report
    BY DEF Report
  <2> QED
    BY <2>1
<1> QED
  BY <1>2, <1>3

LEMMA OverallVerdictType ==
  \A checks, analyst, critic : OverallVerdict(checks, analyst, critic) \in {"PASS", "FAIL", "BLOCKED"}
  BY DEF OverallVerdict

FileStep ==
  \/ StartFinalize \/ ArchiveOutputs \/ ArchiveVerification \/ RenderReport \/ VerifyRun
  \/ MarkChannel \/ FinalizeKilled

\* Which steps touch the files of the run directory, or move finalize on.
LEMMA FileChanges ==
  [Next]_vars =>
    \/ FileStep /\ UNCHANGED <<card, verdict, provenance, envelopes, packet, batch>>
    \/ /\ UNCHANGED <<outputs, verification, preliminary, channel>>
       /\ UNCHANGED step \/ {step, step'} = {"idle", "import"}
<1>1. RunStep =>
        \/ FileStep
        \/ UNCHANGED <<outputs, verification, preliminary, channel, step>>
  BY DEF RunStep, FileStep, FinalizeStep, FinalizeReads, FinalizeWrites, directory
<1>2. FileStep => UNCHANGED card
  BY DEF FileStep, StartFinalize, ArchiveOutputs, ArchiveVerification, RenderReport, VerifyRun,
     MarkChannel, FinalizeKilled, store
<1> QED
  BY <1>1, <1>2, StepIs, DeskChanges, ImportChanges, RunChanges, OtherChanges
     DEF vars, directory, command, outside, store

LEMMA RunTypes ==
  ASSUME TypeOK, Shape, [Next]_vars
  PROVE  /\ outputs' \subseteq Row
         /\ verification' \in {"PASS", "FAIL", "BLOCKED"}
         /\ Cardinality(preliminary'.outputs) \leq 1
         /\ preliminary'.verification \subseteq {"PASS", "FAIL", "BLOCKED"}
         /\ preliminary' = [outputs |-> preliminary'.outputs,
                            verification |-> preliminary'.verification]
         /\ step' \in {"idle", "import", "archive_outputs", "archive_verification", "judge",
                       "verify", "mark_channel"}
         /\ channel' \in BOOLEAN
<1>1. /\ outputs \subseteq Row /\ verification \in {"PASS", "FAIL", "BLOCKED"}
      /\ Cardinality(preliminary.outputs) \leq 1
      /\ preliminary.verification \subseteq {"PASS", "FAIL", "BLOCKED"}
      /\ preliminary = [outputs |-> preliminary.outputs,
                        verification |-> preliminary.verification]
      /\ step \in {"idle", "import", "archive_outputs", "archive_verification", "judge",
                   "verify", "mark_channel"}
      /\ channel \in BOOLEAN
  BY DEF TypeOK, Shape, Row
<1>2. CASE /\ UNCHANGED <<outputs, verification, preliminary, channel>>
           /\ UNCHANGED step \/ {step, step'} = {"idle", "import"}
  BY <1>1, <1>2
<1>3. CASE StartFinalize \/ FinalizeKilled
  BY <1>1, <1>3 DEF StartFinalize, FinalizeKilled, directory
<1>4. CASE ArchiveOutputs
  <2>1. preliminary' = [outputs |-> {outputs}, verification |-> preliminary.verification]
    BY <1>1, <1>4 DEF ArchiveOutputs
  <2>2. Cardinality({outputs}) = 1
    BY FS_Singleton
  <2>3. preliminary'.outputs = {outputs} /\ preliminary'.verification = preliminary.verification
    BY <2>1
  <2> QED
    BY <1>1, <1>4, <2>1, <2>2, <2>3 DEF ArchiveOutputs
<1>5. CASE ArchiveVerification
  <2>1. preliminary' = [outputs |-> preliminary.outputs, verification |-> {verification}]
    BY <1>1, <1>5 DEF ArchiveVerification
  <2>2. preliminary'.outputs = preliminary.outputs /\ preliminary'.verification = {verification}
    BY <2>1
  <2> QED
    BY <1>1, <1>5, <2>1, <2>2 DEF ArchiveVerification
<1>6. CASE RenderReport
  BY <1>1, <1>6, ReportType DEF RenderReport
<1>7. CASE VerifyRun
  BY <1>1, <1>7, OverallVerdictType DEF VerifyRun
<1>8. CASE MarkChannel
  <2>1. channel' \in BOOLEAN
    BY <1>1, <1>8, ZenonT(30) DEF MarkChannel
  <2> QED
    BY <1>1, <1>8, <2>1 DEF MarkChannel
<1> QED
  BY <1>2, <1>3, <1>4, <1>5, <1>6, <1>7, <1>8, FileChanges DEF FileStep

LEMMA CommandsType ==
  ASSUME TypeOK, [Next]_vars
  PROVE  /\ marked' \in BOOLEAN /\ judged' \subseteq Opps /\ batch' \subseteq envelopes'
         /\ judging' \subseteq [id : Opps, card : Card]
         /\ crashes' \in 0 .. MaxCrashes
<1>1. /\ marked \in BOOLEAN /\ judged \subseteq Opps /\ crashes \in 0 .. MaxCrashes
      /\ batch \subseteq envelopes /\ judging \subseteq [id : Opps, card : Card]
      /\ MaxCrashes \in Nat
  BY WorkflowAssumption DEF TypeOK
<1>2. marked' \in {marked, TRUE, FALSE}
  <2>1. DeskStep => marked' \in {marked, TRUE, FALSE}
    BY DEF DeskStep, ExportPacket, ExportKilled, FillTemplate, GenerateFixtures, EditFixture,
       MarkRun, RunAgain, directory
  <2> QED
    BY <2>1, StepIs, ImportChanges, RunChanges, OtherChanges DEF vars, directory
<1>3. crashes' = crashes \/ (crashes < MaxCrashes /\ crashes' = crashes + 1)
  <2>1. DeskStep => crashes' = crashes \/ (crashes < MaxCrashes /\ crashes' = crashes + 1)
    BY DEF DeskStep, ExportPacket, ExportKilled, FillTemplate, GenerateFixtures, EditFixture,
       MarkRun, RunAgain
  <2>2. ImportStep => crashes' = crashes \/ (crashes < MaxCrashes /\ crashes' = crashes + 1)
    BY DEF ImportStep, CheckReviews, CommitReviews, ImportFails, ImportKilled
  <2>3. RunStep => crashes' = crashes \/ (crashes < MaxCrashes /\ crashes' = crashes + 1)
    BY DEF RunStep, StartFinalize, FinalizeStep, FinalizeKilled, ArchiveOutputs,
       ArchiveVerification, FinalizeReads, FinalizeWrites, RenderReport, VerifyRun, MarkChannel
  <2> QED
    BY <2>1, <2>2, <2>3, StepIs, OtherChanges DEF vars
<1>4. judged' \in {judged, {}} \/ FinalizeWrites
  <2>1. RunStep => judged' \in {judged, {}} \/ FinalizeWrites
    BY DEF RunStep, StartFinalize, FinalizeStep, FinalizeKilled, ArchiveOutputs,
       ArchiveVerification, FinalizeReads, RenderReport, VerifyRun, MarkChannel
  <2> QED
    BY <2>1, StepIs, DeskChanges, ImportChanges, OtherChanges DEF vars, command
<1>5. judged' \subseteq Opps
  BY <1>1, <1>4, FinalizeIs
<1>6. envelopes \subseteq envelopes'
  <2>1. DeskStep => envelopes \subseteq envelopes'
    BY DEF DeskStep, ExportPacket, ExportKilled, FillTemplate, GenerateFixtures, EditFixture,
       MarkRun, RunAgain, outside
  <2> QED
    BY <2>1, StepIs, ImportChanges, RunChanges, OtherChanges DEF vars, outside
<1>7. batch' \in SUBSET envelopes
  <2>1. ImportStep => batch' \in SUBSET envelopes
    BY DEF ImportStep, CheckReviews, CommitReviews, ImportFails, ImportKilled, EndImport
  <2> QED
    BY <1>1, <2>1, StepIs, DeskChanges, RunChanges, OtherChanges DEF vars, command
<1>8. judging' \subseteq [id : Opps, card : Card]
  <2>1. ASSUME NEW o \in Opps, FinalizeReads(o) PROVE judging' \subseteq [id : Opps, card : Card]
    <3>1. judging' = {[id |-> o, card |-> JudgedCard(o)]} /\ JudgedCard(o) \in Card
      BY <2>1, JudgedCardIs DEF FinalizeReads
    <3> HIDE DEF Card
    <3> QED
      BY <3>1
  <2>2. (\A o \in Opps : ~FinalizeReads(o)) => judging' \in {judging, {}}
    BY StepIs, DeskChanges, ImportChanges, RunChanges, OtherChanges DEF vars, command
  <2> QED
    BY <1>1, <2>1, <2>2
<1>9. marked' \in BOOLEAN
  BY <1>1, <1>2, Zenon
<1>10. crashes' \in 0 .. MaxCrashes
  BY <1>1, <1>3
<1>11. batch' \subseteq envelopes'
  BY <1>6, <1>7
<1> QED
  BY <1>5, <1>8, <1>9, <1>10, <1>11

LEMMA OtherTypes ==
  ASSUME TypeOK, [Next]_vars
  PROVE  /\ other' \in [Others -> {"away", "found", "considering", "critic", "asked", "judge",
                                   "judging", "done"}]
         /\ working' \in [Others -> Card]
<1>1. /\ other \in [Others -> {"away", "found", "considering", "critic", "asked", "judge",
                               "judging", "done"}]
      /\ working \in [Others -> Card]
  BY DEF TypeOK
<1> HIDE DEF Card
<1>2. (\A q \in Others : ~OtherStep(q)) => UNCHANGED <<other, working>>
  BY StepIs, DeskChanges, ImportChanges, RunChanges DEF vars, another
<1>3. ASSUME NEW q \in Others, OtherStep(q)
      PROVE  /\ \E to \in {"found", "considering", "critic", "asked", "judge", "judging", "done"} :
                   other' = [other EXCEPT ![q] = to]
             /\ UNCHANGED working \/ \E w \in Card : working' = [working EXCEPT ![q] = w]
  BY <1>3, OtherChanges, WorkingIs
<1> QED
  BY <1>1, <1>2, <1>3

LEMMA NextTypes ==
  ASSUME TypeOK, Shape, BatchInv, OnRecord, NoAgents, [Next]_vars
  PROVE  TypeOK' /\ Shape'
<1>1. Shape'
  BY PacketType, ProvenanceType, RunTypes DEF Shape
<1>2. {marked', channel'} \subseteq BOOLEAN
  BY CommandsType, RunTypes
<1>3. outputs' \subseteq [id : Opps, card : Card, verdict : Verdict]
  BY RunTypes DEF Row
<1> QED
  BY <1>1, <1>2, <1>3, StoreTypes, EnvelopesType, PacketType, ProvenanceType, RunTypes,
     CommandsType, OtherTypes DEF TypeOK

----------------------------------------------------------------------------
(* What every step keeps *)

LEMMA NextFixture ==
  ASSUME TypeOK, BatchInv, FixtureInv, [Next]_vars
  PROVE  FixtureInv'
<1>1. ASSUME NEW e \in batch' PROVE e.kind = "test_fixture" => e.opinion.recommended # "experiment_ready"
  <2>1. ASSUME NEW es \in SUBSET envelopes, CheckReviews(es), e \in es
        PROVE  e.kind = "test_fixture" => e.opinion.recommended # "experiment_ready"
    BY <2>1, CheckIs DEF CheckReviews
  <2>2. e \in batch \/ \E es \in SUBSET envelopes : CheckReviews(es) /\ e \in es
    <3>1. ImportStep => e \in batch \/ \E es \in SUBSET envelopes : CheckReviews(es) /\ e \in es
      BY DEF ImportStep, CheckReviews, CommitReviews, ImportFails, ImportKilled, EndImport
    <3> QED
      BY <3>1, StepIs, DeskChanges, RunChanges, OtherChanges DEF vars, command
  <2> QED
    BY <2>1, <2>2 DEF FixtureInv
<1>2. ASSUME NEW o \in Opps, verdict'[o].kind = "test_fixture"
      PROVE  verdict'[o].recommended # "experiment_ready"
  <2>1. CASE CommitReviews
    <3>1. verdict'[o] = verdict[o] \/ \E e \in batch :
            verdict'[o].kind = e.kind /\ verdict'[o].recommended = e.opinion.recommended
      BY <2>1, CommitIs
    <3> QED
      BY <1>2, <3>1 DEF FixtureInv
  <2>2. ASSUME NEW q \in Others, OtherReviews(q) PROVE verdict'[o] = verdict[o]
    BY <1>2, <2>2, ReviewIs
  <2>3. CommitReviews \/ (\E q \in Others : OtherReviews(q)) \/ UNCHANGED verdict
    BY StepIs, DeskChanges, ImportChanges, RunChanges, OtherChanges DEF vars, store
  <2> QED
    BY <1>2, <2>1, <2>2, <2>3 DEF FixtureInv
<1> QED
  BY <1>1, <1>2 DEF FixtureInv

LEMMA NextBatch ==
  ASSUME TypeOK, BatchInv, NoAgents, [Next]_vars
  PROVE  BatchInv'
<1>1. ASSUME NEW es \in SUBSET envelopes, CheckReviews(es) PROVE BatchInv'
  <2>1. /\ es # {} /\ batch' = es /\ step' = "import" /\ UNCHANGED <<verdict, provenance>>
        /\ \A e, f \in es : e.kind = f.kind /\ (e.opp = f.opp => e = f)
        /\ \A e \in es : verdict[e.opp] = R!NoVerdict
        /\ \A e \in es, r \in provenance : r.batch.kind = e.kind
    BY <1>1, CheckIs DEF CheckReviews, store, directory
  <2> QED
    BY <2>1 DEF BatchInv
<1>2. CASE CommitReviews \/ ImportFails \/ ImportKilled
  <2>1. batch' = {} /\ step' = "idle"
    BY <1>2 DEF CommitReviews, ImportFails, ImportKilled, EndImport
  <2> QED
    BY <2>1 DEF BatchInv
<1>3. CASE ~ImportStep
  <2>1. UNCHANGED <<batch, provenance>> /\ (step' = "import" <=> step = "import")
    BY <1>3, StepIs, DeskChanges, RunChanges, OtherChanges DEF vars, command, directory
  <2>2. OtherCritic = "human" => UNCHANGED verdict
    <3>1. OtherCritic = "human" => \A q \in Others : ~OtherReviews(q)
      BY ReviewIs DEF NoAgents
    <3> QED
      BY <1>3, <3>1, StepIs, DeskChanges, RunChanges, OtherChanges DEF vars, store
  <2> QED
    BY <2>1, <2>2 DEF BatchInv
<1> QED
  BY <1>1, <1>2, <1>3 DEF ImportStep

\* A record stays, and a verdict that comes in by an import brings one.
LEMMA NextOnRecord ==
  ASSUME TypeOK, Shape, BatchInv, OnRecord, [Next]_vars
  PROVE  OnRecord'
<1>1. /\ \A r, s \in provenance' : r.batch.kind = s.batch.kind
      /\ provenance \subseteq provenance'
  BY ProvenanceType
<1>2. \A o, kind : Recorded(o, kind) => \E r \in provenance' : r.opp = o /\ r.batch.kind = kind
  BY <1>1 DEF Recorded
<1>3. ASSUME NEW o \in Opps, verdict'[o].kind \in R!Kinds
      PROVE  \E r \in provenance' : r.opp = o /\ r.batch.kind = verdict'[o].kind
  <2>1. CASE verdict'[o] = verdict[o]
    BY <1>2, <1>3, <2>1 DEF OnRecord
  <2>2. CASE verdict'[o] # verdict[o]
    <3>1. CASE CommitReviews
      <4>1. PICK e \in batch : e.opp = o /\ verdict'[o].kind = e.kind
        BY <2>2, <3>1, CommitIs
      <4>2. /\ batch \in SUBSET envelopes /\ batch # {}
            /\ \A f, g \in batch : f.kind = g.kind /\ (f.opp = g.opp => f = g)
        BY <4>1 DEF BatchInv, TypeOK
      <4>3. /\ [opp |-> o, batch |-> BatchOf(batch)] \in R!RecordsOf(BatchOf(batch))
            /\ e.kind = BatchOf(batch).kind
        BY <4>1, <4>2, BatchIs
      <4>4. provenance' = provenance \cup R!RecordsOf(BatchOf(batch))
        BY <3>1 DEF CommitReviews
      <4> QED
        BY <4>1, <4>3, <4>4
    <3>2. ASSUME NEW q \in Others, OtherReviews(q) PROVE FALSE
      BY <1>3, <2>2, <3>2, ReviewIs DEF R!Kinds
    <3>3. CommitReviews \/ (\E q \in Others : OtherReviews(q)) \/ UNCHANGED verdict
      BY StepIs, DeskChanges, ImportChanges, RunChanges, OtherChanges DEF vars, store
    <3> QED
      BY <2>2, <3>1, <3>2, <3>3
  <2> QED
    BY <2>1, <2>2
<1>4. ASSUME NEW row \in outputs', row.verdict.kind \in R!Kinds
      PROVE  \E r \in provenance' : r.opp = row.id /\ r.batch.kind = row.verdict.kind
  <2>1. CASE row \in outputs
    BY <1>2, <1>4, <2>1 DEF OnRecord
  <2>2. CASE row \in Report
    <3>1. PICK o \in Opps : row = [id |-> o, card |-> card[o], verdict |-> verdict[o]]
      BY <2>2 DEF Report
    <3>2. row.id = o /\ row.verdict = verdict[o]
      BY <3>1
    <3> QED
      BY <1>2, <1>4, <3>2 DEF OnRecord
  <2>3. outputs' = outputs \/ outputs' = Report
    BY FileChanges DEF FileStep, StartFinalize, ArchiveOutputs, ArchiveVerification,
       RenderReport, VerifyRun, MarkChannel, FinalizeKilled, directory
  <2> QED
    BY <2>1, <2>2, <2>3
<1> QED
  BY <1>1, <1>3, <1>4 DEF OnRecord, Recorded

LEMMA NextNoAgents ==
  ASSUME TypeOK, BatchInv, NoAgents, [Next]_vars
  PROVE  NoAgents'
<1> SUFFICES ASSUME OtherCritic = "human"
             PROVE  /\ \A q \in Others : other'[q] # "asked"
                    /\ \A o \in Opps : verdict'[o].kind # "agent"
  BY DEF NoAgents
<1>1. \A q \in Others : other[q] # "asked"
  BY DEF NoAgents
<1>2. ASSUME NEW q \in Others PROVE other'[q] # "asked"
  <2>1. other \in [Others -> {"away", "found", "considering", "critic", "asked", "judge",
                              "judging", "done"}]
    BY DEF TypeOK
  <2>2. UNCHANGED other \/ \E p \in Others : \E to : other' = [other EXCEPT ![p] = to] /\ to # "asked"
    <3>1. \A p \in Others : OtherStep(p) =>
            \E to : other' = [other EXCEPT ![p] = to] /\ to # "asked"
      BY OtherChanges
    <3> QED
      BY <3>1, StepIs, DeskChanges, ImportChanges, RunChanges DEF vars, another
  <2> QED
    BY <1>1, <2>1, <2>2
<1>3. ASSUME NEW o \in Opps PROVE verdict'[o].kind # "agent"
  <2>1. CommitReviews => verdict'[o] = verdict[o] \/ \E e \in batch : verdict'[o].kind = e.kind
    BY CommitIs
  <2>2. \A e \in batch : e.kind # "agent"
    BY DEF TypeOK, R!Kinds
  <2>3. \A q \in Others : ~OtherReviews(q)
    BY <1>1, ReviewIs
  <2>4. CommitReviews \/ UNCHANGED verdict
    BY <2>3, StepIs, DeskChanges, ImportChanges, RunChanges, OtherChanges DEF vars, store
  <2> QED
    BY <2>1, <2>2, <2>4 DEF NoAgents
<1> QED
  BY <1>2, <1>3

\* A judgement that a card is ready rests on a person's approval.
LEMMA JudgedIsApproved ==
  ASSUME TypeOK, FixtureInv, NoAgents, OtherCritic = "human", NEW o \in Opps,
         JudgedCard(o).status = "experiment_ready"
  PROVE  Approves(verdict[o])
<1>1. /\ verdict[o] # R!NoVerdict /\ verdict[o].recommended = "experiment_ready"
      /\ ~verdict[o].fatal
  BY JudgedCardIs
<1>2. verdict[o] \in Verdict
  BY DEF TypeOK
<1>3. verdict[o].kind \in {"none", "human", "test_fixture", "agent"}
  BY <1>2 DEF Verdict, R!NoVerdict, R!Kinds
<1>4. verdict[o].kind # "none" /\ verdict[o].kind # "agent" /\ verdict[o].kind # "test_fixture"
  BY <1>1, <1>2, VerdictKinds DEF NoAgents, FixtureInv
<1> QED
  BY <1>1, <1>3, <1>4 DEF Approves

LEMMA NextReady ==
  ASSUME TypeOK, BatchInv, FixtureInv, NoAgents, ReadyInv, [Next]_vars
  PROVE  ReadyInv'
<1> SUFFICES ASSUME OtherCritic = "human"
             PROVE  /\ \A o \in Opps : card'[o].status = "experiment_ready" => Approves(verdict'[o])
                    /\ \A j \in judging' :
                         j.card.status = "experiment_ready" => Approves(verdict'[j.id])
                    /\ \A q \in Others :
                         working'[q].status = "experiment_ready" => Approves(verdict'[Finds[q]])
                    /\ \A row \in outputs' :
                         row.card.status = "experiment_ready" => Approves(row.verdict)
  BY DEF ReadyInv
<1>1. \A o \in Opps : Approves(verdict[o]) => verdict'[o] = verdict[o]
  BY VerdictsOnlyGrow DEF Approves, R!NoVerdict
<1>2. /\ \A o \in Opps : card[o].status = "experiment_ready" => Approves(verdict[o])
      /\ \A j \in judging : j.card.status = "experiment_ready" => Approves(verdict[j.id])
      /\ \A q \in Others : working[q].status = "experiment_ready" => Approves(verdict[Finds[q]])
      /\ \A row \in outputs : row.card.status = "experiment_ready" => Approves(row.verdict)
  BY DEF ReadyInv
<1>3. /\ card \in [Opps -> Card] /\ working \in [Others -> Card]
      /\ \A q \in Others : Finds[q] \in Opps
      /\ \A j \in judging : j.id \in Opps
  BY WorkflowAssumption DEF TypeOK
<1>4. ASSUME NEW o \in Opps, card'[o].status = "experiment_ready" PROVE Approves(verdict[o])
  <2>1. CASE FinalizeWrites
    <3>1. PICK j \in judging : card' = [card EXCEPT ![j.id] = j.card]
      BY <2>1, FinalizeIs
    <3> QED
      BY <1>2, <1>3, <1>4, <3>1
  <2>2. ASSUME NEW q \in Others, OtherStep(q) PROVE Approves(verdict[o])
    <3>1. \A t \in Texts : OtherGenerates(q, t) =>
            card'[o] = card[o] \/ card'[o].status = "observed"
      BY <1>3 DEF OtherGenerates
    <3>2. OtherJudges(q) => card'[o] = card[o] \/ (o = Finds[q] /\ card'[o] = working[q])
      BY <1>3 DEF OtherJudges
    <3> QED
      BY <1>2, <1>4, <2>2, <3>1, <3>2, OtherChanges
  <2>3. FinalizeWrites \/ (\E q \in Others : OtherStep(q)) \/ UNCHANGED card
    BY StepIs, DeskChanges, ImportChanges, RunChanges DEF vars, store
  <2> QED
    BY <1>2, <1>4, <2>1, <2>2, <2>3
<1>5. ASSUME NEW j \in judging', j.card.status = "experiment_ready"
      PROVE  j.id \in Opps /\ Approves(verdict[j.id])
  <2>1. CASE j \in judging
    BY <1>2, <1>3, <1>5, <2>1
  <2>2. ASSUME NEW o \in Opps, FinalizeReads(o) PROVE j.id \in Opps /\ Approves(verdict[j.id])
    <3>1. j.id = o /\ j.card = JudgedCard(o)
      BY <2>2 DEF FinalizeReads
    <3> QED
      BY <1>5, <3>1, JudgedIsApproved
  <2>3. (\A o \in Opps : ~FinalizeReads(o)) => judging' \in {judging, {}}
    BY StepIs, DeskChanges, ImportChanges, RunChanges, OtherChanges DEF vars, command
  <2> QED
    BY <2>1, <2>2, <2>3
<1>6. ASSUME NEW q \in Others, working'[q].status = "experiment_ready"
      PROVE  Approves(verdict[Finds[q]])
  <2>1. CASE working'[q] = working[q]
    BY <1>2, <1>6, <2>1
  <2>2. CASE working'[q] # working[q]
    <3>1. (\E p \in Others : OtherStep(p)) \/ UNCHANGED working
      BY StepIs, DeskChanges, ImportChanges, RunChanges DEF vars, another
    <3>2. PICK p \in Others : OtherStep(p)
      BY <2>2, <3>1
    <3>3. PICK w \in Card : /\ working' = [working EXCEPT ![p] = w]
                            /\ \/ w.status = working[p].status
                               \/ w = card[Finds[p]] \/ w = JudgedCard(Finds[p])
      BY <2>2, <3>2, WorkingIs
    <3>4. p = q /\ working'[q] = w
      BY <1>3, <2>2, <3>3
    <3> QED
      BY <1>2, <1>3, <1>6, <3>3, <3>4, JudgedIsApproved
  <2> QED
    BY <2>1, <2>2
<1>7. ASSUME NEW row \in outputs', row.card.status = "experiment_ready"
      PROVE  Approves(row.verdict)
  <2>1. row \in Report => \E o \in Opps : row.verdict = verdict[o] /\ row.card = card[o]
    BY ReportType
  <2>2. outputs' = outputs \/ outputs' = Report
    BY FileChanges DEF FileStep, StartFinalize, ArchiveOutputs, ArchiveVerification,
       RenderReport, VerifyRun, MarkChannel, FinalizeKilled, directory
  <2> QED
    BY <1>2, <1>7, <2>1, <2>2
<1> QED
  BY <1>1, <1>3, <1>4, <1>5, <1>6, <1>7

LEMMA NextChannel ==
  ASSUME TypeOK, Shape, BatchInv, OnRecord, NoAgents, ChannelInv, [Next]_vars
  PROVE  ChannelInv'
<1>1. /\ \A o \in Opps : verdict[o] # R!NoVerdict => verdict'[o] # R!NoVerdict
      /\ OtherCritic = "human" =>
           \A o \in Opps : verdict'[o] # verdict[o] => verdict[o] = R!NoVerdict
  BY VerdictsOnlyGrow
<1>2. AllReviewed => AllReviewed'
  BY <1>1 DEF AllReviewed
<1>3. ASSUME OtherCritic = "human", Synthetic PROVE UNCHANGED verdict /\ Synthetic'
  <2>1. \A o \in Opps : verdict[o] # R!NoVerdict
    BY <1>3 DEF Synthetic, R!NoVerdict
  <2>2. \A o \in Opps : verdict'[o] = verdict[o]
    BY <1>1, <1>3, <2>1
  <2>3. verdict \in [Opps -> Verdict] /\ verdict' \in [Opps -> Verdict]
    BY VerdictsOnlyGrow DEF TypeOK
  <2> QED
    BY <1>3, <2>2, <2>3 DEF Synthetic
<1>4. ASSUME OtherCritic = "human", AllReviewed PROVE UNCHANGED verdict
  <2>1. \A o \in Opps : verdict'[o] = verdict[o]
    BY <1>1, <1>4 DEF AllReviewed
  <2>2. verdict \in [Opps -> Verdict] /\ verdict' \in [Opps -> Verdict]
    BY VerdictsOnlyGrow DEF TypeOK
  <2> QED
    BY <2>1, <2>2
<1>5. CASE /\ UNCHANGED <<outputs, verification, preliminary, channel>>
           /\ UNCHANGED step \/ {step, step'} = {"idle", "import"}
  <2>1. verification' = "PASS" => AllReviewed'
    BY <1>2, <1>5 DEF ChannelInv
  <2>2. ASSUME OtherCritic = "human", channel' PROVE Synthetic'
    BY <1>3, <1>5, <2>2 DEF ChannelInv
  <2>3. ASSUME OtherCritic = "human", MaxCrashes = 0, step' # "mark_channel",
               verification' = "PASS", Synthetic'
        PROVE  channel'
    <3>1. step # "mark_channel" /\ verification = "PASS" /\ AllReviewed
      BY <1>5, <2>3 DEF ChannelInv
    <3>2. Synthetic
      BY <1>4, <2>3, <3>1 DEF Synthetic
    <3> QED
      BY <1>5, <2>3, <3>1, <3>2 DEF ChannelInv
  <2> QED
    BY <2>1, <2>2, <2>3 DEF ChannelInv
<1>6. CASE \/ StartFinalize \/ ArchiveOutputs \/ ArchiveVerification \/ RenderReport
           \/ FinalizeKilled
  <2>1. /\ UNCHANGED <<verdict, verification, channel>> /\ step' # "mark_channel"
        /\ step = "mark_channel" => MaxCrashes # 0
    BY <1>6, WorkflowAssumption DEF StartFinalize, ArchiveOutputs, ArchiveVerification,
       RenderReport, FinalizeKilled, store, directory, TypeOK
  <2> QED
    BY <2>1 DEF ChannelInv, Synthetic, AllReviewed
<1>7. CASE VerifyRun
  <2>1. /\ UNCHANGED <<verdict, channel>> /\ step' = "mark_channel"
        /\ verification' = "PASS" => AllReviewed
    BY <1>7 DEF VerifyRun, store, OverallVerdict, AgentStatus
  <2> QED
    BY <2>1 DEF ChannelInv, Synthetic, AllReviewed
<1>8. CASE MarkChannel
  <2>1. /\ UNCHANGED <<verdict, verification, provenance>>
        /\ channel' <=> channel \/ (R!KindsOf(provenance) = {"test_fixture"} /\ AllReviewed)
    BY <1>8 DEF MarkChannel, store
  <2>2. ASSUME OtherCritic = "human", R!KindsOf(provenance) = {"test_fixture"}, AllReviewed
        PROVE  Synthetic
    <3> SUFFICES ASSUME NEW o \in Opps PROVE verdict[o].kind = "test_fixture"
      BY DEF Synthetic
    <3>1. PICK r \in provenance : r.batch.kind = verdict[o].kind
      <4>1. verdict[o] # R!NoVerdict /\ verdict[o].kind # "agent" /\ verdict[o] \in Verdict
        BY <2>2 DEF AllReviewed, NoAgents, TypeOK
      <4>2. verdict[o].kind \in R!Kinds
        BY <4>1, VerdictKinds DEF Verdict, R!NoVerdict
      <4> QED
        BY <4>2 DEF OnRecord, Recorded
    <3>2. r.batch.kind \in R!KindsOf(provenance)
      BY DEF R!KindsOf
    <3> QED
      BY <2>2, <3>1, <3>2
  <2>3. ASSUME OtherCritic = "human", AllReviewed, Synthetic
        PROVE  R!KindsOf(provenance) = {"test_fixture"}
    <3>1. PICK o \in Opps : verdict[o] # R!NoVerdict
      BY <2>3 DEF AllReviewed
    <3>2. PICK r \in provenance : r.batch.kind = "test_fixture"
      BY <2>3, <3>1 DEF OnRecord, Recorded, Synthetic, R!Kinds, AllReviewed
    <3>3. \A s \in provenance : s.batch.kind = "test_fixture"
      BY <3>2 DEF OnRecord
    <3> QED
      BY <3>2, <3>3 DEF R!KindsOf
  <2>4. verification' = "PASS" => AllReviewed'
    BY <2>1, <1>2 DEF ChannelInv
  <2>5. Synthetic' <=> Synthetic
    BY <2>1 DEF Synthetic
  <2>6. OtherCritic = "human" => (channel' => Synthetic')
    BY <2>1, <2>2, <2>5 DEF ChannelInv
  <2>7. OtherCritic = "human" /\ verification' = "PASS" /\ Synthetic' => channel'
    BY <2>1, <2>3, <2>5 DEF ChannelInv
  <2> QED
    BY <2>4, <2>6, <2>7 DEF ChannelInv
<1> QED
  BY <1>5, <1>6, <1>7, <1>8, FileChanges DEF FileStep

LEMMA NextCopies ==
  ASSUME TypeOK, Shape, CopiesInv, [Next]_vars
  PROVE  CopiesInv'
<1>1. CASE /\ UNCHANGED <<outputs, verification, preliminary, channel>>
           /\ UNCHANGED step \/ {step, step'} = {"idle", "import"}
  BY <1>1 DEF CopiesInv, Unreviewed
<1>2. CASE StartFinalize
  BY <1>2 DEF StartFinalize, directory, CopiesInv, Unreviewed
<1>3. CASE ArchiveOutputs
  <2>1. preliminary' = [outputs |-> {outputs}, verification |-> preliminary.verification]
    BY <1>3 DEF ArchiveOutputs, Shape
  <2>2. preliminary'.outputs = {outputs}
    BY <2>1
  <2>3. /\ step = "archive_outputs" /\ step' = "archive_verification"
        /\ verification' = verification
    BY <1>3 DEF ArchiveOutputs
  <2> QED
    BY <2>2, <2>3 DEF CopiesInv, Unreviewed
<1>4. CASE ArchiveVerification
  <2>1. preliminary' = [outputs |-> preliminary.outputs, verification |-> {verification}]
    BY <1>4 DEF ArchiveVerification, Shape
  <2>2. preliminary'.outputs = preliminary.outputs /\ preliminary'.verification = {verification}
    BY <2>1
  <2>3. /\ step = "archive_verification" /\ step' = "judge"
        /\ UNCHANGED <<outputs, verification>>
    BY <1>4 DEF ArchiveVerification
  <2> QED
    BY <2>2, <2>3 DEF CopiesInv, Unreviewed
<1>5. CASE RenderReport \/ VerifyRun \/ MarkChannel
  <2>1. /\ step \in {"judge", "verify", "mark_channel"} /\ UNCHANGED preliminary
        /\ step' \in {"verify", "mark_channel", "idle"}
    BY <1>5 DEF RenderReport, VerifyRun, MarkChannel
  <2> QED
    BY <2>1 DEF CopiesInv, Unreviewed
<1>6. CASE FinalizeKilled
  <2>1. /\ UNCHANGED <<outputs, verification, preliminary>> /\ step' = "idle" /\ MaxCrashes # 0
    BY <1>6, WorkflowAssumption DEF FinalizeKilled, directory, TypeOK
  <2> QED
    BY <2>1 DEF CopiesInv, Unreviewed
<1> QED
  BY <1>1, <1>2, <1>3, <1>4, <1>5, <1>6, FileChanges DEF FileStep

LEMMA NextCalm ==
  ASSUME TypeOK, Shape, BatchInv, NoAgents, CalmInv, [Next]_vars
  PROVE  CalmInv'
<1> SUFFICES ASSUME NEW o \in Opps, verdict'[o] = R!NoVerdict,
                    \A q \in Others : Finds[q] = o => other'[q] = "away"
             PROVE  /\ card'[o].status = "investigate"
                    /\ packet'.dirs[o] \subseteq {card'[o]}
                    /\ \A j \in judging' : j.id = o => j.card = card'[o]
  BY DEF CalmInv, Untouched
<1>1. verdict[o] = R!NoVerdict
  BY VerdictsOnlyGrow
<1>2. other \in [Others -> {"away", "found", "considering", "critic", "asked", "judge",
                            "judging", "done"}]
  BY DEF TypeOK
<1>3. ASSUME NEW q \in Others, OtherStep(q) PROVE Finds[q] # o
  <2>1. other'[q] # "away"
    BY <1>2, <1>3, OtherChanges
  <2> QED
    BY <2>1
<1>4. \A q \in Others : Finds[q] = o => other'[q] = other[q]
  <2>1. \A p \in Others : OtherStep(p) => \E to : other' = [other EXCEPT ![p] = to]
    BY OtherChanges
  <2>2. (\E p \in Others : OtherStep(p)) \/ UNCHANGED other
    BY StepIs, DeskChanges, ImportChanges, RunChanges DEF vars, another
  <2> QED
    BY <1>2, <1>3, <2>1, <2>2
<1>5. /\ card[o].status = "investigate" /\ packet.dirs[o] \subseteq {card[o]}
      /\ \A j \in judging : j.id = o => j.card = card[o]
  BY <1>1, <1>4 DEF CalmInv, Untouched
<1>6. card \in [Opps -> Card] /\ card[o] \in Card /\ \A q \in Others : Finds[q] \in Opps
  BY WorkflowAssumption DEF TypeOK
<1>7. JudgedCard(o) = card[o]
  <2>1. /\ JudgedCard(o) \in Card /\ JudgedCard(o).status = "investigate"
        /\ JudgedCard(o).text = card[o].text /\ JudgedCard(o).counted = card[o].counted
    BY <1>1, JudgedCardIs
  <2>2. \A c, d \in Card :
          c.text = d.text /\ c.counted = d.counted /\ c.status = d.status => c = d
    BY DEF Card
  <2> QED
    BY <1>5, <1>6, <2>1, <2>2
<1>8. card'[o] = card[o]
  <2>1. ASSUME FinalizeWrites PROVE card'[o] = card[o]
    <3>1. PICK j \in judging : card' = [card EXCEPT ![j.id] = j.card]
      BY <2>1, FinalizeIs
    <3> QED
      BY <1>5, <1>6, <3>1
  <2>2. ASSUME NEW q \in Others, OtherStep(q) PROVE card'[o] = card[o]
    <3>1. /\ \A t \in Texts : OtherGenerates(q, t) => card'[o] = card[o]
          /\ OtherJudges(q) => card'[o] = card[o]
      BY <1>3, <1>6, <2>2 DEF OtherGenerates, OtherJudges
    <3> QED
      BY <2>2, <3>1, OtherChanges
  <2>3. FinalizeWrites \/ (\E q \in Others : OtherStep(q)) \/ UNCHANGED card
    BY StepIs, DeskChanges, ImportChanges, RunChanges DEF vars, store
  <2> QED
    BY <2>1, <2>2, <2>3
<1>9. ASSUME NEW j \in judging', j.id = o PROVE j.card = card[o]
  <2>1. ASSUME NEW p \in Opps, FinalizeReads(p) PROVE j.card = card[o]
    <3>1. j = [id |-> p, card |-> JudgedCard(p)]
      BY <2>1 DEF FinalizeReads
    <3>2. p = o
      BY <1>9, <3>1
    <3> QED
      BY <1>7, <3>1, <3>2
  <2>2. (\A p \in Opps : ~FinalizeReads(p)) => judging' \in {judging, {}}
    BY StepIs, DeskChanges, ImportChanges, RunChanges, OtherChanges DEF vars, command
  <2> QED
    BY <1>5, <1>9, <2>1, <2>2
<1>10. packet'.dirs[o] = packet.dirs[o] \/ packet'.dirs[o] = {card[o]}
  BY PacketType
<1> QED
  BY <1>5, <1>8, <1>9, <1>10

----------------------------------------------------------------------------
(* The theorems *)

LEMMA InitIInv == Init => IInv
<1> SUFFICES ASSUME Init PROVE IInv
  OBVIOUS
<1>1. PICK t \in Texts : card = [o \in Opps |->
        [text |-> t, counted |-> volume[o], status |-> "investigate"]]
  BY DEF Init
<1>2. /\ card \in [Opps -> Card] /\ verdict \in [Opps -> Verdict]
      /\ \A o \in Opps : verdict[o] = R!NoVerdict /\ card[o].status = "investigate"
  <2>1. \A o \in Opps :
          [text |-> t, counted |-> volume[o], status |-> "investigate"] \in Card
    BY DEF Init, Card, Statuses
  <2>2. R!NoVerdict \in Verdict
    BY DEF Verdict
  <2> QED
    BY <1>1, <2>1, <2>2 DEF Init
<1>3. /\ preliminary = [outputs |-> {}, verification |-> {}]
      /\ preliminary.outputs = {} /\ preliminary.verification = {}
      /\ packet.dirs = [o \in Opps |-> {}] /\ packet.manifest = [o \in Opps |-> {}]
      /\ packet = [dirs |-> [o \in Opps |-> {}], manifest |-> [o \in Opps |-> {}]]
  BY DEF Init
<1>4. \A row \in outputs : /\ row.verdict = R!NoVerdict
                           /\ row \in [id : Opps, card : Card, verdict : Verdict]
  <2>1. \A row \in Report : \E o \in Opps :
          row = [id |-> o, card |-> card[o], verdict |-> verdict[o]]
    BY DEF Report
  <2>2. \A o \in Opps : card[o] \in Card /\ verdict[o] \in Verdict
    BY <1>2
  <2> HIDE DEF Card, Verdict
  <2> QED
    BY <1>2, <2>1, <2>2 DEF Init
<1>5. {marked, channel} \subseteq BOOLEAN
  BY DEF Init
<1>6. /\ working \in [Others -> Card]
      /\ \A q \in Others : working[q].status = "investigate"
  <2>1. \A q \in Others : Finds[q] \in Opps
    BY WorkflowAssumption
  <2> HIDE DEF Card
  <2> QED
    BY <1>2, <2>1 DEF Init
<1>7. /\ volume \in [Opps -> BOOLEAN] /\ provenance = {} /\ verification = "BLOCKED"
      /\ envelopes = {} /\ step = "idle" /\ judged = {} /\ batch = {} /\ judging = {}
      /\ other = [q \in Others |-> "away"] /\ outputs = Report /\ crashes = 0
  BY DEF Init
<1>8. TypeOK
  <2>1. Cardinality(preliminary.outputs) \leq 1
    BY <1>3, FS_EmptySet
  <2>2. crashes \in 0 .. MaxCrashes
    BY <1>7, WorkflowAssumption
  <2>3. /\ packet.dirs \in [Opps -> SUBSET Card] /\ packet.manifest \in [Opps -> SUBSET Card]
    BY <1>3
  <2>4. outputs \subseteq [id : Opps, card : Card, verdict : Verdict]
    BY <1>4
  <2> HIDE DEF Card, Verdict
  <2>5. other \in [Others -> {"away", "found", "considering", "critic", "asked", "judge",
                              "judging", "done"}]
    BY <1>7
  <2> QED
    BY <1>2, <1>3, <1>5, <1>6, <1>7, <2>1, <2>2, <2>3, <2>4, <2>5 DEF TypeOK
<1>9. \A row \in outputs : \E o \in Opps : row.verdict = verdict[o] /\ row.card = card[o]
  BY <1>7, <1>8, ReportType
<1>10. Shape /\ FixtureInv /\ BatchInv /\ OnRecord
  BY <1>2, <1>3, <1>4, <1>7 DEF Shape, FixtureInv, BatchInv, OnRecord, R!NoVerdict, R!Kinds
<1>11. NoAgents
  BY <1>2, <1>7 DEF NoAgents, R!NoVerdict
<1>12. ReadyInv
  BY <1>2, <1>6, <1>7, <1>9 DEF ReadyInv
<1>13. ChannelInv
  BY DEF Init, ChannelInv
<1>14. CopiesInv
  BY <1>3, <1>4 DEF Init, CopiesInv, Unreviewed
<1>15. CalmInv
  BY <1>2, <1>3, <1>7 DEF CalmInv
<1> QED
  BY <1>8, <1>10, <1>11, <1>12, <1>13, <1>14, <1>15 DEF IInv

LEMMA NextIInv == IInv /\ [Next]_vars => IInv'
<1> SUFFICES ASSUME IInv, [Next]_vars PROVE IInv'
  OBVIOUS
<1> USE DEF IInv
<1>1. TypeOK' /\ Shape'
  BY NextTypes
<1>2. FixtureInv' /\ BatchInv' /\ OnRecord' /\ NoAgents'
  BY NextFixture, NextBatch, NextOnRecord, NextNoAgents
<1>3. ReadyInv'
  BY NextReady
<1>4. ChannelInv' /\ CopiesInv' /\ CalmInv'
  BY NextChannel, NextCopies, NextCalm
<1> QED
  BY <1>1, <1>2, <1>3, <1>4

\* The inductive invariant of a run under review.
THEOREM WorkflowInvariant == Spec => []IInv
  BY InitIInv, NextIInv, PTL DEF Spec

\* The store, the run directory and the packet hold values of their kinds, with any
\* number of cards, envelopes, other runs and killed commands.
THEOREM TypeCorrect == Spec => []TypeOK
<1>1. IInv => TypeOK
  BY DEF IInv
<1> QED
  BY <1>1, WorkflowInvariant, PTL

\* No judge ever decides that a card is ready with a synthetic verdict before it,
\* whatever fixtures, other runs and killed commands do.
THEOREM FixturesAreNoSupport == Spec => FixturesNeverHelp
<1> DEFINE Unhelped ==
      /\ \A j \in judging' \ judging :
           j.card.status = "experiment_ready" => verdict[j.id].kind # "test_fixture"
      /\ \A q \in Others :
           other[q] = "judge" /\ other'[q] = "judging" /\ working'[q].status = "experiment_ready"
             => verdict[Finds[q]].kind # "test_fixture"
<1>1. ASSUME IInv, [Next]_vars PROVE [Unhelped]_vars
  <2>1. ASSUME NEW o \in Opps, JudgedCard(o).status = "experiment_ready"
        PROVE  verdict[o].kind # "test_fixture"
    BY <1>1, <2>1, JudgedCardIs DEF IInv, FixtureInv
  <2>2. ASSUME NEW j \in judging' \ judging, j.card.status = "experiment_ready"
        PROVE  verdict[j.id].kind # "test_fixture"
    <3>1. PICK o \in Opps : FinalizeReads(o)
      <4>1. (\A o \in Opps : ~FinalizeReads(o)) => judging' \in {judging, {}}
        BY <1>1, StepIs, DeskChanges, ImportChanges, RunChanges, OtherChanges DEF vars, command
      <4> QED
        BY <2>2, <4>1
    <3>2. j.id = o /\ j.card = JudgedCard(o)
      BY <2>2, <3>1 DEF FinalizeReads
    <3> QED
      BY <2>1, <2>2, <3>2
  <2>3. ASSUME NEW q \in Others, other[q] = "judge", other'[q] = "judging",
               working'[q].status = "experiment_ready"
        PROVE  verdict[Finds[q]].kind # "test_fixture"
    <3>1. /\ other \in [Others -> {"away", "found", "considering", "critic", "asked", "judge",
                                   "judging", "done"}]
          /\ working \in [Others -> Card] /\ Finds[q] \in Opps
      BY <1>1, WorkflowAssumption DEF IInv, TypeOK
    <3>2. PICK p \in Others : OtherStep(p)
      BY <1>1, <2>3, StepIs, DeskChanges, ImportChanges, RunChanges DEF vars, another
    <3>3. p = q
      BY <2>3, <3>1, <3>2, OtherChanges
    <3>4. OtherReads(q)
      BY <2>3, <3>1, <3>2, <3>3 DEF OtherStep, OtherFinds, OtherConsiders, OtherGenerates,
         OtherAsks, OtherSkips, OtherReviews, OtherJudges, At
    <3>5. working'[q] = JudgedCard(Finds[q])
      BY <3>1, <3>4 DEF OtherReads
    <3> QED
      BY <2>1, <2>3, <3>1, <3>5
  <2> QED
    BY <2>2, <2>3
<1>2. IInv /\ [Next]_vars => [Unhelped]_vars
  BY <1>1
<1> QED
  BY <1>2, WorkflowInvariant, PTL DEF Spec, FixturesNeverHelp

\* A card that is ready has a person's approval on record, unless an agent is the
\* critic of other runs on the store.
THEOREM ReadyMeansApproved ==
  ASSUME OtherCritic = "human"
  PROVE  Spec => []ReadyNeedsAPerson
<1>1. ASSUME IInv PROVE ReadyNeedsAPerson
  <2> SUFFICES ASSUME NEW row \in Report \cup outputs, row.card.status = "experiment_ready"
               PROVE  /\ row.verdict.kind = "human"
                      /\ ~row.verdict.fatal /\ row.verdict.recommended = "experiment_ready"
                      /\ \E r \in provenance : r.opp = row.id /\ r.batch.kind = "human"
    BY DEF ReadyNeedsAPerson
  <2>1. CASE row \in outputs
    BY <1>1, <2>1 DEF IInv, ReadyInv, OnRecord, Recorded, Approves, R!Kinds
  <2>2. CASE row \in Report
    <3>1. PICK o \in Opps : row = [id |-> o, card |-> card[o], verdict |-> verdict[o]]
      BY <2>2 DEF Report
    <3>2. row.id = o /\ row.card = card[o] /\ row.verdict = verdict[o]
      BY <3>1
    <3> QED
      BY <1>1, <3>2 DEF IInv, ReadyInv, OnRecord, Recorded, Approves, R!Kinds
  <2> QED
    BY <2>1, <2>2
<1>2. IInv => ReadyNeedsAPerson
  BY <1>1
<1> QED
  BY <1>2, WorkflowInvariant, PTL

\* A PASS rests on an imported review of every card, unless an agent is the critic
\* of other runs on the store.
THEOREM PassHasReviews ==
  ASSUME OtherCritic = "human"
  PROVE  Spec => []PassIsReviewed
<1>1. ASSUME IInv, verification = "PASS", NEW o \in Opps
      PROVE  \E r \in provenance : r.opp = o
  <2>1. verdict[o] # R!NoVerdict /\ verdict[o].kind # "agent" /\ verdict[o] \in Verdict
    BY <1>1 DEF IInv, ChannelInv, AllReviewed, NoAgents, TypeOK
  <2>2. verdict[o].kind \in R!Kinds
    BY <2>1, VerdictKinds DEF Verdict, R!NoVerdict
  <2> QED
    BY <1>1, <2>2 DEF IInv, OnRecord, Recorded
<1>2. IInv => PassIsReviewed
  BY <1>1 DEF PassIsReviewed
<1> QED
  BY <1>2, WorkflowInvariant, PTL

\* The marker file tells synthetic reviews from a person's, as long as no finalize
\* is killed before it writes it and no agent is the critic of other runs.
THEOREM MarkerTellsTheTruth ==
  ASSUME OtherCritic = "human", MaxCrashes = 0
  PROVE  Spec => []ChannelIsTrue
<1>1. IInv => ChannelIsTrue
  BY DEF IInv, ChannelInv, Synthetic, ChannelIsTrue
<1> QED
  BY <1>1, WorkflowInvariant, PTL

\* The copies beside a PASS are from before any review, as long as no finalize is
\* killed between the first copy and the second.
THEOREM CopiesAreFromBefore ==
  ASSUME MaxCrashes = 0
  PROVE  Spec => []BeforeAndAfter
<1>1. IInv => BeforeAndAfter
  <2> SUFFICES ASSUME IInv, verification = "PASS"
               PROVE  /\ \E rep \in preliminary.outputs :
                           \A row \in rep : row.verdict = R!NoVerdict
                      /\ preliminary.verification = {"BLOCKED"}
    BY DEF BeforeAndAfter
  <2>1. preliminary.outputs # {} /\ step # "archive_verification"
    BY DEF IInv, CopiesInv
  <2> QED
    BY <2>1 DEF IInv, CopiesInv, Unreviewed
<1> QED
  BY <1>1, WorkflowInvariant, PTL

\* Finalizing some reviews leaves the templates of the other cards importable, as
\* long as no other run has found the card.
THEOREM TemplatesStayValid == Spec => []OutstandingReviewsStayValid
<1>1. IInv => OutstandingReviewsStayValid
  BY DEF IInv, CalmInv, Untouched, OutstandingReviewsStayValid
<1> QED
  BY <1>1, WorkflowInvariant, PTL

=============================================================================
