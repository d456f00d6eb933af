# Demand Radar in TLA+

Demand Radar collects public posts about a product's problem space, lets an
analyst model label and group them into opportunity cards, lets a critic or a
human review the cards, and ends each run with a verdict (PASS, FAIL, BLOCKED)
computed by code. This directory holds TLA+ modules of the parts of it that
keep state, the TLC configurations that check them on small instances, and
TLAPS proofs of what matters most.

Paths below are relative to `src/demand_radar/` unless they say otherwise.

## 1. Inventory

| component | state it keeps | operations | talks to |
|---|---|---|---|
| store (`storage/sqlite.py`) | one SQLite file per product set: evidence, duplicate links, classifications, clusters, cards, critic verdicts, runs | one upsert per table, each committed at once; `stage_critic_verdicts`, `commit`, `rollback` for the review import | everything |
| migrations (`storage/migrations.py`) | `schema_migrations`: the versions on record, and the tables they create | `init`: one script per version, committed statement by statement, its version recorded in a later transaction; `Store.open` refuses a store without a version | store |
| ingest (`ingest/`) | rows of evidence | `ingest`, `ingest-rss`: parse a line or entry, derive its id, insert or ignore | store |
| pipeline (`graph/build.py`, `graph/state.py`) | `DemandState` in `checkpoints.sqlite`, one per run | `run_or_resume`: thirteen nodes in a line, a checkpoint after each | nodes, store |
| nodes (`graph/nodes/`) | none between calls | load, normalize, deduplicate, classify, propose / verify / score clusters, generate opportunities, critic review, judge, render, verify | store, agents, run directory |
| deduplication, independence (`ingest/deduplicate.py`, `scoring/independence.py`) | none (pure) | groups of similar items, their canonical item; authors and source families counted over canonical members | nodes |
| judge, verification (`scoring/judge.py`, `verification.py`) | none (pure) | status of one card; checks and verdict of one run | nodes |
| agent calls (`agents/`) | `agents/<node>/<element>/attempt-N/` with `meta.json` and the result, and beside them the record of the call | one call with bounded retries; `o7 invoke` as a child process with a timeout, or a fake | nodes |
| human review (`review.py`) | `reviews/imports/`, `reviews/provenance.jsonl`, staging and backup files, `task.yaml` marker, `preliminary/`, `state.json` | export a packet, generate fixtures, import reviews, finalize | store, run directory |
| reporting (`reporting/`) | `outputs/` | write report, clusters, cards, verdicts | nodes |
| acquisition scripts (`scripts/acquire_*.py` and their workflows) | page, record and duplicate lists in memory; evidence, provenance and manifest files; the pushed data branch | one search per query of a request file with one repetition, exclude and parse the posts, deduplicate, select round by round up to a cap, write, push | network, ingest |
| corpus export (`scripts/export_existing_corpus.py`) | one output file | transcribe an older corpus once | ingest |

What is hard here:

- **Two stores, no common transaction.** The review import changes SQLite and
  four files; an exception must undo all of them, and a kill cannot.
- **Row by row commits, node by node checkpoints.** A killed node leaves rows
  and is executed again from its first element, with agents that may answer
  differently.
- **Ids that several runs share.** Cluster and card ids are hashes of problem
  keys, links and classifications are keyed by evidence id: two runs write the
  same rows, with different windows and different answers.
- **Partial answers.** Every agent call may fail; some failures end a loop.
  What is missing must stay visible in `errors` and in the verdict.
- **Concurrent commands.** Nothing locks a run directory.
- **Files of the dead.** Attempt directories are numbered per call, so an
  execution after a kill finds `meta.json` of the killed one, or meets its child
  process still writing. `init` may be killed between a script and its version.
- **Failures that look like nothing.** A search that fails must not be published
  as one that found nothing, and a post that several queries find has one owner
  but all of its queries.

`PROJECT.json` lists the hazards one by one, with the line where each bites and
the properties that cover it.

## 2. Modules

| module | models | state and actions |
|---|---|---|
| `Reviews` | batches of reviews and the conditions under which a run accepts one | pure |
| `AtomicImport` | what `review import` promises | `Import(b)` changes the verdicts, the archive and the provenance records in one step |
| `ReviewImport` | `import_reviews`, statement by statement | one action per statement of the `try` block (`StageImport` ... `Commit`), one per statement of the `except` block (`RollbackTransaction` ... `RemoveStaging`), `Raise`, `Crash`; `local[p]` holds the local variables of process `p` |
| `SoleImporter` | the setting in which it is "exception-safe within this process only" | assumes at most one importer; names the inductive invariant |
| `Evidence` | union-find groups, canonical items, independence counts | pure; which items match is the constant `Similar`, one relation for every window, as TF-IDF weighs a word by the texts it is compared with |
| `Judge` | `judge_opportunity`, `derive_agent_status`, `overall_verdict` | pure |
| `AgentNode` | what `Pipeline` assumes of a node that calls an agent per element | `Answered(e)` or `Failed(e)` once per element, or the node breaks off; `Die` |
| `AgentCalls` | `generate_opportunities` over `call_agent_with_retry` and `O7InvokeRunner.run` | `Ask`, one action per way a child process ends, `Retry`, `Persist`, `CallFails`, `StoreAnswer`, `Raise`, `Crash`, `OrphanReports`; `call` is the call under way, `out[d]` the directory of an attempt, `record` what `persist_call_artifacts` wrote |
| `Pipeline` | the graph, its nodes, the store and the checkpoint | one action per iteration of each node's loop, `EndNode` for a node's return and checkpoint, `Invoke`, `Crash`, `Ingest` |
| `ReviewWorkflow` | a `--critic human` run from BLOCKED to its final verdict | `ExportPacket`, `GenerateFixtures`, `EditFixture`, `MarkRun`; `CheckReviews` and `CommitReviews`; one action per step of `finalize`, its judge in two (`FinalizeReads`, `FinalizeWrites`); kills inside each; other runs on the same cards, each a sequence of reads and writes (`OtherFinds` to `OtherJudges`) |
| `Migrations` | `init` and the guard of `Store.open` | `InitStart` reads the versions on record, `CreateTable` one statement of a script, `RecordVersion`, `InitEnd`, `InitCrash`; several processes at a time |
| `Acquisition` | the GitHub and the Stack Overflow bridge, from request file to pushed branch | `FetchPage`, `FetchAgain`, `SkipQuery`, `Abort`, then one action per iteration of the loops that classify, deduplicate and select, `WriteGithub`, `WriteStackoverflow`, `Push`, `Kill` |
| `Ingest` | `ingest` and `ingest-rss` | `Start` parses the input, `Insert` adds one row, `InsertRaises`, `Finish`, `Crash`; several commands at a time |
| `MC...` | instances for TLC | constants only |
| `ReviewImportProofs`, `ReviewImportRefinement` | TLAPS proofs about `ReviewImport` and `SoleImporter` | its safety; that it implements `AtomicImport` |
| `PipelineProofs` | TLAPS proofs about `Pipeline`, with `Evidence` and `Judge` | its invariants |
| `ReviewWorkflowProofs` | TLAPS proofs about `ReviewWorkflow` | its invariants and its action property |
| `AgentCallsProofs` | TLAPS proofs about `AgentCalls` | its safety; that it implements `AgentNode` |
| `IngestProofs` | TLAPS proofs about `Migrations` and `Ingest` | their invariants |
| `AcquisitionProofs` | TLAPS proofs about `Acquisition` | its invariants |

`AgentCalls` INSTANCEs `AgentNode` under a refinement mapping, and `AgentNode`
has the shape of the nodes of `Pipeline`: an element is answered or lost, never
both, and a systemic failure ends the loop. `Ingest` EXTENDS `Migrations`: a
command runs only in a store that opens. `ReviewImport` and `Pipeline` both use
the store's rules; `Pipeline` EXTENDS `Evidence` and `Judge`; `ReviewWorkflow`
EXTENDS `Judge` and takes the conditions of an import from `Reviews`, with the
marker of `task.yaml`, a constant there, as one of its variables; `ReviewImport`
INSTANCEs `AtomicImport` under a refinement mapping. Definitions named *Faulty
variant* in a comment are not part of any specification: each is a plausible
mistake in the code that makes the property it is meant for fail, and shows that
the property can.

### How the state corresponds to the code

`ReviewImport`. A batch stands for one input file: its kind, the cards it gives
a verdict on, and its archive name (`<second>-<hash prefix>.jsonl`; one name per
batch is the case of a retry within the same second, in which an earlier
archive is overwritten or removed). Envelope parsing, hashes, attestations and
objections are part of the choice of batch: an input they refuse has no effect.
`--allow-test-fixture` is the operator's choice to start the import;
`RunMarked` is the marker in `task.yaml`. The SQLite transaction is `writer`, the
holder of the write lock; its rows become visible in `Commit`. A second writer
waits in `StageVerdicts` or gives up (`MustFail`).

`Pipeline`. An item is its rank in the order (published_at, id), so the
earliest of a group is its minimum and a `--since` window is a lower bound. A
cluster id and a card id are the set of problem keys they are hashed from.
`checkpoint[r]` is `DemandState` and the node to execute next; `local` are the
local variables of the node that is executing (elements done, ids to return,
errors to append). Loops run over sets: any order of the elements is explored.
Agents are external: `Classify`, `ProposeGroups`, `GenerateOpportunity` and
`CriticReview` choose among all answers that pass validation, or fail.
`Failures` are "invalid" (malformed, mismatched, refused), "blocked"
(BLOCKED_TIMEOUT, BLOCKED_NOT_INSTALLED after retries) and "systemic"
(BLOCKED_AUTH, BLOCKED_USAGE, which break off the loop). A critic verdict
carries what the critic was shown (`reviewed`), which the code does not store.
`Crash` is a killed process or an exception that leaves `invoke`; the
checkpoint is assumed written when the next node starts, as `graph/build.py`
states it.

`AgentCalls`. The elements are asked about in the order of the list. A prompt is
the version of the cluster it was written from; `Rewrite`, another run's write
to that cluster, matters only before `Ask` reads it, so it happens only between
calls. A directory is an element and an attempt number, which is all that its
path says; its `meta.json` is a status, its result the element and the prompt it
answers. An `o7` that ends without a report leaves the directory as it finds it,
and what is there is read (`ReadMeta`). `orphans` are the child processes of a
killed execution, which may still report. Two history variables serve the
properties and nothing reads them: `questions` are the prompts this execution has
asked, `deserted` those that dead executions have. The statuses `o7` itself reports are a
parameter; the runner adds BLOCKED_TIMEOUT and BLOCKED_NOT_INSTALLED.

`Migrations`. `executescript` commits what is pending, then each statement by
itself, so a table exists as soon as its statement has run; `pending` is the one
INSERT that waits for `commit`, and holds the write lock. Which tables a
statement creates is left out: a statement is its number. An `init` that has
ended keeps nothing but how it ended. A command that `Store.open` refuses
changes nothing, and is not a step.

`Acquisition`. A page is the list of posts a search returns, chosen when it is
fetched: the services are external, and two queries may find one post.
`Ineligible` posts are excluded by a rule, `Invalid` ones refused by the parser.
Failures are "unavailable" (repeated once by both bridges), "refused" (repeated by
the GitHub bridge only) and "garbled" (an answer that breaks off or is not JSON,
which neither repeats). After that the GitHub bridge skips the query, unless the
answer was garbled; every other failure ends the job. `taken[q]`
is both `next_index` and `accepted_per_query`, which move together. A sum over the
queries is the number of its units (`Total`). `data` are the files in the job's
workspace, `branch` what was pushed.

`critic[r]` is the run's `--critic`, taken to be the same in all its invocations.

`ReviewWorkflow`. The run has ended: its cards have been judged without a review.
A run without cards never counts as reviewed, as the code has it
(`AllReviewed`, `bool(opportunities) and ...`).
A card (text, counts, status) stands for its own hash, so an envelope names the
card it was written for; the evidence behind a card never changes, and its
manifest hash adds nothing. The packet keeps the card directories apart from the
manifest, which is written last and is all that `generate-fixtures` reads.
A command reads the store in one step and writes what it made of it in a later
one, and other runs take their steps in between: an import has checked its
envelopes (`batch`, `review.py:725-756`) before it commits them
(`review.py:829-840`); a judge has read a card, its cluster and its verdict and
decided (`judging`, `working`) before it writes the whole card back
(`graph/nodes/finalize.py:106`); a critic is shown a card before it answers. The
inside of the write phase is `ReviewImport`: here it commits as a whole, fails as a
whole, or is killed and may leave its provenance records (`ImportKilled`). A
fixture is a text file, and what it recommends may be edited (`EditFixture`): the
refusal at `review.py:606-612` meets files it has to refuse. `report.md` and
`opportunities.json` are one file, `outputs`.

`Ingest`. A line of a file and an entry of a feed are the same thing, a shape and,
for a record, an id, a text and the names given for its author. `AuthorHash` is
what `stable_author_hash` is given, of the one name that reaches it
(`creator or author`, `ingest/rss.py:130`, where the creator is never found); a
missing name falls back to the post. `todo`
are the positions of the records still to be inserted, which a command takes in
the order of its file. A row remembers its line, which is how properties refer to
what was meant.

## 3. What is checked

Every run needs less than two minutes with two workers. Two cards are the least that
can tell a whole batch from half a one and an overlapping batch from a disjoint
one; two problem keys the least that can be merged, split or lost; three items
(two of them reposts of each other) the least with a repost and an independent
author, which is what the acceptance thresholds (two authors, two source
families) tell apart; two crashes let a resumed node be killed again.

Bounds: `MaxCrashes` killed commands, `MaxGroups` groups in an analyst's answer
(both in `Pipeline`), `MaxEnvelopes` envelopes written (`ReviewWorkflow`; two let
one of them be stale or edited, three give each of two cards a review and one of
them a second, or a fixture; another run finds, writes, reviews and judges its card
once),
`MaxCommands` ingest commands and `MaxInits` inits (`Ingest`; three commands are
two that overlap and a repetition of one, two inits overlap or repeat each
other). `AgentCalls`: two elements, `MaxRetries` one (two by default; a third
attempt goes the way of the second), one killed execution and one rewritten
cluster, the least with which a stale directory can hold an answer to another
prompt; of the statuses of `o7`, one that ends a call well and one that ends the
node, since the runner itself adds a transient one. `Acquisition`: three
queries, pages of up to two posts, one of them a post with itself again, six
posts of which one is excluded and one invalid, and a cap of three, which four
eligible posts exceed in the middle of a round.

| run | shows |
|---|---|
| `import_atomic` | one importer whose steps may raise anywhere implements `AtomicImport` (`ImportIsAtomic`) |
| `import_crash` | with kills anywhere: committed verdicts keep their audit trail, batches stay whole, kinds never mix. The archive may keep files of killed imports |
| `two_importers` | two processes: the lock is always released and both return (`ImportReturns`), although they move each other's staging and backup files |
| `pipeline_crash` | one run killed twice, with an agent or a human critic: `PassIsComplete`, `ReadyIsReviewed`, `HumanReviewIsAwaited`, `GapsAreReported`, `ClustersPartitionEvidence`, and every invocation ends |
| `two_runs` | two runs with different windows: a repost is never counted twice (`CountedOnce`) and a PASS rests on independent posts (`PassIsSound`) |
| `review_shared` | one card with two texts, generated again, reviewed and judged by a run with an agent critic between any two steps of a command, fixtures that were edited, one kill: no judge makes the card ready on a synthetic review (`FixturesNeverHelp`) |
| `review_calm` | two cards, one of them written and judged by another run with a human critic, finalize any number of times between imports: a ready card stands beside a person's approval that is on record (`ReadyNeedsAPerson`), a PASS is reviewed, the marker of synthetic reviews is there when and only when it should be, a PASS keeps what it has replaced, outstanding templates stay valid |
| `agent_calls` | one node with two elements, timeouts, retries, a killed execution and its orphan: it implements `AgentNode` (`NodeIsAtomicSpec`), the records explain every outcome, what is stored answers the prompt that was asked, or the one a dead execution asked about the same element (`AnswersAreToTheirPrompt`), and the node returns |
| `acquisition` | both bridges with any answers and failures: what is pushed accounts for every post (`CountsAddUp`), is shared out fairly (`RoundRobinIsFair`), uses the whole cap, names the right queries (`RecordsAreAttributed`), and the Stack Overflow bridge pushes nothing unless every query was answered (`FailureIsLoud`) |
| `ingest` | two processes that create a store and ingest overlapping inputs, killed and repeated: a store that opens has all its tables and an init can be repeated (`OpenedIsComplete`), nothing dropped, no step replaces a row, neither with another line of its file nor with another command's (`RowsAreFirstLines`), the summary is true |
| `two_runs_stale_review` | **violated** `ReadyIsReviewed`: a verdict on another text, left by an earlier run, makes a card ready although this run's critic failed |
| `ingest_long_post` | **violated** `NothingIsDropped`: a record that only `EvidenceItem` refuses ends the command in mid-batch |

The configurations of the pipeline, ingest, the agent calls and acquisition
switch deadlock checking off: a completed run, a node that has returned and a
pushed job have nothing left to execute, and the commands are bounded. The
others do not: an importer, or a packet's export, can always start again.

Some properties hold in their run because it leaves something out, and TLC
refutes them with it; three more have a configuration but no line in the table.
They are disagreements with the code's own comments, worth knowing without a run
of their own:

- `NeverMixed` with two importers (`MCTwoImporters` under the invariant): both
  check, both publish (`review.py:648-649`, "never mixed across separate import
  calls").
- `ChannelIsTrue`, its second half, with a kill: finalize writes the PASS before
  the marker (`review.py:896-898`, "can never be mistaken for a completed,
  substantive review"); finalizing again repairs it.
- `BeforeAndAfter` with a kill between two copies: `preliminary/` counts as
  complete once it exists (`review.py:871-878`).
- `PassIsReviewed` with another run whose critic is an agent: verdicts are keyed
  by a card id that runs share (`graph/nodes/agents.py:260-262`).
- `VerdictsMeetTheirText` (`MCReviewWindow.cfg` under `MCReviewWorkflow`): the hash
  is compared when an import checks its envelopes, and a critic is shown the card
  when it is asked; another run may write the card before the verdict is committed
  (`review.py:182-185`, the purpose of the hash). The commit also replaces a
  verdict that came in since the check, so that a card may stand as ready, on an
  agent's approval, beside the fixture verdict that has taken its place, until it
  is judged again; `FixturesNeverHelp` is what remains true.
- `ReadyNeedsAPerson` with another run whose critic is an agent, for the same
  reason as `PassIsReviewed`.
- `OwnResultsListed` with two runs (`MCTwoRunsListing.cfg` under `MCPipeline`):
  rows keep the run that first wrote them (`storage/sqlite.py:278`,
  `storage/sqlite.py:313`), so the report of a later run does not show what that
  run found.
- `SamePersonSameAuthor` with a feed that has dc:creator
  (`MCIngestSignedTwice.cfg` under `MCIngest`): `creator or author` passes over
  it (`ingest/rss.py:130`), and one person counts as two. Without such a feed the
  statement only repeats `stable_author_hash`, so no run lists it.
- `AnswersAreToTheirPrompt` without its last disjunct, the `deserted` prompts: an
  execution is killed after `o7` has reported, the cluster is rewritten, the
  `o7` of the next execution ends without a report, and the old one is taken for
  its answer ("Artifacts from a failed attempt are never overwritten",
  `agents/base.py:95-96`, holds within one execution only).
- `OpenedIsComplete` with a second migration (`Statements` of two scripts): an
  init killed between the two leaves a version on record, and `Store.open`
  accepts it (`storage/sqlite.py:54-61`). There is one migration today.
- A report of a run that was killed inside `propose_clusters` may show a cluster
  row of the killed attempt (`docs/architecture.md:84-88`).

Fairness. `ReviewImport`: a process inside `import_reviews` goes on executing
(weak fairness of its statements); no one has to start an import, to fail or to
crash. `Pipeline`: an invocation goes on executing; no one has to invoke a run
again after a kill. Agent calls return because the runner has a timeout and the
retries are bounded, which `AgentCalls` shows (`NodeReturns`) from weak fairness
of the node's own steps: a child process ends or `subprocess.run` times out; no
execution has to die and no orphan has to report. `ReviewWorkflow`,
`Acquisition` and `Ingest` state no fairness: their properties are about what
has happened.

## 4. What is proved

TLAPS proves theorems about every component with state: each safety property
(invariant or action property) that a passing run checks, and both refinements,
for all values of the constants that the modules' assumptions admit. TLC checks the
same properties on the instances of section 3. Each proof module names its
inductive invariant (`IInv`, and what is added to it) and has one lemma per group
of actions. The assumptions are the named
ASSUMEs of the modules, which TLC evaluates in every run, and the hypotheses in
this table, each of which marks where the property ends and not where the proof
does: beyond it, TLC finds the property violated, or the next column says why it
is needed.

| theorem | hypothesis | beyond it |
|---|---|---|
| `AuditTrail`, `BatchesStayWhole`, `KindsNeverMix` | at most one importer (`SoleImporterAssumption`) | `NeverMixed` fails with two, section 3 |
| `ImportRefinesAtomic` | no kills | a killed import leaves archives and records behind |
| `ReadyRestsOnEvidence` | `Undisturbed`: no kills, or one run | a run that was killed between `render_report` and `verify_run` may judge other cards than it has shown (`graph/nodes/finalize.py:193`) |
| `ReadyHasItsReview`, `PassCoversReport`, `ClustersPartition` | `OneRun` | runs share cards and clusters: `two_runs_stale_review`, `OwnResultsListed` |
| `ReviewIsAwaited` | `OneCritic`: one run, or one kind of critic | the agent of another run reviews the cards that a human is to review |
| `PassHasReviews`, `ReadyMeansApproved`, `MarkerTellsTheTruth` | `OtherCritic = "human"` | the same, section 3 |
| `MarkerTellsTheTruth`, `CopiesAreFromBefore` | `MaxCrashes = 0` | a kill between two steps of `finalize`, section 3 |
| `OpenedStoreIsComplete` | one migration | a second one, section 3 |
| `NothingIsLost` | `OversizedIsLast` | `ingest_long_post` |

### The review import

`TypeCorrect` and `LockDiscipline` hold for any number of importers.
The three safety properties are not inductive by themselves: that a commit
keeps the audit trail depends on what the published provenance file contains,
which depends on what was staged, on the snapshot it was staged from, and on
nothing having changed the file since. `IInv` in `SoleImporter` says this stretch
by stretch: `BatchIsFresh` (once checked, the batch is new to the store and
agrees in kind with the file), `SnapshotIsCurrent` (the snapshot equals the
file until it is replaced; the staged file is the snapshot and the batch's
records; the backup is the snapshot), `FlagsAreTrue` (the two flags tell what has
been published). The single importer is needed for the snapshot: that is
exactly what two importers break.

The refinement hides what an unfinished import has published:
`EffectiveArchive` and `EffectiveLines` take the archived file and the new
records away until `Commit`, so that every step but the commit is a stutter.
It adds `NoLeftovers` (an archived file is of a committed batch or about to be),
which is where kills must be excluded, and `GateHeld`. A second failure, inside the
handler or in the removal of the backup after the commit (`HandlerRaises`), leaves
what a kill there leaves, so it happens where kills do; only the missing backup,
which one importer never meets, can stop a handler otherwise.

### The pipeline

For any number of items, runs and kills and any answers, `PipelineInvariant` says
how far each run is (`Progress`), and what it owes its `errors` at each node
(`Stages`): `GapsAreReported` is about completed runs only, and follows from a
debt that is written down when a node returns and never shrinks, although `opps`
and reviews change behind it. `CountedOnce` is kept because the canonical members
of a row are the ones `deduplicate` left without a link:
`CanonicalsAreIndependent` shows that no two of them are reposts, that is, similar
in every window that holds both (what is similar in one window only may be linked
there and not here, and is not promised to count once); and links are only ever
added (`LinksStay`), and `RowsSupported` carries the same to the numbers in a row,
which were computed when it was written, under the links of that time.

What a PASS says needs the report and the checks to be about the same cards.
`SoundInv` keeps `report[r].cards` equal to what would be rendered now, from the
end of the loop of `render_report` to the checks: this is what a second run breaks
after a kill. With one run, `OneRunInvariant` adds that a review is of the card in
the store (`ReviewInv`: reviews exist only after cards were generated, and the
checkpoint goes on only with cards that are written, `OppsInv`) and that the end of
a run is the end of its cards (`PassInv`). `ClustersPartitionEvidence` rests on
`ValidatedPartition`, which is about the operators only: however an analyst's
groups overlap, repeat or miss keys, `ValidatedGroups` is a partition of the keys
it was asked about; and on links that only `deduplicate` writes (`PartInv`), so
that a node killed in its loop and repeated finds the same keys.
`KnownInvariant` is that evidence is never forgotten: what a checkpoint or a row
names has been ingested.

### The human review

`IInv` of `ReviewWorkflowProofs` joins the store, the run directory and what
commands have in hand. `FixtureInv`: no synthetic verdict recommends
experiment_ready, in an import under way either, which is all that
`FixturesAreNoSupport` needs of the store when a judge reads it, and why the window
of the import cannot break it. `OnRecord`: the verdicts have provenance records, of
one kind. `ReadyInv` is what a judge's stale reads leave of `ReadyNeedsAPerson`: a
card that is ready, in the store, in a report, or in the hand of a judge who has
read and not yet written, belongs to a verdict that approves it. That verdict stays,
since an import accepts no card that has one (`BatchInv`) and no agent gives any.
`ChannelInv` and `CopiesInv` say for each step of `finalize` what it has left behind;
the copies are from before any review because nothing is rendered until both are
there. `CalmInv` is for the cards that no other run has found: all that is written
back is what was there. The proof of `MarkerTellsTheTruth` needs a PASS to have a
card.

### The agent calls

`RecordsAreTrue` and `AnswersBelong` rest on who may write a directory
(`DirectoriesAreOwned`): until an element is asked about, its directories hold no
answer unless a dead execution has used them, and then only answers to the prompt
of this call (`QuestionsAreCalls`: an execution asks about an element once) or to
a `deserted` prompt of that element. `ResultsAreBacked` is that a PASS has left an
answer that nobody takes away between `ReadMeta` and the use of it, and that the
record has been written before the outcome counts. `CallsRefineNode` maps the many
steps of a call to one step of `AgentNode`: the outcome counts when the call ends,
all before is a stutter.

### Ingest and migrations

`MigrationsInvariant`: a process at statement n of a script has left all earlier
ones in the file, so a version is recorded with its tables, although scripts are
killed and executed twice at once. For the commands, a record is either still to
do or in the store (`StoresItsRecords`), a batch is of one command
(`BatchesAreOwn`), and what it has inserted is what carries its number
(`CountsExactly`): the three together make the printed counts true while another
command inserts the same ids. `RowsAreFirstLines` is an action property:
the one step that changes a row is `Insert`, which finds none, and what the command
has still to do begins with the first record of each id (`InsertsAFirstLine`).

### The acquisition scripts

`IInv` follows the loops: `Read` and `Sorted` are how far each loop is in each
query, and the counters plus the lists add up to that prefix. The selection is
`InRounds`: there is a round r such that every query has taken r of its records, or
all it has, and those in front of the loop one more; fairness, the use of the whole
cap and the sum of the manifest follow. The lemmas on `Total` (one more for one
query is one more in all; larger terms have a larger sum) take the place of the
induction a sum would need.

### Only model-checked

Liveness (`ImportReturns`, `InvocationEnds`, `NodeReturns`): TLAPS does no fairness
reasoning and no ENABLED here. Induction over data and RECURSIVE operators are out
of the prover's reach too; the modules use neither, which is why a sum is a
cardinality and a smallest element is found by well-founded induction.

## 5. What is not modelled

Scores (`scoring/demand_score.py`): arithmetic over counts, with no state. One thing
met on the way: `compute_confidence` halves the confidence of a card with a fatal
objection, but its only caller always passes `has_fatal_objection=False`.

Prompts, report wording, JSON Schema conformance, configuration: text and
formats. The smoke and conformance tools check an installation, not the program.
`scripts/export_existing_corpus.py` is a transcription that is run once.

Text similarity is a parameter, one relation per window: what TF-IDF computes is
not modelled, and nothing is assumed of how two windows agree. A judge's reads of
a card, its cluster and its verdict are one step, as no call lies between them.
Ids and author hashes are atoms, so collisions of the strings they are taken of
are hazards without a property. Two `run` commands that execute at the same time
on one store are not modelled: commands run one after the other, interrupted by
kills.

Of acquisition: the queries are numbered, that is, their ids are taken to differ,
which `load_config` does not check although its dictionaries are keyed by them
(`scripts/acquire_github_issues.py:164`, `297` and `324`), and a post is taken to
be the same on every page. Left out are dates, request validation, the pause
between calls and the rate limit headers; GitHub's `incomplete_results` is not
inspected by the code, and the model has no such answer. `truncated_count`, the
number of shortened bodies, is counted before deduplication, unlike the other
numbers of the manifest; the model leaves it out.

`verify_run` reads the store again after `render_report` has written the
artifacts. With two runs and a kill in between TLC finds a PASS over a report
with an unjudged card; nothing in the project's documents promises otherwise, so
it is listed as a hazard only.

## 6. Plan

1. `ReviewWorkflow` shown to use the import of `ReviewImport`: `CheckReviews` and
   `CommitReviews` mapped to its gates and its write phase.
2. What the theorems with hypotheses still hold beyond them: of two runs, the
   cards that no other run writes are reviewed and complete; with kills, a
   `finalize` that is repeated repairs the marker.
3. An abstract specification of a run (its evidence, its cards, its verdict, with
   the nodes as atomic steps), implemented by `Pipeline`.
