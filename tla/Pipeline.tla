------------------------------ MODULE Pipeline ------------------------------
(***************************************************************************)
(* `demand-radar run`: the thirteen nodes of graph/build.py, the shared    *)
(* SQLite store they write, and the checkpoint that lets an invocation     *)
(* continue where a killed one stopped.                                    *)
(*                                                                         *)
(* The store commits after every row, the checkpoint is written once per   *)
(* node.  A node killed halfway therefore leaves rows behind and is        *)
(* executed again from its first item when the run is invoked again.       *)
(*                                                                         *)
(* Analyst and critic are external: any answer that passes validation may  *)
(* come back, and any call may fail.  A cluster or card id is a hash of    *)
(* problem keys, so a set of keys stands for both ids.  Scores, labels and *)
(* prompts are left out; load_run, normalize and score_clusters change     *)
(* nothing else and only move the checkpoint.                              *)
(***************************************************************************)
EXTENDS Evidence, Judge

CONSTANTS
  Runs, NoRun,
  Since,         \* [Runs -> Nat]: the first item of the run's --since window
  Critics,       \* who may be the --critic of a run: "agent", "human"
  Keys,          \* problem keys the analyst may assign
  Labels,        \* classifications the analyst may return
  Texts,         \* candidates the analyst may write for a cluster
  MaxGroups,     \* bound on the groups the analyst proposes
  Verdicts,      \* opinions the critic may return
  Failures,      \* ways an agent call may fail
  Stored,        \* items ingested before the first run
  MaxCrashes     \* bound on the number of killed invocations

ASSUME RunsAssumption ==
  /\ NoRun \notin Runs
  /\ Since \in [Runs -> Nat]
  /\ Critics \subseteq {"agent", "human"}
  /\ Stored \subseteq Items
  /\ MaxCrashes \in Nat
  /\ MaxGroups \in Nat

ASSUME AgentAssumption ==
  /\ Labels \subseteq [key : Keys, relevant : BOOLEAN,
                       problem : BOOLEAN, workaround : BOOLEAN]
  /\ Verdicts \subseteq Opinions
  /\ Failures \subseteq {"invalid", "blocked", "systemic"}

VARIABLES
  \* the SQLite store
  evidence,         \* ingested items
  link,             \* duplicate_links: the canonical item of each duplicate
  classification,   \* at most one label per item
  cluster,          \* problem_clusters by id
  card,             \* opportunity_cards by id
  review,           \* critic_verdicts by opportunity id
  \* the directory of each run
  critic,           \* task.yaml: --critic, the same in every invocation of a run
  checkpoint,       \* checkpoints.sqlite: DemandState and the next node
  report,           \* outputs/: the clusters and cards of the last report
  verification,     \* verification.json
  \* the invocation
  active,           \* the run being executed
  local,            \* local variables of the executing node
  crashes

store == <<evidence, link, classification, cluster, card, review>>
directory == <<checkpoint, report, verification>>
vars == <<store, critic, directory, active, local, crashes>>

----------------------------------------------------------------------------
(* NODE_ORDER *)

After ==
  [load_run |-> "load_new_evidence",
   load_new_evidence |-> "normalize",
   normalize |-> "deduplicate",
   deduplicate |-> "classify",
   classify |-> "propose_clusters",
   propose_clusters |-> "verify_clusters",
   verify_clusters |-> "score_clusters",
   score_clusters |-> "generate_opportunities",
   generate_opportunities |-> "critic_review",
   critic_review |-> "deterministic_judge",
   deterministic_judge |-> "render_report",
   render_report |-> "verify_run",
   verify_run |-> "end"]

Nodes == DOMAIN After

\* Nodes whose effects are all abstracted away.
SilentNodes == {"load_run", "normalize", "score_clusters"}

ClusterIds == (SUBSET Keys) \ {{}}

\* handled: loop elements done.  produced: ids the node will return.  errs: its
\* errors.  plan: the groups propose_clusters settled on.  stopped: the loop
\* was left by break.
Fresh == [handled |-> {}, produced |-> {}, errs |-> {}, plan |-> {},
          planned |-> FALSE, stopped |-> FALSE]

InitialState == [next |-> "load_run", input |-> {}, accepted |-> {},
                 classified |-> {}, clusters |-> {}, opps |-> {}, errors |-> {}]

NoReport == [clusters |-> {}, cards |-> {}]

\* Rows are sets of at most one element: {} is a missing row.
Init ==
  /\ evidence = Stored
  /\ link = [i \in Items |-> NoLink]
  /\ classification = [i \in Items |-> {}]
  /\ cluster = [k \in ClusterIds |-> {}]
  /\ card = [k \in ClusterIds |-> {}]
  /\ review = [k \in ClusterIds |-> {}]
  /\ critic \in [Runs -> Critics]
  /\ checkpoint = [r \in Runs |-> InitialState]
  /\ report = [r \in Runs |-> NoReport]
  /\ verification = [r \in Runs |-> "none"]
  /\ active = NoRun
  /\ local = Fresh
  /\ crashes = 0

At(r, n) == active = r /\ checkpoint[r].next = n

\* ON CONFLICT DO UPDATE: an existing row keeps its run_id.
Owner(row, r) == IF row = {} THEN r ELSE (CHOOSE x \in row : TRUE).run

----------------------------------------------------------------------------
(* Ingestion and the command line *)

Ingest(i) ==
  /\ i \notin evidence
  /\ evidence' = evidence \cup {i}
  /\ UNCHANGED <<link, classification, cluster, card, review, directory,
                 active, local, crashes>>

\* A new run, or the continuation of one that was interrupted.  Commands run
\* one after the other.  A completed run has no node left to execute.
Invoke(r) ==
  /\ active = NoRun
  /\ checkpoint[r].next # "end"
  /\ active' = r
  /\ local' = Fresh
  /\ UNCHANGED <<store, directory, crashes>>

Crash ==
  /\ active # NoRun
  /\ crashes < MaxCrashes
  /\ active' = NoRun
  /\ local' = Fresh
  /\ crashes' = crashes + 1
  /\ UNCHANGED <<store, directory>>

----------------------------------------------------------------------------
(* What every node does *)

\* The elements a node loops over.
Work(r) ==
  LET s == checkpoint[r] IN
  CASE s.next = "deduplicate" -> DuplicatesIn(s.input)
    [] s.next = "classify" -> s.accepted
    [] s.next = "propose_clusters" -> local.plan
    [] s.next \in {"verify_clusters", "generate_opportunities"} -> s.clusters
    [] s.next = "critic_review" -> IF critic[r] = "human" THEN {} ELSE s.opps
    [] s.next = "deterministic_judge" -> s.opps
    [] s.next \in {"render_report", "verify_run"} -> {r}
    [] OTHER -> {}

Pending(r) == IF local.stopped THEN {} ELSE Work(r) \ local.handled

\* The next element is done and the node will return its id.
Handled(x) == local' = [local EXCEPT !.handled = @ \cup {x},
                                     !.produced = @ \cup {x}]

\* An agent call failed for one element.  BLOCKED_AUTH and BLOCKED_USAGE end
\* the loop; everything else concerns this element only.
CallFails(r, x, f) ==
  /\ local' = [local EXCEPT
       !.handled = @ \cup {x},
       !.errs = @ \cup {[node |-> checkpoint[r].next, blocked |-> f # "invalid"]},
       !.stopped = f = "systemic"]
  /\ UNCHANGED store

\* The state a node's return value leads to.
Returned(r) ==
  LET s == checkpoint[r] IN
  CASE s.next = "load_new_evidence" ->
         [s EXCEPT !.input = {i \in evidence : i >= Since[r]}]
    [] s.next = "deduplicate" ->
         [s EXCEPT !.accepted = s.input \ DuplicatesIn(s.input)]
    [] s.next = "classify" -> [s EXCEPT !.classified = local.produced]
    [] s.next \in {"propose_clusters", "verify_clusters"} ->
         [s EXCEPT !.clusters = local.produced]
    [] s.next = "generate_opportunities" -> [s EXCEPT !.opps = local.produced]
    [] OTHER -> s

\* Faulty variant: errors is a plain channel, a node's return value replaces it.
EndNodeReplacingErrors(r) ==
  /\ active = r
  /\ checkpoint[r].next # "end"
  /\ checkpoint[r].next = "propose_clusters" => local.planned
  /\ Pending(r) = {}
  /\ checkpoint' = [checkpoint EXCEPT ![r] =
       [Returned(r) EXCEPT !.next = After[@], !.errors = local.errs]]
  /\ local' = Fresh
  /\ active' = IF checkpoint[r].next = "verify_run" THEN NoRun ELSE r
  /\ UNCHANGED <<store, report, verification, crashes>>

\* Faulty variant: a node that was aborted is executed again.
EndNodeRetrying(r) ==
  /\ active = r
  /\ checkpoint[r].next # "end"
  /\ checkpoint[r].next = "propose_clusters" => local.planned
  /\ Pending(r) = {}
  /\ checkpoint' = IF local.stopped THEN checkpoint ELSE [checkpoint EXCEPT ![r] =
       [Returned(r) EXCEPT !.next = After[@], !.errors = @ \cup local.errs]]
  /\ local' = Fresh
  /\ active' = IF checkpoint[r].next = "verify_run" THEN NoRun ELSE r
  /\ UNCHANGED <<store, report, verification, crashes>>

\* LangGraph writes the checkpoint when the node has returned; errors are
\* appended (operator.add).  After the last node the command ends.
EndNode(r) ==
  /\ active = r
  /\ checkpoint[r].next # "end"
  /\ checkpoint[r].next = "propose_clusters" => local.planned
  /\ Pending(r) = {}
  /\ checkpoint' = [checkpoint EXCEPT ![r] =
       [Returned(r) EXCEPT !.next = After[@], !.errors = @ \cup local.errs]]
  /\ local' = Fresh
  /\ active' = IF checkpoint[r].next = "verify_run" THEN NoRun ELSE r
  /\ UNCHANGED <<store, report, verification, crashes>>

----------------------------------------------------------------------------
(* One element of each node's loop *)

\* upsert_duplicate_link
Deduplicate(r, i) ==
  /\ At(r, "deduplicate") /\ i \in Pending(r)
  /\ link' = [link EXCEPT ![i] = CanonicalOf(i, checkpoint[r].input)]
  /\ Handled(i)
  /\ UNCHANGED <<evidence, classification, cluster, card, review>>

Classify(r, i) ==
  /\ At(r, "classify") /\ i \in Pending(r)
  /\ \/ /\ \E l \in Labels : classification' = [classification EXCEPT ![i] = {l}]
        /\ Handled(i)
        /\ UNCHANGED <<evidence, link, cluster, card, review>>
     \/ \E f \in Failures : CallFails(r, i, f)

\* candidate_groups: the relevant classified items of each key.
ItemsOfKey(r, k) ==
  {i \in checkpoint[r].classified :
     \E l \in classification[i] : l.relevant /\ l.key = k}

CandidateKeys(r) == {k \in Keys : ItemsOfKey(r, k) # {}}

\* The analyst answers with a list of groups of keys.
Proposals == UNION {[1 .. n -> ClusterIds] : n \in 0 .. MaxGroups}

\* Faulty variant: seen_keys is forgotten.
KeptTwice(proposal, n, keys) == proposal[n] \cap keys

\* Keys that were not asked about are struck out, and so are keys that an
\* earlier group has taken.
Kept(proposal, n, keys) ==
  (proposal[n] \cap keys) \ UNION {proposal[m] : m \in 1 .. n - 1}

\* Keys the analyst left out become groups of their own.
ValidatedGroups(proposal, keys) ==
  LET groups == {Kept(proposal, n, keys) : n \in DOMAIN proposal} \ {{}}
  IN groups \cup {{k} : k \in keys \ UNION groups}

\* The one naming call.  Without a usable answer every key is its own group.
ProposeGroups(r) ==
  /\ At(r, "propose_clusters")
  /\ ~local.planned
  /\ LET keys == CandidateKeys(r)
         Plan(groups, errs) ==
           local' = [local EXCEPT !.planned = TRUE, !.plan = groups, !.errs = errs] IN
     \/ keys = {} /\ Plan({}, {})
     \/ keys # {} /\ \E p \in Proposals : Plan(ValidatedGroups(p, keys), {})
     \/ keys # {} /\ Failures # {} /\
          Plan({{k} : k \in keys}, {[node |-> "propose_clusters", blocked |-> FALSE]})
  /\ UNCHANGED store

\* Faulty variant: INSERT without ON CONFLICT, on a table without its key.
InsertCluster(r, c, members, authors, families) ==
  cluster' = [cluster EXCEPT ![c] = @ \cup
    {[run |-> Owner(@, r), members |-> members,
      authors |-> authors, families |-> families]}]

WriteCluster(r, c, members, authors, families) ==
  cluster' = [cluster EXCEPT ![c] =
    {[run |-> Owner(@, r), members |-> members,
      authors |-> authors, families |-> families]}]

ProposeCluster(r, c) ==
  /\ At(r, "propose_clusters") /\ c \in Pending(r)
  /\ WriteCluster(r, c, UNION {ItemsOfKey(r, k) : k \in c}, 0, 0)
  /\ Handled(c)
  /\ UNCHANGED <<evidence, link, classification, card, review>>

\* Membership grows by the duplicates of its members; independence is counted
\* over what is left without a link.
VerifyCluster(r, c) ==
  /\ At(r, "verify_clusters") /\ c \in Pending(r)
  /\ \E old \in cluster[c] :
       LET valid == old.members \cap evidence
           members == valid \cup {i \in evidence : link[i] \in valid}
       IN WriteCluster(r, c, members, UniqueAuthors(members, link),
                       SourceFamilies(members, link))
  /\ Handled(c)
  /\ UNCHANGED <<evidence, link, classification, card, review>>

\* _assemble_opportunity_card: the analyst's text and the cluster's numbers.
GenerateOpportunity(r, c) ==
  /\ At(r, "generate_opportunities") /\ c \in Pending(r)
  /\ \/ /\ \E t \in Texts, cl \in cluster[c] :
             card' = [card EXCEPT ![c] =
               {[run |-> Owner(@, r), text |-> t, evidence |-> cl.members,
                 authors |-> cl.authors, families |-> cl.families,
                 status |-> "observed"]}]
        /\ Handled(c)
        /\ UNCHANGED <<evidence, link, classification, cluster, review>>
     \/ \E f \in Failures : CallFails(r, c, f)

Shown(c) == [text |-> c.text, evidence |-> c.evidence]

CriticReview(r, o) ==
  /\ At(r, "critic_review") /\ o \in Pending(r)
  /\ \/ /\ \E v \in Verdicts, c \in card[o] :
             review' = [review EXCEPT ![o] =
               {[fatal |-> v.fatal, recommended |-> v.recommended,
                 reviewed |-> Shown(c)]}]
        /\ Handled(o)
        /\ UNCHANGED <<evidence, link, classification, cluster, card>>
     \/ \E f \in Failures : CallFails(r, o, f)

\* The evidence behind a card, counted from its cluster as it is now.
Facts(members) ==
  LET canonical == CanonicalMembers(members, link)
      Count(P(_)) == Cardinality({i \in canonical : \E l \in classification[i] : P(l)})
  IN [authors |-> UniqueAuthors(members, link),
      families |-> SourceFamilies(members, link),
      problem |-> Count(LAMBDA l : l.problem),
      workaround |-> Count(LAMBDA l : l.workaround),
      dominant |-> /\ Cardinality(canonical) <= 1
                   /\ DuplicateGroups(members, link) # {}]

JudgeOpportunity(r, o) ==
  /\ At(r, "deterministic_judge") /\ o \in Pending(r)
  /\ \E c \in card[o], cl \in cluster[o] :
       card' = [card EXCEPT ![o] =
         {[c EXCEPT !.status = JudgeStatus(c.evidence \subseteq evidence, review[o],
                                           Facts(cl.members))]}]
  /\ Handled(o)
  /\ UNCHANGED <<evidence, link, classification, cluster, review>>

\* list_problem_clusters_for_run, list_opportunity_cards_for_run
ClustersOf(r) == {c \in ClusterIds : \E row \in cluster[c] : row.run = r}
CardsOf(r) == {o \in ClusterIds : \E row \in card[o] : row.run = r}

RenderReport(r) ==
  /\ At(r, "render_report") /\ r \in Pending(r)
  /\ report' = [report EXCEPT ![r] =
       [clusters |-> ClustersOf(r),
        cards |-> UNION {{[id |-> o, card |-> c, review |-> review[o]] :
                             c \in card[o]} : o \in CardsOf(r)}]]
  /\ Handled(r)
  /\ UNCHANGED <<store, checkpoint, verification>>

ReadyCards(r) ==
  {c \in UNION {card[o] : o \in CardsOf(r)} : c.status = "experiment_ready"}

EvidenceRefsValid(r) ==
  \A o \in CardsOf(r) : \A c \in card[o] : c.evidence \subseteq evidence

DuplicateInflationAbsent(r) ==
  \A c \in ReadyCards(r) : Cardinality(CanonicalMembers(c.evidence, link)) >= 2

DeterministicRulesPassed(r) ==
  \A c \in ReadyCards(r) : c.authors >= MinAuthors /\ c.families >= MinFamilies

\* Faulty variant: one verdict is enough.
SomeVerdictPresent(r) == \E o \in CardsOf(r) : review[o] # {}

\* Every card of the run has a verdict.
CriticVerdictsPresent(r) ==
  CardsOf(r) # {} /\ \A o \in CardsOf(r) : review[o] # {}

VerifyRun(r) ==
  /\ At(r, "verify_run") /\ r \in Pending(r)
  /\ LET s == checkpoint[r]
         analyst == AgentStatus(s.errors, {"classify", "generate_opportunities"},
                                s.classified # {} \/ s.opps # {})
         reviewed == AgentStatus(s.errors, {"critic_review"}, CriticVerdictsPresent(r))
         checks == /\ EvidenceRefsValid(r)
                   /\ DuplicateInflationAbsent(r)
                   /\ DeterministicRulesPassed(r)
     IN verification' = [verification EXCEPT ![r] =
          OverallVerdict(checks, analyst, reviewed)]
  /\ Handled(r)
  /\ UNCHANGED <<store, checkpoint, report>>

----------------------------------------------------------------------------

LoopStep(r) ==
  /\ \/ \E i \in Items : Deduplicate(r, i) \/ Classify(r, i)
     \/ ProposeGroups(r)
     \/ \E c \in ClusterIds : \/ ProposeCluster(r, c) \/ VerifyCluster(r, c)
                              \/ GenerateOpportunity(r, c) \/ CriticReview(r, c)
                              \/ JudgeOpportunity(r, c)
  /\ UNCHANGED <<directory, active, crashes>>

ReportStep(r) ==
  /\ RenderReport(r) \/ VerifyRun(r)
  /\ UNCHANGED <<active, crashes>>

RunStep(r) == LoopStep(r) \/ ReportStep(r) \/ EndNode(r)

Next ==
  /\ \/ \E i \in Items : Ingest(i)
     \/ \E r \in Runs : Invoke(r) \/ RunStep(r)
     \/ Crash
  /\ UNCHANGED critic

Spec == Init /\ [][Next]_vars

\* An invocation keeps executing; nobody is obliged to invoke a run.
FairSpec == Spec /\ \A r \in Runs : WF_vars(RunStep(r) /\ UNCHANGED critic)
----------------------------------------------------------------------------
(* Properties *)

ClusterRow == [run : Runs, members : SUBSET Items, authors : Nat, families : Nat]
CardRow == [run : Runs, text : Texts, evidence : SUBSET Items, authors : Nat,
            families : Nat, status : Statuses]
ReviewRow == [fatal : BOOLEAN,
              recommended : {"experiment_ready", "investigate", "rejected"},
              reviewed : [text : Texts, evidence : SUBSET Items]]
AtMostOne(S) == {{}} \cup {{x} : x \in S}

\* Rows, files and local variables hold values of their kinds.
TypeOK ==
  /\ evidence \subseteq Items
  /\ link \in [Items -> Items \cup {NoLink}]
  /\ \A i \in Items : classification[i] \in AtMostOne(Labels)
  /\ \A k \in ClusterIds :
       /\ \A row \in cluster[k] : row \in ClusterRow /\ cluster[k] = {row}
       /\ \A row \in card[k] : row \in CardRow /\ card[k] = {row}
       /\ \A row \in review[k] : row \in ReviewRow /\ review[k] = {row}
  /\ critic \in [Runs -> {"agent", "human"}]
  /\ \A r \in Runs :
       /\ checkpoint[r].next \in Nodes \cup {"end"}
       /\ checkpoint[r].accepted \subseteq checkpoint[r].input
       /\ checkpoint[r].classified \subseteq checkpoint[r].accepted
       /\ checkpoint[r].clusters \cup checkpoint[r].opps \subseteq ClusterIds
       /\ verification[r] \in {"none", "PASS", "FAIL", "BLOCKED"}
  /\ active \in Runs \cup {NoRun}
  /\ crashes \in 0 .. MaxCrashes

Completed(r) == checkpoint[r].next = "end"
ReportedIds(r) == {c.id : c \in report[r].cards}

\* A PASS covers the whole report: every card in opportunities.json has been
\* judged by this run and has a critic verdict.  In particular a card left
\* behind by a killed attempt keeps the run from passing.
PassIsComplete ==
  \A r \in Runs : verification[r] = "PASS" =>
    /\ ReportedIds(r) = checkpoint[r].opps
    /\ \A c \in report[r].cards : c.card.status # "observed" /\ c.review # {}

\* "No completed critic review -> can never be experiment_ready": the verdict
\* behind an experiment_ready card was given on this card, with this text and
\* this evidence, and raised nothing fatal.
ReadyIsReviewed ==
  \A o \in ClusterIds : \A c \in card[o] : c.status = "experiment_ready" =>
    \E v \in review[o] : v.reviewed = Shown(c) /\ ~v.fatal

\* A repost is counted once.  Whatever the order in which items arrive, are
\* linked and clustered, and whichever windows see them, the members of a cluster,
\* and the evidence of a card, that count towards independence are no reposts of
\* each other.
CountedOnce ==
  \A k \in ClusterIds :
    /\ \A row \in cluster[k] : Independent(CanonicalMembers(row.members, link))
    /\ \A row \in card[k] : Independent(CanonicalMembers(row.evidence, link))

\* What a passing report calls experiment_ready rests on enough authors and
\* source families whose posts are no reposts of each other.
PassIsSound ==
  \A r \in Runs : verification[r] = "PASS" =>
    \A c \in report[r].cards : c.card.status = "experiment_ready" =>
      \E S \in SUBSET c.card.evidence :
        /\ Independent(S)
        /\ Cardinality({AuthorOf[i] : i \in S}) >= MinAuthors
        /\ Cardinality({FamilyOf[i] : i \in S}) >= MinFamilies

\* Partial results are never hidden: an item, cluster or card that a completed
\* run lost on the way shows in its errors.
GapsAreReported ==
  \A r \in Runs : Completed(r) =>
    LET s == checkpoint[r]
        Reported(node) == \E e \in s.errors : e.node = node IN
    /\ s.accepted # s.classified => Reported("classify")
    /\ s.clusters # s.opps => Reported("generate_opportunities")
    /\ critic[r] = "agent" /\ (\E o \in s.opps : review[o] = {})
         => Reported("critic_review")

\* The evidence of a run is accounted for: each relevant item it classified is
\* a member of exactly one of the clusters the run ended with.
ClustersPartitionEvidence ==
  \A r \in Runs : checkpoint[r].next = "verify_clusters" =>
    \A i \in checkpoint[r].classified :
      (\E l \in classification[i] : l.relevant) =>
        \E c \in checkpoint[r].clusters :
          /\ \E row \in cluster[c] : i \in row.members
          /\ \A d \in checkpoint[r].clusters \ {c} :
               \A row \in cluster[d] : i \notin row.members

\* A run never hides its result: the report of a completed run shows every
\* opportunity the run ended with.
OwnResultsListed ==
  \A r \in Runs : verification[r] # "none" =>
    checkpoint[r].opps \subseteq ReportedIds(r)

\* A run whose critic is a human waits for the review: it ends BLOCKED, and
\* leaves every card it judged open.
HumanReviewIsAwaited ==
  \A r \in Runs : critic[r] = "human" =>
    /\ verification[r] \in {"none", "BLOCKED"}
    /\ \A o \in ClusterIds : \A c \in card[o] : c.status \in {"observed", "investigate"}

\* Every invocation ends, whatever the agents answer.
InvocationEnds == \A r \in Runs : active = r ~> active = NoRun
=============================================================================
