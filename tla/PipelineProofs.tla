--------------------------- MODULE PipelineProofs ---------------------------
(***************************************************************************)
(* Proofs about Pipeline, for any items, runs, answers of the agents and   *)
(* number of killed invocations.                                           *)
(***************************************************************************)
EXTENDS Pipeline, FiniteSetTheorems, WellFoundedInduction, TLAPS

----------------------------------------------------------------------------
(* The inductive invariant *)

ErrorRow == [node : Nodes, blocked : BOOLEAN]

State == [next : Nodes \cup {"end"}, input : SUBSET Items, accepted : SUBSET Items,
          classified : SUBSET Items, clusters : SUBSET ClusterIds,
          opps : SUBSET ClusterIds, errors : SUBSET ErrorRow]

ReportRow == [id : ClusterIds, card : CardRow, review : AtMostOne(ReviewRow)]

Local(handled, produced, errs, plan, planned, stopped) ==
  [handled |-> handled, produced |-> produced, errs |-> errs, plan |-> plan,
   planned |-> planned, stopped |-> stopped]

Types ==
  /\ evidence \subseteq Items
  /\ link \in [Items -> Items \cup {NoLink}]
  /\ classification \in [Items -> AtMostOne(Labels)]
  /\ cluster \in [ClusterIds -> AtMostOne(ClusterRow)]
  /\ card \in [ClusterIds -> AtMostOne(CardRow)]
  /\ review \in [ClusterIds -> AtMostOne(ReviewRow)]
  /\ critic \in [Runs -> Critics]
  /\ checkpoint \in [Runs -> State]
  /\ report \in [Runs -> [clusters : SUBSET ClusterIds, cards : SUBSET ReportRow]]
  /\ verification \in [Runs -> {"none", "PASS", "FAIL", "BLOCKED"}]
  /\ active \in Runs \cup {NoRun}
  /\ crashes \in 0 .. MaxCrashes
  /\ local = Local(local.handled, local.produced, local.errs, local.plan, local.planned,
                   local.stopped)
  /\ local.planned \in BOOLEAN /\ local.stopped \in BOOLEAN
  /\ local.plan \subseteq ClusterIds /\ local.errs \subseteq ErrorRow

\* The nodes that call an agent for each element.
CallingNodes == {"classify", "generate_opportunities", "critic_review"}

\* The node a run is executing: what it has not handled is still to do, and what it
\* has handled in vain is among its errors.
Executing(r) ==
  /\ checkpoint[r].next # "end"
  /\ ~local.planned => local.plan = {}
  /\ local.handled \subseteq Work(r) /\ local.produced \subseteq local.handled
  /\ \A e \in local.errs : e.node = checkpoint[r].next
  /\ local.stopped \/ local.produced # local.handled =>
       local.errs # {} /\ checkpoint[r].next \in CallingNodes
  /\ checkpoint[r].next = "critic_review" => \A o \in local.produced : review[o] # {}

Progress ==
  /\ active = NoRun => local = Fresh
  /\ \A r \in Runs : active = r => Executing(r)

Unloaded == {"load_run", "load_new_evidence"}
Unsorted == Unloaded \cup {"normalize", "deduplicate"}
Unclassified == Unsorted \cup {"classify"}
Generated == {"critic_review", "deterministic_judge", "render_report", "verify_run", "end"}
Criticised == Generated \ {"critic_review"}

Reported(r, node) == \E e \in checkpoint[r].errors : e.node = node

\* What a run has lost on its way to a node is in its errors.
StageOf(r) ==
  LET s == checkpoint[r] IN
  /\ s.next \in Unsorted => s.accepted = {}
  /\ s.next \notin Unsorted => s.accepted = s.input \ DuplicatesIn(s.input)
  /\ s.next \in Unclassified => s.classified = {}
  /\ s.next \notin Unclassified /\ s.accepted # s.classified => Reported(r, "classify")
  /\ s.classified \subseteq s.accepted
  /\ s.next \in Generated /\ s.clusters # s.opps => Reported(r, "generate_opportunities")
  /\ s.next \in Criticised /\ critic[r] = "agent" /\ (\E o \in s.opps : review[o] = {})
       => Reported(r, "critic_review")

Stages == \A r \in Runs : StageOf(r)

\* There is evidence for the numbers of a row: items that do not repeat each other.
Supported(items, authors, families) ==
  \E S \in SUBSET items : /\ Independent(S)
                          /\ Cardinality({AuthorOf[i] : i \in S}) = authors
                          /\ Cardinality({FamilyOf[i] : i \in S}) = families

RowsSupported == \A k \in ClusterIds :
  /\ \A row \in cluster[k] : Supported(row.members, row.authors, row.families)
  /\ \A row \in card[k] : Supported(row.evidence, row.authors, row.families)

IInv == Types /\ Progress /\ Stages /\ CountedOnce /\ RowsSupported
----------------------------------------------------------------------------
(* Duplicates *)

LEMMA SmallestExists ==
  ASSUME NEW S \in SUBSET Nat, S # {}
  PROVE  \E i \in S : \A j \in S : i <= j
<1> DEFINE Less == {ss \in Nat \X Nat : ss[1] < ss[2]}
<1>1. \A x, y \in Nat : y < x => <<y, x>> \in Less
  OBVIOUS
<1>2. IsWellFoundedOn(Less, Nat)
  BY NatLessThanWellFounded, Zenon DEF OpToRel
<1> HIDE DEF Less
<1>3. PICK x \in S : \A y \in S : ~(<<y, x>> \in Less)
  BY <1>2, WFMin
<1>4. ASSUME NEW y \in S PROVE x <= y
  <2>1. x \in Nat /\ y \in Nat /\ ~(y < x)
    BY <1>1, <1>3
  <2> QED
    BY <2>1
<1> QED
  BY <1>4

\* The canonical item of a window is one of the window.
LEMMA CanonicalIn ==
  ASSUME NEW window \in SUBSET Items, NEW i \in window
  PROVE  CanonicalOf(i, window) \in window
<1>1. i \in GroupOf(i, window) /\ GroupOf(i, window) \subseteq window
  BY DEF GroupOf
<1>2. GroupOf(i, window) \in SUBSET Nat /\ GroupOf(i, window) # {}
  BY <1>1, ItemsAssumption
<1>3. \E j \in GroupOf(i, window) : \A k \in GroupOf(i, window) : j <= k
  BY <1>2, SmallestExists
<1>4. CanonicalOf(i, window) \in GroupOf(i, window)
  BY <1>3 DEF CanonicalOf, Earliest
<1> QED
  BY <1>1, <1>4

LEMMA SameGroup ==
  ASSUME NEW window \in SUBSET Items, NEW i \in window, NEW j \in window,
         {i, j} \in Similar[window]
  PROVE  GroupOf(i, window) = GroupOf(j, window)
<1>1. {j, i} \in Similar[window]
  <2>1. {j, i} = {i, j}
    OBVIOUS
  <2> QED
    BY <2>1
<1>2. \A S \in SUBSET window : Closed(S, window) => (i \in S <=> j \in S)
  BY <1>1 DEF Closed
<1> QED
  BY <1>2 DEF GroupOf

\* What is left of a window without its duplicates does not repeat itself.
LEMMA CanonicalsAreIndependent ==
  ASSUME NEW window \in SUBSET Items
  PROVE  Independent(window \ DuplicatesIn(window))
<1> SUFFICES ASSUME NEW i \in window \ DuplicatesIn(window),
                    NEW j \in window \ DuplicatesIn(window), i # j, {i, j} \in Reposts
             PROVE  FALSE
  BY DEF Independent
<1>0. {i, j} \in Similar[window]
  BY DEF Reposts
<1>1. CanonicalOf(i, window) = i /\ CanonicalOf(j, window) = j
  BY DEF DuplicatesIn
<1>2. CanonicalOf(i, window) = CanonicalOf(j, window)
  BY <1>0, SameGroup DEF CanonicalOf
<1> QED
  BY <1>1, <1>2

LEMMA FewerAreIndependent ==
  ASSUME NEW S, Independent(S), NEW T \in SUBSET S
  PROVE  Independent(T)
  BY DEF Independent

LEMMA CountOfItems ==
  ASSUME NEW S \in SUBSET Items, NEW f
  PROVE  Cardinality({f[i] : i \in S}) \in Nat
<1> DEFINE g == [i \in S |-> f[i]]
           image == {f[i] : i \in S}
<1>1. IsFiniteSet(S)
  BY ItemsAssumption, FS_Subset
<1>2. g \in Surjection(S, image)
  <2>1. g \in [S -> image] /\ \A y \in image : \E x \in S : g[x] = y
    OBVIOUS
  <2> HIDE DEF g, image
  <2> QED
    BY <2>1 DEF Surjection
<1>3. IsFiniteSet(image)
  BY <1>1, <1>2, FS_Surjection
<1> QED
  BY <1>3, FS_CardinalityType

----------------------------------------------------------------------------
(* The nodes *)

LEMMA NodesAre ==
  /\ Nodes = {"load_run", "load_new_evidence", "normalize", "deduplicate", "classify",
              "propose_clusters", "verify_clusters", "score_clusters",
              "generate_opportunities", "critic_review", "deterministic_judge",
              "render_report", "verify_run"}
  /\ After["load_run"] = "load_new_evidence" /\ After["load_new_evidence"] = "normalize"
  /\ After["normalize"] = "deduplicate" /\ After["deduplicate"] = "classify"
  /\ After["classify"] = "propose_clusters"
  /\ After["propose_clusters"] = "verify_clusters"
  /\ After["verify_clusters"] = "score_clusters"
  /\ After["score_clusters"] = "generate_opportunities"
  /\ After["generate_opportunities"] = "critic_review"
  /\ After["critic_review"] = "deterministic_judge"
  /\ After["deterministic_judge"] = "render_report"
  /\ After["render_report"] = "verify_run" /\ After["verify_run"] = "end"
  BY DEF Nodes, After

LEMMA ErrorsReplaced ==
  ASSUME NEW n, NEW i, NEW a, NEW c, NEW k, NEW o, NEW e, NEW new
  PROVE  [[next |-> n, input |-> i, accepted |-> a, classified |-> c, clusters |-> k,
           opps |-> o, errors |-> e] EXCEPT !.errors = new]
           = [next |-> n, input |-> i, accepted |-> a, classified |-> c, clusters |-> k,
              opps |-> o, errors |-> new]
  OBVIOUS

\* What the return value of a node makes of the state of its run.
LEMMA EndNodeIs ==
  ASSUME Types, Progress, NEW r \in Runs, EndNode(r)
  PROVE  LET s == checkpoint[r]
             t == checkpoint'[r] IN
         /\ active = r /\ s.next \in Nodes /\ t.next = After[s.next]
         /\ t.input = IF s.next = "load_new_evidence" THEN {i \in evidence : i >= Since[r]}
                      ELSE s.input
         /\ t.accepted = IF s.next = "deduplicate" THEN s.input \ DuplicatesIn(s.input)
                         ELSE s.accepted
         /\ t.classified = IF s.next = "classify" THEN local.produced ELSE s.classified
         /\ t.clusters = IF s.next \in {"propose_clusters", "verify_clusters"}
                         THEN local.produced ELSE s.clusters
         /\ t.opps = IF s.next = "generate_opportunities" THEN local.produced ELSE s.opps
         /\ t.errors = s.errors \cup local.errs
         /\ t = [next |-> t.next, input |-> t.input, accepted |-> t.accepted,
                 classified |-> t.classified, clusters |-> t.clusters, opps |-> t.opps,
                 errors |-> t.errors]
         /\ \A q \in Runs \ {r} : checkpoint'[q] = checkpoint[q]
         /\ DOMAIN checkpoint' = Runs
         /\ local' = Fresh /\ active' = (IF s.next = "verify_run" THEN NoRun ELSE r)
         /\ UNCHANGED <<store, report, verification, crashes>>
<1> DEFINE s == checkpoint[r]
           inp == IF s.next = "load_new_evidence" THEN {i \in evidence : i >= Since[r]}
                  ELSE s.input
           acc == IF s.next = "deduplicate" THEN s.input \ DuplicatesIn(s.input)
                  ELSE s.accepted
           cla == IF s.next = "classify" THEN local.produced ELSE s.classified
           clu == IF s.next \in {"propose_clusters", "verify_clusters"} THEN local.produced
                  ELSE s.clusters
           opp == IF s.next = "generate_opportunities" THEN local.produced ELSE s.opps
           ret == [next |-> s.next, input |-> inp, accepted |-> acc, classified |-> cla,
                   clusters |-> clu, opps |-> opp, errors |-> s.errors]
<1>1. s \in State /\ DOMAIN checkpoint = Runs
  BY DEF Types
<1>2. s = [next |-> s.next, input |-> s.input, accepted |-> s.accepted,
           classified |-> s.classified, clusters |-> s.clusters, opps |-> s.opps,
           errors |-> s.errors]
  BY <1>1 DEF State
<1>3. Returned(r) = ret
  <2> HIDE DEF s
  <2>1. CASE s.next = "load_new_evidence"
    BY <1>2, <2>1 DEF Returned, s
  <2>2. CASE s.next = "deduplicate"
    BY <1>2, <2>2 DEF Returned, s
  <2>3. CASE s.next = "classify"
    BY <1>2, <2>3 DEF Returned, s
  <2>4. CASE s.next \in {"propose_clusters", "verify_clusters"}
    BY <1>2, <2>4 DEF Returned, s
  <2>5. CASE s.next = "generate_opportunities"
    BY <1>2, <2>5 DEF Returned, s
  <2>6. CASE s.next \notin {"load_new_evidence", "deduplicate", "classify",
                            "propose_clusters", "verify_clusters", "generate_opportunities"}
    <3>1. Returned(r) = s
      BY <2>6 DEF Returned, s
    <3> QED
      BY <1>2, <2>6, <3>1
  <2> QED
    BY <2>1, <2>2, <2>3, <2>4, <2>5, <2>6
<1>4. /\ active = r /\ s.next # "end" /\ local' = Fresh
      /\ active' = IF s.next = "verify_run" THEN NoRun ELSE r
      /\ UNCHANGED <<store, report, verification, crashes>>
  BY DEF EndNode
<1>5. checkpoint' = [checkpoint EXCEPT ![r] =
        [Returned(r) EXCEPT !.next = After[@], !.errors = @ \cup local.errs]]
  BY DEF EndNode
<1> DEFINE new == [next |-> After[s.next], input |-> inp, accepted |-> acc,
                   classified |-> cla, clusters |-> clu, opps |-> opp,
                   errors |-> s.errors \cup local.errs]
<1>6. checkpoint'[r] = new /\ \A q \in Runs \ {r} : checkpoint'[q] = checkpoint[q]
  <2> HIDE DEF s, inp, acc, cla, clu, opp
  <2> DEFINE moved == [ret EXCEPT !.next = After[@]]
  <2>1. moved = [next |-> After[s.next], input |-> inp, accepted |-> acc,
                 classified |-> cla, clusters |-> clu, opps |-> opp, errors |-> s.errors]
    OBVIOUS
  <2>2. [ret EXCEPT !.next = After[@], !.errors = @ \cup local.errs]
          = [moved EXCEPT !.errors = s.errors \cup local.errs]
    OBVIOUS
  <2> HIDE DEF moved, ret
  <2>3. [moved EXCEPT !.errors = s.errors \cup local.errs] = new
    BY <2>1, ErrorsReplaced
  <2>4. [ret EXCEPT !.next = After[@], !.errors = @ \cup local.errs] = new
    BY <2>2, <2>3
  <2> HIDE DEF new
  <2> QED
    BY <1>1, <1>3, <1>5, <2>4
<1>7. s.next \in Nodes
  BY <1>1, <1>4 DEF State
<1>8. DOMAIN checkpoint' = Runs
  BY <1>1, <1>5
<1> QED
  BY <1>4, <1>6, <1>7, <1>8

\* What the loops of the nodes do to their local variables.
LEMMA HandledIs ==
  ASSUME Types, NEW x, Handled(x)
  PROVE  local' = Local(local.handled \cup {x}, local.produced \cup {x}, local.errs,
                        local.plan, local.planned, local.stopped)
<1> DEFINE now == Local(local.handled, local.produced, local.errs, local.plan,
                        local.planned, local.stopped)
           first == [now EXCEPT !.handled = local.handled \cup {x}]
<1>1. local = now
  BY DEF Types
<1>2. first = Local(local.handled \cup {x}, local.produced, local.errs, local.plan,
                    local.planned, local.stopped)
  BY DEF Local
<1>3. [now EXCEPT !.handled = local.handled \cup {x}, !.produced = local.produced \cup {x}]
        = [first EXCEPT !.produced = local.produced \cup {x}]
  BY DEF Local
<1> HIDE DEF first
<1>4. [first EXCEPT !.produced = local.produced \cup {x}]
        = Local(local.handled \cup {x}, local.produced \cup {x}, local.errs, local.plan,
                local.planned, local.stopped)
  BY <1>2 DEF Local
<1>5. local' = [local EXCEPT !.handled = local.handled \cup {x},
                             !.produced = local.produced \cup {x}]
  BY DEF Handled
<1> HIDE DEF now
<1> QED
  BY <1>1, <1>3, <1>4, <1>5

LEMMA CallFailsIs ==
  ASSUME Types, NEW r, NEW x, NEW f, CallFails(r, x, f)
  PROVE  local' = Local(local.handled \cup {x}, local.produced,
                        local.errs \cup {[node |-> checkpoint[r].next,
                                          blocked |-> f # "invalid"]},
                        local.plan, local.planned, f = "systemic")
<1> DEFINE now == Local(local.handled, local.produced, local.errs, local.plan,
                        local.planned, local.stopped)
           done == local.handled \cup {x}
           error == [node |-> checkpoint[r].next, blocked |-> f # "invalid"]
           errors == local.errs \cup {error}
           stop == f = "systemic"
           first == [now EXCEPT !.handled = done]
           second == [first EXCEPT !.errs = errors]
<1>1. local = now
  BY DEF Types
<1>2. local' = [local EXCEPT !.handled = done, !.errs = errors, !.stopped = stop]
  BY DEF CallFails
<1> HIDE DEF done, errors, stop
<1>3. first = Local(done, local.produced, local.errs, local.plan, local.planned,
                    local.stopped)
  BY DEF Local
<1>4. [now EXCEPT !.handled = done, !.errs = errors, !.stopped = stop]
        = [second EXCEPT !.stopped = stop]
  BY DEF Local
<1> HIDE DEF first
<1>5. second = Local(done, local.produced, errors, local.plan, local.planned, local.stopped)
  BY <1>3 DEF Local
<1> HIDE DEF second
<1>6. [second EXCEPT !.stopped = stop]
        = Local(done, local.produced, errors, local.plan, local.planned, stop)
  BY <1>5 DEF Local
<1> HIDE DEF now
<1>7. local' = Local(done, local.produced, errors, local.plan, local.planned, stop)
  BY <1>1, <1>2, <1>4, <1>6
<1> QED
  BY <1>7 DEF done, errors, stop

LEMMA PlanIs ==
  ASSUME Types, NEW r \in Runs, ProposeGroups(r)
  PROVE  \E groups, errs :
           /\ local' = Local(local.handled, local.produced, errs, groups, TRUE, local.stopped)
           /\ (groups = {} /\ CandidateKeys(r) = {}) \/ groups = {{k} : k \in CandidateKeys(r)}
                \/ \E p \in Proposals : groups = ValidatedGroups(p, CandidateKeys(r))
           /\ errs \subseteq {[node |-> "propose_clusters", blocked |-> FALSE]}
<1> DEFINE now == Local(local.handled, local.produced, local.errs, local.plan,
                        local.planned, local.stopped)
<1>1. local = now
  BY DEF Types
<1>2. PICK groups, errs :
        /\ local' = [local EXCEPT !.planned = TRUE, !.plan = groups, !.errs = errs]
        /\ (groups = {} /\ CandidateKeys(r) = {}) \/ groups = {{k} : k \in CandidateKeys(r)}
                \/ \E p \in Proposals : groups = ValidatedGroups(p, CandidateKeys(r))
        /\ errs \subseteq {[node |-> "propose_clusters", blocked |-> FALSE]}
  BY DEF ProposeGroups
<1> DEFINE yes == TRUE
           first == [now EXCEPT !.planned = yes]
           second == [first EXCEPT !.plan = groups]
<1>3. local' = [local EXCEPT !.planned = yes, !.plan = groups, !.errs = errs]
  BY <1>2
<1> HIDE DEF yes
<1>4. first = Local(local.handled, local.produced, local.errs, local.plan, yes, local.stopped)
  BY DEF Local
<1>5. [now EXCEPT !.planned = yes, !.plan = groups, !.errs = errs]
        = [second EXCEPT !.errs = errs]
  BY DEF Local
<1> HIDE DEF first
<1>6. second = Local(local.handled, local.produced, local.errs, groups, yes, local.stopped)
  BY <1>4 DEF Local
<1> HIDE DEF second
<1>7. [second EXCEPT !.errs = errs]
        = Local(local.handled, local.produced, errs, groups, yes, local.stopped)
  BY <1>6 DEF Local
<1> HIDE DEF now
<1>8. local' = Local(local.handled, local.produced, errs, groups, yes, local.stopped)
  BY <1>1, <1>3, <1>5, <1>7
<1> QED
  BY <1>2, <1>8 DEF yes

----------------------------------------------------------------------------
(* Which steps change what *)

LEMMA WhatChanges ==
  ASSUME [Next]_vars
  PROVE  /\ UNCHANGED critic
         /\ (\E i \in Items : evidence' = evidence \cup {i}) \/ UNCHANGED evidence
         /\ (\E r \in Runs, i \in Items : Deduplicate(r, i)) \/ UNCHANGED link
         /\ (\E r \in Runs, i \in Items : Classify(r, i)) \/ UNCHANGED classification
         /\ \/ \E r \in Runs, c \in ClusterIds : ProposeCluster(r, c) \/ VerifyCluster(r, c)
            \/ UNCHANGED cluster
         /\ \/ \E r \in Runs, c \in ClusterIds : \/ GenerateOpportunity(r, c)
                                                \/ JudgeOpportunity(r, c)
            \/ UNCHANGED card
         /\ (\E r \in Runs, o \in ClusterIds : CriticReview(r, o)) \/ UNCHANGED review
         /\ (\E r \in Runs : EndNode(r)) \/ UNCHANGED checkpoint
         /\ (\E r \in Runs : RenderReport(r)) \/ UNCHANGED report
         /\ (\E r \in Runs : VerifyRun(r)) \/ UNCHANGED verification
         /\ crashes' \in {crashes, crashes + 1} /\ (crashes' # crashes => crashes < MaxCrashes)
         /\ \/ \E r \in Runs : Invoke(r) \/ EndNode(r)
            \/ Crash
            \/ UNCHANGED active
         /\ \/ \E r \in Runs : Invoke(r) \/ RunStep(r)
            \/ Crash
            \/ UNCHANGED local
<1> DEFINE Goal ==
         /\ (\E i \in Items : evidence' = evidence \cup {i}) \/ UNCHANGED evidence
         /\ (\E r \in Runs, i \in Items : Deduplicate(r, i)) \/ UNCHANGED link
         /\ (\E r \in Runs, i \in Items : Classify(r, i)) \/ UNCHANGED classification
         /\ \/ \E r \in Runs, c \in ClusterIds : ProposeCluster(r, c) \/ VerifyCluster(r, c)
            \/ UNCHANGED cluster
         /\ \/ \E r \in Runs, c \in ClusterIds : \/ GenerateOpportunity(r, c)
                                                \/ JudgeOpportunity(r, c)
            \/ UNCHANGED card
         /\ (\E r \in Runs, o \in ClusterIds : CriticReview(r, o)) \/ UNCHANGED review
         /\ (\E r \in Runs : EndNode(r)) \/ UNCHANGED checkpoint
         /\ (\E r \in Runs : RenderReport(r)) \/ UNCHANGED report
         /\ (\E r \in Runs : VerifyRun(r)) \/ UNCHANGED verification
         /\ crashes' \in {crashes, crashes + 1} /\ (crashes' # crashes => crashes < MaxCrashes)
         /\ \/ \E r \in Runs : Invoke(r) \/ EndNode(r)
            \/ Crash
            \/ UNCHANGED active
         /\ \/ \E r \in Runs : Invoke(r) \/ RunStep(r)
            \/ Crash
            \/ UNCHANGED local
<1>1. CASE UNCHANGED vars
  BY <1>1 DEF vars, store, directory
<1>2. ASSUME \E i \in Items : Ingest(i) PROVE Goal
  <2>1. PICK i \in Items : Ingest(i)
    BY <1>2
  <2>2. /\ evidence' = evidence \cup {i}
        /\ UNCHANGED <<link, classification, cluster, card, review, checkpoint, report,
                       verification, active, local, crashes>>
    BY <2>1 DEF Ingest, directory
  <2> QED
    BY <2>2
<1>3. ASSUME Crash PROVE Goal
  <2>1. /\ crashes' = crashes + 1 /\ crashes < MaxCrashes
        /\ UNCHANGED <<evidence, link, classification, cluster, card, review, checkpoint,
                       report, verification>>
    BY <1>3 DEF Crash, store, directory
  <2> QED
    BY <1>3, <2>1
<1>4. ASSUME NEW r \in Runs, Invoke(r) PROVE Goal
  BY <1>4 DEF Invoke, store, directory
<1>5. ASSUME NEW r \in Runs, LoopStep(r) PROVE Goal
  <2>1. UNCHANGED <<evidence, checkpoint, report, verification, active, crashes>>
    BY <1>5 DEF LoopStep, directory, Deduplicate, Classify, ProposeGroups, ProposeCluster,
       VerifyCluster, GenerateOpportunity, CriticReview, JudgeOpportunity, CallFails, store
  <2>2. (\E i \in Items : Deduplicate(r, i)) \/ UNCHANGED link
    BY <1>5 DEF LoopStep, Classify, ProposeGroups, ProposeCluster,
       VerifyCluster, GenerateOpportunity, CriticReview, JudgeOpportunity, CallFails, store
  <2>3. (\E i \in Items : Classify(r, i)) \/ UNCHANGED classification
    BY <1>5 DEF LoopStep, Deduplicate, ProposeGroups, ProposeCluster,
       VerifyCluster, GenerateOpportunity, CriticReview, JudgeOpportunity, CallFails, store
  <2>4. \/ \E c \in ClusterIds : ProposeCluster(r, c) \/ VerifyCluster(r, c)
        \/ UNCHANGED cluster
    BY <1>5 DEF LoopStep, Deduplicate, Classify, ProposeGroups,
       GenerateOpportunity, CriticReview, JudgeOpportunity, CallFails, store
  <2>5. \/ \E c \in ClusterIds : GenerateOpportunity(r, c) \/ JudgeOpportunity(r, c)
        \/ UNCHANGED card
    BY <1>5 DEF LoopStep, Deduplicate, Classify, ProposeGroups, ProposeCluster,
       VerifyCluster, CriticReview, CallFails, store
  <2>6. (\E c \in ClusterIds : CriticReview(r, c)) \/ UNCHANGED review
    BY <1>5 DEF LoopStep, Deduplicate, Classify, ProposeGroups, ProposeCluster,
       VerifyCluster, GenerateOpportunity, JudgeOpportunity, CallFails, store
  <2> QED
    BY <1>5, <2>1, <2>2, <2>3, <2>4, <2>5, <2>6 DEF RunStep
<1>6. ASSUME NEW r \in Runs, ReportStep(r) PROVE Goal
  BY <1>6 DEF ReportStep, RenderReport, VerifyRun, store, RunStep
<1>7. ASSUME NEW r \in Runs, EndNode(r) PROVE Goal
  BY <1>7 DEF EndNode, store, RunStep
<1>8. Goal
  BY <1>1, <1>2, <1>3, <1>4, <1>5, <1>6, <1>7 DEF Next, RunStep
<1>9. UNCHANGED critic
  BY DEF Next, vars
<1> QED
  BY <1>8, <1>9

----------------------------------------------------------------------------
(* Rows *)

LEMMA OneRow ==
  ASSUME NEW S
  PROVE  /\ \A x \in S : {x} \in AtMostOne(S)
         /\ {} \in AtMostOne(S)
         /\ \A rows \in AtMostOne(S) : \A x \in rows : x \in S /\ rows = {x}
  BY DEF AtMostOne

LEMMA OwnerIs ==
  ASSUME NEW S, \A x \in S : x.run \in Runs, NEW rows \in AtMostOne(S), NEW r \in Runs
  PROVE  /\ Owner(rows, r) \in Runs
         /\ rows # {} => \A x \in rows : Owner(rows, r) = x.run
         /\ rows = {} => Owner(rows, r) = r
<1>1. CASE rows = {}
  BY <1>1 DEF Owner
<1>2. CASE rows # {}
  <2>1. PICK x \in rows : rows = {x} /\ x \in S
    BY <1>2, OneRow
  <2>2. (CHOOSE y \in rows : TRUE) = x
    BY <2>1
  <2> QED
    BY <1>2, <2>1, <2>2 DEF Owner
<1> QED
  BY <1>1, <1>2

\* The statuses deterministic_judge gives.
LEMMA JudgeStatusIs ==
  ASSUME NEW valid \in BOOLEAN, NEW reviews, NEW facts
  PROVE  LET status == JudgeStatus(valid, reviews, facts) IN
         /\ status \in Statuses \ {"observed"}
         /\ reviews = {} => status \in {"investigate", "rejected"}
         /\ reviews = {} /\ valid => status = "investigate"
         /\ status = "experiment_ready" => reviews # {} /\ \A v \in reviews : ~v.fatal
  BY DEF JudgeStatus, Statuses

LEMMA OverallVerdictIs ==
  ASSUME NEW checks \in BOOLEAN, NEW analyst, NEW reviewed
  PROVE  /\ OverallVerdict(checks, analyst, reviewed) \in {"PASS", "FAIL", "BLOCKED"}
         /\ OverallVerdict(checks, analyst, reviewed) = "PASS" =>
              checks /\ analyst = "PASS" /\ reviewed = "PASS"
         /\ reviewed \in {"NOT_RUN", "BLOCKED"} =>
              OverallVerdict(checks, analyst, reviewed) = "BLOCKED"
  BY DEF OverallVerdict

LEMMA CountsOfMembers ==
  ASSUME NEW members \in SUBSET Items, NEW l
  PROVE  UniqueAuthors(members, l) \in Nat /\ SourceFamilies(members, l) \in Nat
<1>1. CanonicalMembers(members, l) \in SUBSET Items
  BY DEF CanonicalMembers
<1> QED
  BY <1>1, CountOfItems DEF UniqueAuthors, SourceFamilies

----------------------------------------------------------------------------
(* What the steps write *)

LEMMA DeduplicateIs ==
  ASSUME Types, NEW r \in Runs, NEW i \in Items, Deduplicate(r, i)
  PROVE  \E j \in Items : link' = [link EXCEPT ![i] = j]
<1>1. checkpoint[r].next = "deduplicate" /\ i \in Work(r)
  BY DEF Deduplicate, At, Pending
<1>2. i \in DuplicatesIn(checkpoint[r].input)
  BY <1>1 DEF Work
<1>3. checkpoint[r].input \in SUBSET Items /\ i \in checkpoint[r].input
  BY <1>2 DEF Types, State, DuplicatesIn
<1> QED
  BY <1>3, CanonicalIn DEF Deduplicate

LEMMA ProposeClusterIs ==
  ASSUME Types, NEW r \in Runs, NEW c \in ClusterIds, ProposeCluster(r, c)
  PROVE  \E row \in ClusterRow :
           /\ cluster' = [cluster EXCEPT ![c] = {row}]
           /\ row.run = Owner(cluster[c], r)
           /\ row.members = UNION {ItemsOfKey(r, k) : k \in c}
           /\ row.authors = 0 /\ row.families = 0
<1> DEFINE members == UNION {ItemsOfKey(r, k) : k \in c}
           row == [run |-> Owner(cluster[c], r), members |-> members,
                   authors |-> 0, families |-> 0]
<1>1. members \subseteq Items
  BY DEF ItemsOfKey, Types, State
<1>2. Owner(cluster[c], r) \in Runs
  BY OwnerIs DEF Types, ClusterRow
<1> HIDE DEF members
<1>3. row \in ClusterRow /\ row.run = Owner(cluster[c], r) /\ row.members = members
      /\ row.authors = 0 /\ row.families = 0
  BY <1>1, <1>2 DEF ClusterRow
<1>4. cluster' = [cluster EXCEPT ![c] = {row}]
  BY DEF ProposeCluster, WriteCluster, members
<1> HIDE DEF row
<1> QED
  BY <1>3, <1>4 DEF members

LEMMA VerifyClusterIs ==
  ASSUME Types, NEW r \in Runs, NEW c \in ClusterIds, VerifyCluster(r, c)
  PROVE  \E old \in cluster[c], row \in ClusterRow :
           /\ cluster' = [cluster EXCEPT ![c] = {row}]
           /\ row.run = old.run
           /\ row.members = (old.members \cap evidence)
                \cup {i \in evidence : link[i] \in old.members \cap evidence}
           /\ row.authors = UniqueAuthors(row.members, link)
           /\ row.families = SourceFamilies(row.members, link)
<1>1. PICK old \in cluster[c] :
        LET valid == old.members \cap evidence
            members == valid \cup {i \in evidence : link[i] \in valid}
        IN WriteCluster(r, c, members, UniqueAuthors(members, link),
                        SourceFamilies(members, link))
  BY DEF VerifyCluster
<1> DEFINE members == (old.members \cap evidence)
                        \cup {i \in evidence : link[i] \in old.members \cap evidence}
           row == [run |-> Owner(cluster[c], r), members |-> members,
                   authors |-> UniqueAuthors(members, link),
                   families |-> SourceFamilies(members, link)]
<1>2. members \in SUBSET Items
  BY DEF Types
<1>3. Owner(cluster[c], r) \in Runs /\ Owner(cluster[c], r) = old.run
  <2>1. cluster[c] \in AtMostOne(ClusterRow) /\ \A x \in ClusterRow : x.run \in Runs
    BY DEF Types, ClusterRow
  <2> QED
    BY <2>1, OwnerIs
<1>4. cluster' = [cluster EXCEPT ![c] = {row}]
  BY <1>1 DEF WriteCluster
<1> HIDE DEF members
<1>5. UniqueAuthors(members, link) \in Nat /\ SourceFamilies(members, link) \in Nat
  BY <1>2, CountsOfMembers
<1>6. row \in ClusterRow /\ row.run = old.run /\ row.members = members
      /\ row.authors = UniqueAuthors(row.members, link)
      /\ row.families = SourceFamilies(row.members, link)
  BY <1>2, <1>3, <1>5 DEF ClusterRow
<1> HIDE DEF row
<1> QED
  BY <1>4, <1>6 DEF members

LEMMA GenerateIs ==
  ASSUME Types, NEW r \in Runs, NEW c \in ClusterIds, GenerateOpportunity(r, c)
  PROVE  \/ UNCHANGED card
         \/ \E cl \in cluster[c], row \in CardRow :
              /\ card' = [card EXCEPT ![c] = {row}]
              /\ row.run = Owner(card[c], r) /\ row.evidence = cl.members
              /\ row.authors = cl.authors /\ row.families = cl.families
              /\ row.status = "observed"
<1>1. CASE \E f \in Failures : CallFails(r, c, f)
  BY <1>1 DEF CallFails, store
<1>2. ASSUME NEW t \in Texts, NEW cl \in cluster[c],
             card' = [card EXCEPT ![c] =
               {[run |-> Owner(@, r), text |-> t, evidence |-> cl.members,
                 authors |-> cl.authors, families |-> cl.families,
                 status |-> "observed"]}]
      PROVE  \E row \in CardRow :
              /\ card' = [card EXCEPT ![c] = {row}]
              /\ row.run = Owner(card[c], r) /\ row.evidence = cl.members
              /\ row.authors = cl.authors /\ row.families = cl.families
              /\ row.status = "observed"
  <2> DEFINE row == [run |-> Owner(card[c], r), text |-> t, evidence |-> cl.members,
                     authors |-> cl.authors, families |-> cl.families,
                     status |-> "observed"]
  <2>1. cl \in ClusterRow
    BY OneRow DEF Types
  <2>2. Owner(card[c], r) \in Runs
    BY OwnerIs DEF Types, CardRow
  <2>3. /\ row \in CardRow /\ row.run = Owner(card[c], r) /\ row.evidence = cl.members
        /\ row.authors = cl.authors /\ row.families = cl.families
        /\ row.status = "observed"
    BY <2>1, <2>2 DEF ClusterRow, CardRow, Statuses
  <2>4. card' = [card EXCEPT ![c] = {row}]
    BY <1>2
  <2> HIDE DEF row
  <2> QED
    BY <2>3, <2>4
<1> QED
  BY <1>1, <1>2 DEF GenerateOpportunity

LEMMA JudgeIs ==
  ASSUME Types, NEW r \in Runs, NEW o \in ClusterIds, JudgeOpportunity(r, o)
  PROVE  \E old \in card[o], row \in CardRow :
           /\ card' = [card EXCEPT ![o] = {row}]
           /\ row.run = old.run /\ row.text = old.text /\ row.evidence = old.evidence
           /\ row.authors = old.authors /\ row.families = old.families
           /\ row.status \in Statuses \ {"observed"}
           /\ review[o] = {} => row.status \in {"investigate", "rejected"}
           /\ review[o] = {} /\ old.evidence \subseteq evidence => row.status = "investigate"
           /\ row.status = "experiment_ready" =>
                review[o] # {} /\ \A v \in review[o] : ~v.fatal
<1>1. PICK old \in card[o], cl \in cluster[o] :
        card' = [card EXCEPT ![o] =
          {[old EXCEPT !.status = JudgeStatus(old.evidence \subseteq evidence, review[o],
                                              Facts(cl.members))]}]
  BY DEF JudgeOpportunity
<1> DEFINE status == JudgeStatus(old.evidence \subseteq evidence, review[o], Facts(cl.members))
           row == [run |-> old.run, text |-> old.text, evidence |-> old.evidence,
                   authors |-> old.authors, families |-> old.families, status |-> status]
<1>2. card' = [card EXCEPT ![o] = {[old EXCEPT !.status = status]}]
  BY <1>1
<1>3. /\ status \in Statuses \ {"observed"}
      /\ review[o] = {} => status \in {"investigate", "rejected"}
      /\ review[o] = {} /\ old.evidence \subseteq evidence => status = "investigate"
      /\ status = "experiment_ready" => review[o] # {} /\ \A v \in review[o] : ~v.fatal
  BY JudgeStatusIs
<1> HIDE DEF status
<1>4. old \in CardRow
  BY OneRow DEF Types
<1>5. [old EXCEPT !.status = status] = row
  BY <1>4 DEF CardRow
<1>6. /\ row \in CardRow /\ row.run = old.run /\ row.text = old.text
      /\ row.evidence = old.evidence /\ row.authors = old.authors
      /\ row.families = old.families /\ row.status = status
  BY <1>3, <1>4 DEF CardRow
<1> HIDE DEF row
<1> QED
  BY <1>2, <1>3, <1>5, <1>6

LEMMA CriticReviewIs ==
  ASSUME Types, NEW r \in Runs, NEW o \in ClusterIds, CriticReview(r, o)
  PROVE  \/ UNCHANGED review
         \/ \E c \in card[o], row \in ReviewRow :
              /\ review' = [review EXCEPT ![o] = {row}]
              /\ row.reviewed = Shown(c)
<1>1. CASE \E f \in Failures : CallFails(r, o, f)
  BY <1>1 DEF CallFails, store
<1>2. ASSUME NEW v \in Verdicts, NEW c \in card[o],
             review' = [review EXCEPT ![o] =
               {[fatal |-> v.fatal, recommended |-> v.recommended, reviewed |-> Shown(c)]}]
      PROVE  \E row \in ReviewRow :
               review' = [review EXCEPT ![o] = {row}] /\ row.reviewed = Shown(c)
  <2> DEFINE row == [fatal |-> v.fatal, recommended |-> v.recommended, reviewed |-> Shown(c)]
  <2>1. c \in CardRow /\ v \in Opinions
    BY OneRow, AgentAssumption DEF Types
  <2>2. row \in ReviewRow /\ row.reviewed = Shown(c)
    BY <2>1 DEF ReviewRow, Shown, CardRow, Opinions
  <2>3. review' = [review EXCEPT ![o] = {row}]
    BY <1>2
  <2> HIDE DEF row
  <2> QED
    BY <2>2, <2>3
<1> QED
  BY <1>1, <1>2 DEF CriticReview

\* A step of a loop, seen from the local variables of its node.
LEMMA LoopIs ==
  ASSUME Types, NEW r \in Runs, LoopStep(r) \/ ReportStep(r)
  PROVE  /\ active = r /\ checkpoint[r].next \in Nodes
         /\ UNCHANGED <<checkpoint, active, crashes>>
         /\ \/ \E x \in Pending(r) :
                 /\ local' = Local(local.handled \cup {x}, local.produced \cup {x},
                                  local.errs, local.plan, local.planned, local.stopped)
                 /\ checkpoint[r].next = "critic_review" =>
                      \E c \in ClusterIds : x = c /\ CriticReview(r, c) /\ review'[c] # {}
            \/ \E x \in Pending(r), f \in Failures :
                 /\ CallFails(r, x, f)
                 /\ checkpoint[r].next \in CallingNodes
            \/ ProposeGroups(r)
<1>1. ASSUME NEW i \in Items, Deduplicate(r, i)
      PROVE  At(r, "deduplicate") /\ i \in Pending(r) /\ Handled(i)
  BY <1>1 DEF Deduplicate
<1>2. ASSUME NEW i \in Items, Classify(r, i)
      PROVE  /\ At(r, "classify") /\ i \in Pending(r)
             /\ Handled(i) \/ \E f \in Failures : CallFails(r, i, f)
  BY <1>2 DEF Classify
<1>3. ASSUME NEW c \in ClusterIds, ProposeCluster(r, c) \/ VerifyCluster(r, c)
      PROVE  /\ At(r, "propose_clusters") \/ At(r, "verify_clusters")
             /\ c \in Pending(r) /\ Handled(c)
  BY <1>3 DEF ProposeCluster, VerifyCluster
<1>4. ASSUME NEW c \in ClusterIds, GenerateOpportunity(r, c)
      PROVE  /\ At(r, "generate_opportunities") /\ c \in Pending(r)
             /\ Handled(c) \/ \E f \in Failures : CallFails(r, c, f)
  BY <1>4 DEF GenerateOpportunity
<1>5. ASSUME NEW c \in ClusterIds, CriticReview(r, c)
      PROVE  /\ At(r, "critic_review") /\ c \in Pending(r)
             /\ \/ Handled(c) /\ review'[c] # {}
                \/ \E f \in Failures : CallFails(r, c, f)
  <2>1. review \in [ClusterIds -> AtMostOne(ReviewRow)]
    BY DEF Types
  <2> QED
    BY <1>5, <2>1 DEF CriticReview
<1>6. ASSUME NEW c \in ClusterIds, JudgeOpportunity(r, c)
      PROVE  At(r, "deterministic_judge") /\ c \in Pending(r) /\ Handled(c)
  BY <1>6 DEF JudgeOpportunity
<1>7. ASSUME RenderReport(r) \/ VerifyRun(r)
      PROVE  /\ At(r, "render_report") \/ At(r, "verify_run")
             /\ r \in Pending(r) /\ Handled(r)
  BY <1>7 DEF RenderReport, VerifyRun
<1>8. \A x : Handled(x) =>
        local' = Local(local.handled \cup {x}, local.produced \cup {x}, local.errs,
                       local.plan, local.planned, local.stopped)
  BY HandledIs
<1>9. UNCHANGED <<checkpoint, active, crashes>>
  BY DEF LoopStep, ReportStep, RenderReport, VerifyRun, directory
<1>10. active = r /\ checkpoint[r].next \in Nodes
  BY <1>1, <1>2, <1>3, <1>4, <1>5, <1>6, <1>7, NodesAre
     DEF LoopStep, ReportStep, At, ProposeGroups
<1>11. CASE \E i \in Items : Deduplicate(r, i) \/ Classify(r, i)
  BY <1>1, <1>2, <1>8, <1>9, <1>10, <1>11 DEF At, CallingNodes
<1>12. CASE \E c \in ClusterIds : \/ ProposeCluster(r, c) \/ VerifyCluster(r, c)
                                   \/ GenerateOpportunity(r, c) \/ JudgeOpportunity(r, c)
  BY <1>3, <1>4, <1>6, <1>8, <1>9, <1>10, <1>12 DEF At, CallingNodes
<1>13. CASE \E c \in ClusterIds : CriticReview(r, c)
  BY <1>5, <1>8, <1>9, <1>10, <1>13 DEF At, CallingNodes
<1>14. CASE RenderReport(r) \/ VerifyRun(r)
  BY <1>7, <1>8, <1>9, <1>10, <1>14 DEF At
<1> QED
  BY <1>9, <1>10, <1>11, <1>12, <1>13, <1>14 DEF LoopStep, ReportStep

----------------------------------------------------------------------------
(* Types *)

LEMMA StoreTypes ==
  ASSUME Types, [Next]_vars
  PROVE  /\ evidence' \subseteq Items
         /\ link' \in [Items -> Items \cup {NoLink}]
         /\ classification' \in [Items -> AtMostOne(Labels)]
         /\ cluster' \in [ClusterIds -> AtMostOne(ClusterRow)]
         /\ card' \in [ClusterIds -> AtMostOne(CardRow)]
         /\ review' \in [ClusterIds -> AtMostOne(ReviewRow)]
<1>1. evidence' \subseteq Items
  BY WhatChanges DEF Types
<1>2. link' \in [Items -> Items \cup {NoLink}]
  BY WhatChanges, DeduplicateIs DEF Types
<1>3. classification' \in [Items -> AtMostOne(Labels)]
  <2>1. classification \in [Items -> AtMostOne(Labels)]
    BY DEF Types
  <2>2. ASSUME NEW r \in Runs, NEW i \in Items, Classify(r, i)
        PROVE  classification' \in [Items -> AtMostOne(Labels)]
    <3>1. CASE \E f \in Failures : CallFails(r, i, f)
      BY <2>1, <3>1 DEF CallFails, store
    <3>2. CASE \E l \in Labels : classification' = [classification EXCEPT ![i] = {l}]
      BY <2>1, <3>2, OneRow
    <3> QED
      BY <2>2, <3>1, <3>2 DEF Classify
  <2> QED
    BY <2>1, <2>2, WhatChanges
<1>4. cluster' \in [ClusterIds -> AtMostOne(ClusterRow)]
  <2>1. cluster \in [ClusterIds -> AtMostOne(ClusterRow)]
    BY DEF Types
  <2>2. ASSUME NEW r \in Runs, NEW c \in ClusterIds, ProposeCluster(r, c) \/ VerifyCluster(r, c)
        PROVE  \E row \in ClusterRow : cluster' = [cluster EXCEPT ![c] = {row}]
    BY <2>2, ProposeClusterIs, VerifyClusterIs
  <2> QED
    BY <2>1, <2>2, WhatChanges, OneRow
<1>5. card' \in [ClusterIds -> AtMostOne(CardRow)]
  <2>1. card \in [ClusterIds -> AtMostOne(CardRow)]
    BY DEF Types
  <2>2. ASSUME NEW r \in Runs, NEW c \in ClusterIds,
               GenerateOpportunity(r, c) \/ JudgeOpportunity(r, c)
        PROVE  UNCHANGED card \/ \E row \in CardRow : card' = [card EXCEPT ![c] = {row}]
    BY <2>2, GenerateIs, JudgeIs
  <2> QED
    BY <2>1, <2>2, WhatChanges, OneRow
<1>6. review' \in [ClusterIds -> AtMostOne(ReviewRow)]
  <2>1. review \in [ClusterIds -> AtMostOne(ReviewRow)]
    BY DEF Types
  <2>2. ASSUME NEW r \in Runs, NEW c \in ClusterIds, CriticReview(r, c)
        PROVE  UNCHANGED review \/ \E row \in ReviewRow : review' = [review EXCEPT ![c] = {row}]
    BY <2>2, CriticReviewIs
  <2> QED
    BY <2>1, <2>2, WhatChanges, OneRow
<1> QED
  BY <1>1, <1>2, <1>3, <1>4, <1>5, <1>6

LEMMA ReportType ==
  ASSUME Types, [Next]_vars
  PROVE  report' \in [Runs -> [clusters : SUBSET ClusterIds, cards : SUBSET ReportRow]]
<1>1. report \in [Runs -> [clusters : SUBSET ClusterIds, cards : SUBSET ReportRow]]
  BY DEF Types
<1>2. ASSUME NEW r \in Runs, RenderReport(r)
      PROVE  report' \in [Runs -> [clusters : SUBSET ClusterIds, cards : SUBSET ReportRow]]
  <2> DEFINE cards == UNION {{[id |-> o, card |-> c, review |-> review[o]] :
                              c \in card[o]} : o \in CardsOf(r)}
  <2>1. ASSUME NEW o \in CardsOf(r), NEW c \in card[o]
        PROVE  [id |-> o, card |-> c, review |-> review[o]] \in ReportRow
    <3>1. o \in ClusterIds
      BY DEF CardsOf
    <3>2. c \in CardRow /\ review[o] \in AtMostOne(ReviewRow)
      BY <3>1, OneRow DEF Types
    <3> QED
      BY <3>1, <3>2 DEF ReportRow
  <2>2. cards \subseteq ReportRow
    BY <2>1
  <2>3. report' = [report EXCEPT ![r] = [clusters |-> ClustersOf(r), cards |-> cards]]
    BY <1>2 DEF RenderReport
  <2> HIDE DEF cards
  <2>4. ClustersOf(r) \subseteq ClusterIds
    BY DEF ClustersOf
  <2> QED
    BY <1>1, <2>2, <2>3, <2>4
<1> QED
  BY <1>1, <1>2, WhatChanges

LEMMA VerificationType ==
  ASSUME Types, [Next]_vars
  PROVE  verification' \in [Runs -> {"none", "PASS", "FAIL", "BLOCKED"}]
<1>1. verification \in [Runs -> {"none", "PASS", "FAIL", "BLOCKED"}]
  BY DEF Types
<1>2. ASSUME NEW r \in Runs, VerifyRun(r)
      PROVE  verification' \in [Runs -> {"none", "PASS", "FAIL", "BLOCKED"}]
  <2>1. \E checks \in BOOLEAN : \E a, c :
          verification' = [verification EXCEPT ![r] = OverallVerdict(checks, a, c)]
    BY <1>2 DEF VerifyRun
  <2> QED
    BY <1>1, <2>1, OverallVerdictIs
<1> QED
  BY <1>1, <1>2, WhatChanges

\* Of what a node has handled, and so of what it returns.
LEMMA ProducedIs ==
  ASSUME Types, Progress, NEW r \in Runs, active = r
  PROVE  LET s == checkpoint[r] IN
         /\ s.next = "classify" => local.produced \subseteq s.accepted
         /\ s.next \in {"propose_clusters", "verify_clusters", "generate_opportunities"}
              => local.produced \subseteq ClusterIds
         /\ s.next = "verify_clusters" => local.produced \subseteq s.clusters
<1>1. checkpoint[r] \in State /\ local.plan \subseteq ClusterIds
  BY DEF Types
<1>2. local.produced \subseteq Work(r)
  BY DEF Progress, Executing
<1>3. checkpoint[r].clusters \subseteq ClusterIds
  BY <1>1 DEF State
<1> HIDE DEF Types, Progress
<1>4. CASE checkpoint[r].next = "classify"
  BY <1>2, <1>4 DEF Work
<1>5. CASE checkpoint[r].next = "propose_clusters"
  BY <1>1, <1>2, <1>5 DEF Work
<1>6. CASE checkpoint[r].next \in {"verify_clusters", "generate_opportunities"}
  BY <1>2, <1>3, <1>6 DEF Work
<1> QED
  BY <1>4, <1>5, <1>6

LEMMA GroupsAreClusters ==
  ASSUME NEW r \in Runs
  PROVE  /\ {{k} : k \in CandidateKeys(r)} \subseteq ClusterIds
         /\ \A p \in Proposals : ValidatedGroups(p, CandidateKeys(r)) \subseteq ClusterIds
<1> DEFINE keys == CandidateKeys(r)
<1>1. keys \subseteq Keys
  BY DEF CandidateKeys
<1> HIDE DEF keys
<1>2. \A p, n : Kept(p, n, keys) \subseteq Keys
  BY <1>1 DEF Kept
<1> QED
  BY <1>1, <1>2 DEF ValidatedGroups, ClusterIds, keys

LEMMA CheckpointType ==
  ASSUME Types, Progress, [Next]_vars
  PROVE  checkpoint' \in [Runs -> State]
<1>1. checkpoint \in [Runs -> State]
  BY DEF Types
<1>2. ASSUME NEW r \in Runs, EndNode(r) PROVE checkpoint' \in [Runs -> State]
  <2> DEFINE s == checkpoint[r]
             t == checkpoint'[r]
  <2>1. /\ active = r /\ s.next \in Nodes /\ t.next = After[s.next]
        /\ t.input = IF s.next = "load_new_evidence" THEN {i \in evidence : i >= Since[r]}
                     ELSE s.input
        /\ t.accepted = IF s.next = "deduplicate" THEN s.input \ DuplicatesIn(s.input)
                        ELSE s.accepted
        /\ t.classified = IF s.next = "classify" THEN local.produced ELSE s.classified
        /\ t.clusters = IF s.next \in {"propose_clusters", "verify_clusters"}
                        THEN local.produced ELSE s.clusters
        /\ t.opps = IF s.next = "generate_opportunities" THEN local.produced ELSE s.opps
        /\ t.errors = s.errors \cup local.errs
        /\ t = [next |-> t.next, input |-> t.input, accepted |-> t.accepted,
                classified |-> t.classified, clusters |-> t.clusters, opps |-> t.opps,
                errors |-> t.errors]
        /\ \A q \in Runs \ {r} : checkpoint'[q] = checkpoint[q]
        /\ DOMAIN checkpoint' = Runs
    BY <1>2, EndNodeIs
  <2>2. s \in State /\ local.errs \subseteq ErrorRow /\ evidence \subseteq Items
    BY DEF Types
  <2>3. /\ s.next = "classify" => local.produced \subseteq s.accepted
        /\ s.next \in {"propose_clusters", "verify_clusters", "generate_opportunities"}
              => local.produced \subseteq ClusterIds
    BY <2>1, ProducedIs
  <2>4. t.next \in Nodes \cup {"end"}
    BY <2>1, NodesAre
  <2> HIDE DEF s, t
  <2>5. /\ t.input \subseteq Items /\ t.accepted \subseteq Items
        /\ t.classified \subseteq Items /\ t.clusters \subseteq ClusterIds
        /\ t.opps \subseteq ClusterIds /\ t.errors \subseteq ErrorRow
    BY <2>1, <2>2, <2>3 DEF State
  <2>6. t \in State
    BY <2>1, <2>4, <2>5 DEF State
  <2>7. \A q \in Runs : checkpoint'[q] \in State
    BY <1>1, <2>1, <2>6 DEF t
  <2>8. checkpoint' = [q \in Runs |-> checkpoint'[q]]
    BY <1>2, <1>1 DEF EndNode
  <2> QED
    BY <2>7, <2>8
<1> QED
  BY <1>1, <1>2, WhatChanges

LEMMA LocalType ==
  ASSUME Types, [Next]_vars
  PROVE  /\ local' = Local(local'.handled, local'.produced, local'.errs, local'.plan,
                           local'.planned, local'.stopped)
         /\ local'.planned \in BOOLEAN /\ local'.stopped \in BOOLEAN
         /\ local'.plan \subseteq ClusterIds /\ local'.errs \subseteq ErrorRow
<1> DEFINE Goal ==
      /\ local' = Local(local'.handled, local'.produced, local'.errs, local'.plan,
                        local'.planned, local'.stopped)
      /\ local'.planned \in BOOLEAN /\ local'.stopped \in BOOLEAN
      /\ local'.plan \subseteq ClusterIds /\ local'.errs \subseteq ErrorRow
<1>1. /\ local.planned \in BOOLEAN /\ local.stopped \in BOOLEAN
      /\ local.plan \subseteq ClusterIds /\ local.errs \subseteq ErrorRow
      /\ local = Local(local.handled, local.produced, local.errs, local.plan,
                       local.planned, local.stopped)
  BY DEF Types
<1>2. \A h, p, e, g, d, x : d \in BOOLEAN /\ x \in BOOLEAN /\ g \subseteq ClusterIds
        /\ e \subseteq ErrorRow /\ local' = Local(h, p, e, g, d, x) => Goal
  BY DEF Local
<1> HIDE DEF Goal
<1>3. ASSUME local' = Fresh PROVE Goal
  <2>1. /\ local'.handled = {} /\ local'.produced = {} /\ local'.errs = {}
        /\ local'.plan = {} /\ local'.planned = FALSE /\ local'.stopped = FALSE
    BY <1>3 DEF Fresh
  <2>2. local' = Local(local'.handled, local'.produced, local'.errs, local'.plan,
                       local'.planned, local'.stopped)
    BY <1>3 DEF Fresh, Local
  <2> QED
    BY <2>1, <2>2 DEF Goal
<1>4. ASSUME UNCHANGED local PROVE Goal
  BY <1>1, <1>2, <1>4
<1>5. ASSUME NEW r \in Runs, LoopStep(r) \/ ReportStep(r) PROVE Goal
  <2>1. checkpoint[r].next \in Nodes
    BY <1>5, LoopIs
  <2>2. ASSUME NEW x, local' = Local(local.handled \cup {x}, local.produced \cup {x},
                                     local.errs, local.plan, local.planned, local.stopped)
        PROVE  Goal
    BY <1>1, <1>2, <2>2
  <2>3. ASSUME NEW x, NEW f \in Failures, CallFails(r, x, f) PROVE Goal
    <3> DEFINE error == [node |-> checkpoint[r].next, blocked |-> f # "invalid"]
               stop == f = "systemic"
    <3>1. error \in ErrorRow
      BY <2>1 DEF ErrorRow
    <3>2. local' = Local(local.handled \cup {x}, local.produced, local.errs \cup {error},
                         local.plan, local.planned, stop)
      BY <2>3, CallFailsIs
    <3>3. stop \in BOOLEAN
      OBVIOUS
    <3> HIDE DEF error, stop
    <3>4. local.errs \cup {error} \subseteq ErrorRow
      BY <1>1, <3>1
    <3> QED
      BY <1>1, <1>2, <3>2, <3>3, <3>4
  <2>4. ASSUME ProposeGroups(r) PROVE Goal
    <3>1. PICK groups, errs :
            /\ local' = Local(local.handled, local.produced, errs, groups, TRUE, local.stopped)
            /\ (groups = {} /\ CandidateKeys(r) = {}) \/ groups = {{k} : k \in CandidateKeys(r)}
                 \/ \E p \in Proposals : groups = ValidatedGroups(p, CandidateKeys(r))
            /\ errs \subseteq {[node |-> "propose_clusters", blocked |-> FALSE]}
      BY <2>4, PlanIs
    <3>2. {[node |-> "propose_clusters", blocked |-> FALSE]} \subseteq ErrorRow
      BY NodesAre DEF ErrorRow
    <3>3. groups \subseteq ClusterIds
      BY <3>1, GroupsAreClusters
    <3>4. errs \subseteq ErrorRow
      BY <3>1, <3>2
    <3>5. TRUE \in BOOLEAN
      OBVIOUS
    <3> QED
      BY <1>1, <1>2, <3>1, <3>3, <3>4, <3>5, Zenon
  <2> QED
    BY <1>5, <2>2, <2>3, <2>4, LoopIs
<1>6. \A r \in Runs : Invoke(r) \/ EndNode(r) => local' = Fresh
  BY DEF Invoke, EndNode
<1>7. Crash => local' = Fresh
  BY DEF Crash
<1>8. Goal
  BY <1>3, <1>4, <1>5, <1>6, <1>7, WhatChanges DEF RunStep
<1> QED
  BY <1>8 DEF Goal

LEMMA TypesStep ==
  ASSUME Types, Progress, [Next]_vars
  PROVE  Types'
<1>1. critic' \in [Runs -> Critics]
  BY WhatChanges DEF Types
<1>2. active' \in Runs \cup {NoRun}
  BY WhatChanges DEF Types, Invoke, EndNode, Crash
<1>3. crashes' \in 0 .. MaxCrashes
  BY WhatChanges, RunsAssumption DEF Types
<1> QED
  BY <1>1, <1>2, <1>3, StoreTypes, ReportType, VerificationType, CheckpointType, LocalType
     DEF Types

----------------------------------------------------------------------------
(* Progress *)

LEMMA ReviewsStay ==
  ASSUME Types, [Next]_vars, NEW o \in ClusterIds, review[o] # {}
  PROVE  review'[o] # {}
<1>1. review \in [ClusterIds -> AtMostOne(ReviewRow)]
  BY DEF Types
<1>2. ASSUME NEW r \in Runs, NEW c \in ClusterIds, CriticReview(r, c)
      PROVE  UNCHANGED review \/ \E row : review' = [review EXCEPT ![c] = {row}]
  BY <1>2, CriticReviewIs
<1> QED
  BY <1>1, <1>2, WhatChanges

LEMMA WorkKept ==
  ASSUME UNCHANGED <<checkpoint, critic>>, NEW r \in Runs,
         local'.plan = local.plan \/ checkpoint[r].next # "propose_clusters"
  PROVE  Work(r)' = Work(r)
<1>1. CASE local'.plan = local.plan
  BY <1>1 DEF Work
<1>2. CASE checkpoint[r].next # "propose_clusters"
  BY <1>2 DEF Work
<1> QED
  BY <1>1, <1>2

LEMMA LoopProgress ==
  ASSUME Types, Progress, [Next]_vars, NEW r \in Runs, LoopStep(r) \/ ReportStep(r)
  PROVE  Executing(r)'
<1>1. /\ active = r /\ UNCHANGED <<checkpoint, critic>> /\ Executing(r)
  BY LoopIs, WhatChanges DEF Progress
<1>2. checkpoint[r].next = "critic_review" =>
        \A o \in local.produced : o \in ClusterIds /\ review'[o] # {}
  <2>1. checkpoint[r].next = "critic_review" => Work(r) \subseteq ClusterIds
    BY DEF Types, State, Work
  <2> QED
    BY <1>1, <2>1, ReviewsStay DEF Executing
<1>3. ASSUME NEW x \in Pending(r),
             local' = Local(local.handled \cup {x}, local.produced \cup {x}, local.errs,
                            local.plan, local.planned, local.stopped),
             checkpoint[r].next = "critic_review" => review'[x] # {}
      PROVE  Executing(r)'
  <2>1. /\ local'.handled = local.handled \cup {x} /\ local'.errs = local.errs
        /\ local'.produced = local.produced \cup {x} /\ local'.plan = local.plan
        /\ local'.planned = local.planned /\ local'.stopped = local.stopped
    BY <1>3 DEF Local
  <2>2. Work(r)' = Work(r) /\ x \in Work(r)
    BY <1>1, <1>3, <2>1, WorkKept DEF Pending
  <2> QED
    BY <1>1, <1>2, <1>3, <2>1, <2>2 DEF Executing
<1>4. ASSUME NEW x \in Pending(r), NEW f \in Failures, CallFails(r, x, f),
             checkpoint[r].next \in CallingNodes
      PROVE  Executing(r)'
  <2> DEFINE error == [node |-> checkpoint[r].next, blocked |-> f # "invalid"]
  <2>1. error.node = checkpoint[r].next
    OBVIOUS
  <2>2. local' = Local(local.handled \cup {x}, local.produced, local.errs \cup {error},
                       local.plan, local.planned, f = "systemic")
    BY <1>4, CallFailsIs
  <2> HIDE DEF error
  <2>3. /\ local'.handled = local.handled \cup {x} /\ local'.errs = local.errs \cup {error}
        /\ local'.produced = local.produced /\ local'.plan = local.plan
        /\ local'.planned = local.planned
    BY <2>2 DEF Local
  <2>4. Work(r)' = Work(r) /\ x \in Work(r)
    BY <1>1, <1>4, <2>3, WorkKept DEF Pending, CallingNodes
  <2> QED
    BY <1>1, <1>2, <1>4, <2>1, <2>3, <2>4 DEF Executing
<1>5. ASSUME ProposeGroups(r) PROVE Executing(r)'
  <2>1. PICK groups, errs :
          /\ local' = Local(local.handled, local.produced, errs, groups, TRUE, local.stopped)
          /\ errs \subseteq {[node |-> "propose_clusters", blocked |-> FALSE]}
    BY <1>5, PlanIs
  <2>2. /\ local'.handled = local.handled /\ local'.errs = errs /\ local'.planned
        /\ local'.produced = local.produced /\ local'.stopped = local.stopped
    BY <2>1 DEF Local
  <2>3. checkpoint[r].next = "propose_clusters" /\ ~local.planned
    BY <1>5 DEF ProposeGroups, At
  <2>4. local.handled = {} /\ local.produced = {}
    BY <1>1, <2>3 DEF Executing, Work, CallingNodes
  <2>5. \A e \in errs : e.node = "propose_clusters"
    BY <2>1
  <2> QED
    BY <1>1, <2>2, <2>3, <2>4, <2>5 DEF Executing, CallingNodes
<1> QED
  BY <1>3, <1>4, <1>5, LoopIs

LEMMA StartingProgress ==
  ASSUME NEW r \in Runs, local' = Fresh, checkpoint'[r].next # "end"
  PROVE  Executing(r)'
<1>1. /\ local'.handled = {} /\ local'.produced = {} /\ local'.errs = {}
      /\ local'.plan = {} /\ ~local'.stopped
  BY DEF Fresh
<1> QED
  BY <1>1 DEF Executing

LEMMA ProgressStep ==
  ASSUME Types, Progress, [Next]_vars
  PROVE  Progress'
<1>1. CASE UNCHANGED <<active, local, checkpoint>>
  <2>1. ASSUME NEW r \in Runs, active = r PROVE Executing(r)'
    <3>1. Executing(r) /\ UNCHANGED critic
      BY <2>1, WhatChanges DEF Progress
    <3>2. Work(r)' = Work(r)
      BY <1>1, <3>1, WorkKept
    <3>3. checkpoint[r].next = "critic_review" =>
            \A o \in local.produced : review'[o] # {}
      <4>1. checkpoint[r].next = "critic_review" => Work(r) \subseteq ClusterIds
        BY DEF Types, State, Work
      <4> QED
        BY <3>1, <4>1, ReviewsStay DEF Executing
    <3> QED
      BY <1>1, <3>1, <3>2, <3>3 DEF Executing
  <2> QED
    BY <1>1, <2>1 DEF Progress
<1>2. ASSUME NEW r \in Runs, Invoke(r) PROVE Progress'
  <2>1. /\ active' = r /\ local' = Fresh /\ checkpoint' = checkpoint
        /\ checkpoint[r].next # "end"
    BY <1>2 DEF Invoke, directory
  <2> QED
    BY <2>1, StartingProgress DEF Progress
<1>3. CASE Crash
  BY <1>3, RunsAssumption DEF Crash, Progress
<1>4. ASSUME NEW r \in Runs, EndNode(r) PROVE Progress'
  <2>1. /\ local' = Fresh
        /\ active' = IF checkpoint[r].next = "verify_run" THEN NoRun ELSE r
        /\ checkpoint'[r].next = After[checkpoint[r].next] /\ checkpoint[r].next \in Nodes
    BY <1>4, EndNodeIs
  <2>2. checkpoint[r].next # "verify_run" => checkpoint'[r].next # "end"
    BY <2>1, NodesAre
  <2> QED
    BY <2>1, <2>2, StartingProgress, RunsAssumption DEF Progress
<1>5. ASSUME NEW r \in Runs, LoopStep(r) \/ ReportStep(r) PROVE Progress'
  <2>1. active' = r
    BY <1>5, LoopIs
  <2> QED
    BY <1>5, <2>1, LoopProgress, RunsAssumption DEF Progress
<1>6. (\E i \in Items : Ingest(i)) \/ UNCHANGED vars => UNCHANGED <<active, local, checkpoint>>
  BY DEF Ingest, vars, directory
<1> QED
  BY <1>1, <1>2, <1>3, <1>4, <1>5, <1>6 DEF Next, RunStep

----------------------------------------------------------------------------
(* What a run has lost on its way *)

\* A node that has recorded no error has lost nothing.
LEMMA EndedNodeIs ==
  ASSUME Types, Progress, NEW r \in Runs, EndNode(r)
  PROVE  /\ \A node : node = checkpoint[r].next =>
              local.produced = Work(r) \/ Reported(r, node)'
         /\ \A node : Reported(r, node) => Reported(r, node)'
         /\ checkpoint[r].next = "critic_review" => \A o \in local.produced : review[o] # {}
<1>1. /\ checkpoint'[r].errors = checkpoint[r].errors \cup local.errs
      /\ Executing(r) /\ Pending(r) = {}
  BY EndNodeIs DEF EndNode, Progress
<1>2. ASSUME NEW node, node = checkpoint[r].next, local.errs # {}
      PROVE  Reported(r, node)'
  <2>1. PICK e \in local.errs : e.node = node
    BY <1>1, <1>2 DEF Executing
  <2> QED
    BY <1>1, <2>1 DEF Reported
<1>3. local.errs = {} => local.produced = Work(r)
  BY <1>1 DEF Executing, Pending
<1>4. \A node : Reported(r, node) => Reported(r, node)'
  BY <1>1 DEF Reported
<1> QED
  BY <1>1, <1>2, <1>3, <1>4 DEF Executing

\* The stages of the nodes.
LEMMA StagesAre ==
  ASSUME NEW n \in Nodes
  PROVE  /\ n = "deduplicate" <=> n \in Unsorted /\ After[n] \notin Unsorted
         /\ n = "classify" <=> n \in Unclassified /\ After[n] \notin Unclassified
         /\ n = "generate_opportunities" <=> n \notin Generated /\ After[n] \in Generated
         /\ n = "critic_review" <=> n \notin Criticised /\ After[n] \in Criticised
         /\ After[n] \in Unsorted => n \in Unsorted
         /\ After[n] \in Unclassified => n \in Unclassified
         /\ n \in Generated => After[n] \in Generated
         /\ n \in Criticised => After[n] \in Criticised
         /\ n \in Generated => n \notin {"load_new_evidence", "deduplicate", "classify",
                                "propose_clusters", "verify_clusters",
                                "generate_opportunities"}
         /\ Unloaded \subseteq Unsorted /\ Unsorted \subseteq Unclassified
         /\ Criticised \subseteq Generated /\ Generated \cap Unclassified = {}
         /\ n = "load_new_evidence" => After[n] \in Unsorted
         /\ n \in {"propose_clusters", "verify_clusters"} =>
              n \notin Unclassified /\ After[n] \notin Generated
         /\ n = "classify" => n \notin Unsorted
         /\ n = "critic_review" => n \in Generated
  BY NodesAre DEF Unloaded, Unsorted, Unclassified, Generated, Criticised

LEMMA EndNodeStage ==
  ASSUME Types, Progress, NEW r \in Runs, EndNode(r), StageOf(r), UNCHANGED critic
  PROVE  StageOf(r)'
<1> DEFINE s == checkpoint[r]
           t == checkpoint'[r]
<1>1. /\ active = r /\ s.next \in Nodes /\ t.next = After[s.next]
      /\ t.input = IF s.next = "load_new_evidence" THEN {i \in evidence : i >= Since[r]}
                   ELSE s.input
      /\ t.accepted = IF s.next = "deduplicate" THEN s.input \ DuplicatesIn(s.input)
                      ELSE s.accepted
      /\ t.classified = IF s.next = "classify" THEN local.produced ELSE s.classified
      /\ t.clusters = IF s.next \in {"propose_clusters", "verify_clusters"}
                      THEN local.produced ELSE s.clusters
      /\ t.opps = IF s.next = "generate_opportunities" THEN local.produced ELSE s.opps
  BY EndNodeIs
<1>2. UNCHANGED review
  BY EndNodeIs DEF store
<1>3. /\ s.next \in Unsorted => s.accepted = {}
      /\ s.next \notin Unsorted => s.accepted = s.input \ DuplicatesIn(s.input)
      /\ s.next \in Unclassified => s.classified = {}
      /\ s.next \notin Unclassified /\ s.accepted # s.classified => Reported(r, "classify")
      /\ s.classified \subseteq s.accepted
      /\ s.next \in Generated /\ s.clusters # s.opps => Reported(r, "generate_opportunities")
      /\ s.next \in Criticised /\ critic[r] = "agent" /\ (\E o \in s.opps : review[o] = {})
           => Reported(r, "critic_review")
  BY DEF StageOf
<1>4. /\ s.next = "classify" =>
           local.produced \subseteq s.accepted
             /\ (local.produced = s.accepted \/ Reported(r, "classify")')
      /\ s.next = "generate_opportunities" =>
           local.produced = s.clusters \/ Reported(r, "generate_opportunities")'
      /\ s.next = "critic_review" /\ critic[r] = "agent" =>
           local.produced = s.opps \/ Reported(r, "critic_review")'
  BY <1>1, EndedNodeIs, ProducedIs DEF Work
<1>5. /\ \A node : Reported(r, node) => Reported(r, node)'
      /\ s.next = "critic_review" => \A o \in local.produced : review[o] # {}
  BY EndedNodeIs
<1> HIDE DEF s, t
<1>6. /\ t.next \in Unsorted => t.accepted = {}
      /\ t.next \notin Unsorted => t.accepted = t.input \ DuplicatesIn(t.input)
  BY <1>1, <1>3, StagesAre
<1>7. /\ t.next \in Unclassified => t.classified = {}
      /\ t.next \notin Unclassified /\ t.accepted # t.classified => Reported(r, "classify")'
      /\ t.classified \subseteq t.accepted
  BY <1>1, <1>3, <1>4, <1>5, StagesAre
<1>8. t.next \in Generated /\ t.clusters # t.opps => Reported(r, "generate_opportunities")'
  BY <1>1, <1>3, <1>4, <1>5, StagesAre
<1>9. t.next \in Criticised /\ critic[r] = "agent" /\ (\E o \in t.opps : review[o] = {})
        => Reported(r, "critic_review")'
  BY <1>1, <1>3, <1>4, <1>5, StagesAre
<1> QED
  BY <1>2, <1>6, <1>7, <1>8, <1>9 DEF StageOf, t

LEMMA StagesStep ==
  ASSUME Types, Progress, Stages, [Next]_vars
  PROVE  Stages'
<1> SUFFICES ASSUME NEW r \in Runs PROVE StageOf(r)'
  BY DEF Stages
<1>1. StageOf(r) /\ UNCHANGED critic
  BY WhatChanges DEF Stages
<1>2. CASE EndNode(r)
  BY <1>1, <1>2, EndNodeStage
<1>3. CASE checkpoint'[r] = checkpoint[r]
  <2>1. checkpoint[r].opps \subseteq ClusterIds
    BY DEF Types, State
  <2>2. \A o \in checkpoint[r].opps : review[o] # {} => review'[o] # {}
    BY <2>1, ReviewsStay
  <2>3. \A node : Reported(r, node)' <=> Reported(r, node)
    BY <1>3 DEF Reported
  <2> QED
    BY <1>1, <1>3, <2>2, <2>3 DEF StageOf
<1>4. ASSUME NEW q \in Runs \ {r}, EndNode(q) PROVE checkpoint'[r] = checkpoint[r]
  BY <1>4, EndNodeIs
<1> QED
  BY <1>2, <1>3, <1>4, WhatChanges

----------------------------------------------------------------------------
(* What counts *)

\* Links are never taken back, so what counts of a set of members only shrinks.
LEMMA LinksStay ==
  ASSUME Types, [Next]_vars, NEW members \in SUBSET Items
  PROVE  \A l : l = link' =>
           CanonicalMembers(members, l) \subseteq CanonicalMembers(members, link)
<1>1. link \in [Items -> Items \cup {NoLink}]
  BY DEF Types
<1>2. NoLink \notin Items
  BY ItemsAssumption DEF NoLink
<1>3. \A i \in Items : link'[i] = NoLink => link[i] = NoLink
  <2>1. ASSUME NEW r \in Runs, NEW i \in Items, Deduplicate(r, i)
        PROVE  \E j \in Items : link' = [link EXCEPT ![i] = j]
    BY <2>1, DeduplicateIs
  <2> QED
    BY <1>1, <1>2, <2>1, WhatChanges
<1> QED
  BY <1>3 DEF CanonicalMembers

Counted(members) == Independent(CanonicalMembers(members, link))

LEMMA CountedStays ==
  ASSUME Types, [Next]_vars, NEW members \in SUBSET Items, Counted(members)
  PROVE  Counted(members)'
  BY LinksStay, FewerAreIndependent DEF Counted

LEMMA ProposedIsCounted ==
  ASSUME Types, Stages, NEW r \in Runs, NEW c \in ClusterIds, ProposeCluster(r, c),
         NEW members, members = UNION {ItemsOfKey(r, k) : k \in c}
  PROVE  Counted(members)
<1> DEFINE s == checkpoint[r]
<1>1. s.next = "propose_clusters"
  BY DEF ProposeCluster, At
<1>2. s.input \in SUBSET Items /\ s.classified \subseteq s.input \ DuplicatesIn(s.input)
  BY <1>1 DEF Types, State, Stages, StageOf, Unsorted, Unloaded
<1>3. CanonicalMembers(members, link) \subseteq s.input \ DuplicatesIn(s.input)
  BY <1>2 DEF ItemsOfKey, CanonicalMembers
<1> QED
  BY <1>2, <1>3, CanonicalsAreIndependent, FewerAreIndependent DEF Counted

\* Duplicates that join a cluster do not count: they have a link.
LEMMA VerifiedIsCounted ==
  ASSUME Types, NEW members \in SUBSET Items, Counted(members), NEW more,
         more = (members \cap evidence)
                  \cup {i \in evidence : link[i] \in members \cap evidence}
  PROVE  Counted(more)
<1>1. NoLink \notin Items
  BY ItemsAssumption DEF NoLink
<1>2. CanonicalMembers(more, link) \subseteq CanonicalMembers(members, link)
  BY <1>1 DEF CanonicalMembers
<1> QED
  BY <1>2, FewerAreIndependent DEF Counted

ClustersCounted == \A k \in ClusterIds : \A row \in cluster[k] : Counted(row.members)
CardsCounted == \A k \in ClusterIds : \A row \in card[k] : Counted(row.evidence)

LEMMA CountedOnceIs == CountedOnce <=> ClustersCounted /\ CardsCounted
  BY DEF CountedOnce, ClustersCounted, CardsCounted, Counted

LEMMA MembersAreItems ==
  ASSUME Types, NEW k \in ClusterIds
  PROVE  /\ \A row \in cluster[k] : row \in ClusterRow /\ row.members \in SUBSET Items
         /\ \A row \in card[k] : row \in CardRow /\ row.evidence \in SUBSET Items
<1>1. cluster[k] \in AtMostOne(ClusterRow) /\ card[k] \in AtMostOne(CardRow)
  BY DEF Types
<1>2. /\ \A row \in ClusterRow : row.members \in SUBSET Items
      /\ \A row \in CardRow : row.evidence \in SUBSET Items
  BY DEF ClusterRow, CardRow
<1> QED
  BY <1>1, <1>2, OneRow

LEMMA ClustersCountedStep ==
  ASSUME Types, Stages, ClustersCounted, [Next]_vars
  PROVE  ClustersCounted'
<1>1. cluster \in [ClusterIds -> AtMostOne(ClusterRow)]
  BY DEF Types
<1>2. ASSUME NEW k \in ClusterIds, NEW row \in cluster[k] PROVE Counted(row.members)'
  <2>1. \A m : m = row.members => Counted(m)'
    BY <1>2, MembersAreItems, CountedStays DEF ClustersCounted
  <2> QED
    BY <2>1
<1>3. ASSUME NEW r \in Runs, NEW c \in ClusterIds, ProposeCluster(r, c) \/ VerifyCluster(r, c)
      PROVE  \E row \in ClusterRow :
               cluster' = [cluster EXCEPT ![c] = {row}] /\ Counted(row.members)'
  <2>1. ASSUME ProposeCluster(r, c)
        PROVE  \E row \in ClusterRow :
                 cluster' = [cluster EXCEPT ![c] = {row}] /\ Counted(row.members)
    BY <2>1, ProposeClusterIs, ProposedIsCounted
  <2>2. ASSUME VerifyCluster(r, c)
        PROVE  \E row \in ClusterRow :
                 cluster' = [cluster EXCEPT ![c] = {row}] /\ Counted(row.members)
    <3>1. PICK old \in cluster[c], row \in ClusterRow :
            /\ cluster' = [cluster EXCEPT ![c] = {row}]
            /\ row.members = (old.members \cap evidence)
                 \cup {i \in evidence : link[i] \in old.members \cap evidence}
      BY <2>2, VerifyClusterIs
    <3>2. old.members \in SUBSET Items /\ Counted(old.members)
      BY MembersAreItems DEF ClustersCounted
    <3> QED
      BY <3>1, <3>2, VerifiedIsCounted
  <2>3. PICK row \in ClusterRow :
          cluster' = [cluster EXCEPT ![c] = {row}] /\ Counted(row.members)
    BY <1>3, <2>1, <2>2
  <2>4. row.members \in SUBSET Items
    BY DEF ClusterRow
  <2> QED
    BY <2>3, <2>4, CountedStays
<1>4. CASE UNCHANGED cluster
  BY <1>2, <1>4 DEF ClustersCounted
<1>5. CASE \E r \in Runs, c \in ClusterIds : ProposeCluster(r, c) \/ VerifyCluster(r, c)
  BY <1>1, <1>2, <1>3, <1>5 DEF ClustersCounted
<1> QED
  BY <1>4, <1>5, WhatChanges

LEMMA CardsCountedStep ==
  ASSUME Types, ClustersCounted, CardsCounted, [Next]_vars
  PROVE  CardsCounted'
<1>1. card \in [ClusterIds -> AtMostOne(CardRow)]
  BY DEF Types
<1>2. ASSUME NEW k \in ClusterIds, NEW row \in card[k] PROVE Counted(row.evidence)'
  BY <1>2, MembersAreItems, CountedStays DEF CardsCounted
<1>3. ASSUME NEW r \in Runs, NEW c \in ClusterIds,
             GenerateOpportunity(r, c) \/ JudgeOpportunity(r, c)
      PROVE  \/ UNCHANGED card
             \/ \E row \in CardRow :
                  card' = [card EXCEPT ![c] = {row}] /\ Counted(row.evidence)'
  <2>1. \/ UNCHANGED card
        \/ \E row \in CardRow :
              card' = [card EXCEPT ![c] = {row}] /\ Counted(row.evidence)
    BY <1>3, GenerateIs, JudgeIs DEF ClustersCounted, CardsCounted
  <2>2. \A row \in CardRow : row.evidence \in SUBSET Items
    BY DEF CardRow
  <2> QED
    BY <2>1, <2>2, CountedStays
<1>4. CASE UNCHANGED card
  BY <1>2, <1>4 DEF CardsCounted
<1>5. CASE \E r \in Runs, c \in ClusterIds :
             GenerateOpportunity(r, c) \/ JudgeOpportunity(r, c)
  BY <1>1, <1>2, <1>3, <1>5 DEF CardsCounted
<1> QED
  BY <1>4, <1>5, WhatChanges

----------------------------------------------------------------------------
(* What the numbers rest on *)

LEMMA NothingSupportsZero == \A items : Supported(items, 0, 0)
<1>1. Cardinality({AuthorOf[i] : i \in {}}) = 0 /\ Cardinality({FamilyOf[i] : i \in {}}) = 0
  BY FS_EmptySet
<1>2. Independent({})
  BY DEF Independent
<1> QED
  BY <1>1, <1>2 DEF Supported

LEMMA CountedIsSupported ==
  ASSUME NEW members, Counted(members)
  PROVE  Supported(members, UniqueAuthors(members, link), SourceFamilies(members, link))
<1>1. CanonicalMembers(members, link) \in SUBSET members
  BY DEF CanonicalMembers
<1> QED
  BY <1>1 DEF Supported, Counted, UniqueAuthors, SourceFamilies

\* The evidence for a number does not depend on the state.
LEMMA SupportStays ==
  \A items, authors, families :
    Supported(items, authors, families) <=> Supported(items, authors, families)'
  BY DEF Supported, Independent, Reposts

ClustersSupported == \A k \in ClusterIds : \A row \in cluster[k] :
  Supported(row.members, row.authors, row.families)
CardsSupported == \A k \in ClusterIds : \A row \in card[k] :
  Supported(row.evidence, row.authors, row.families)

LEMMA RowsSupportedIs == RowsSupported <=> ClustersSupported /\ CardsSupported
  BY DEF RowsSupported, ClustersSupported, CardsSupported

LEMMA ClustersSupportedStep ==
  ASSUME Types, ClustersCounted, ClustersSupported, [Next]_vars
  PROVE  ClustersSupported'
<1>1. cluster \in [ClusterIds -> AtMostOne(ClusterRow)]
  BY DEF Types
<1>2. ASSUME NEW r \in Runs, NEW c \in ClusterIds, ProposeCluster(r, c) \/ VerifyCluster(r, c)
      PROVE  \E row \in ClusterRow :
               /\ cluster' = [cluster EXCEPT ![c] = {row}]
               /\ Supported(row.members, row.authors, row.families)'
  <2>1. CASE ProposeCluster(r, c)
    BY <2>1, ProposeClusterIs, NothingSupportsZero, SupportStays
  <2>2. CASE VerifyCluster(r, c)
    <3>1. PICK old \in cluster[c], row \in ClusterRow :
            /\ cluster' = [cluster EXCEPT ![c] = {row}]
            /\ row.members = (old.members \cap evidence)
                 \cup {i \in evidence : link[i] \in old.members \cap evidence}
            /\ row.authors = UniqueAuthors(row.members, link)
            /\ row.families = SourceFamilies(row.members, link)
      BY <2>2, VerifyClusterIs
    <3>2. old.members \in SUBSET Items /\ Counted(old.members)
      BY MembersAreItems DEF ClustersCounted
    <3>3. Counted(row.members)
      BY <3>1, <3>2, VerifiedIsCounted
    <3>4. Supported(row.members, row.authors, row.families)
      BY <3>1, <3>3, CountedIsSupported
    <3> QED
      BY <3>1, <3>4, SupportStays
  <2> QED
    BY <1>2, <2>1, <2>2
<1>3. \A k \in ClusterIds : \A row \in cluster[k] :
        Supported(row.members, row.authors, row.families)'
  BY SupportStays DEF ClustersSupported
<1>4. CASE UNCHANGED cluster
  BY <1>4, <1>3 DEF ClustersSupported
<1>5. CASE \E r \in Runs, c \in ClusterIds : ProposeCluster(r, c) \/ VerifyCluster(r, c)
  BY <1>1, <1>2, <1>5, <1>3 DEF ClustersSupported
<1> QED
  BY <1>4, <1>5, WhatChanges

LEMMA CardsSupportedStep ==
  ASSUME Types, ClustersSupported, CardsSupported, [Next]_vars
  PROVE  CardsSupported'
<1>1. card \in [ClusterIds -> AtMostOne(CardRow)]
  BY DEF Types
<1>2. ASSUME NEW r \in Runs, NEW c \in ClusterIds,
             GenerateOpportunity(r, c) \/ JudgeOpportunity(r, c)
      PROVE  \/ UNCHANGED card
             \/ \E row \in CardRow :
                  /\ card' = [card EXCEPT ![c] = {row}]
                  /\ Supported(row.evidence, row.authors, row.families)'
  BY <1>2, GenerateIs, JudgeIs, SupportStays DEF ClustersSupported, CardsSupported
<1>3. \A k \in ClusterIds : \A row \in card[k] :
        Supported(row.evidence, row.authors, row.families)'
  BY SupportStays DEF CardsSupported
<1>4. CASE UNCHANGED card
  BY <1>4, <1>3 DEF CardsSupported
<1>5. CASE \E r \in Runs, c \in ClusterIds :
             GenerateOpportunity(r, c) \/ JudgeOpportunity(r, c)
  BY <1>1, <1>2, <1>5, <1>3 DEF CardsSupported
<1> QED
  BY <1>4, <1>5, WhatChanges

----------------------------------------------------------------------------
(* The theorems that hold of any number of runs *)

LEMMA InitHolds == Init => IInv
<1> SUFFICES ASSUME Init PROVE IInv
  OBVIOUS
<1>1. \A k \in ClusterIds : cluster[k] = {} /\ card[k] = {} /\ review[k] = {}
  BY DEF Init
<1>2. InitialState \in State
  BY NodesAre DEF InitialState, State
<1>3. /\ local.planned \in BOOLEAN /\ local.stopped \in BOOLEAN /\ local.plan = {}
      /\ local.errs = {} /\ active = NoRun /\ local = Fresh
  BY DEF Init, Fresh
<1>4. local = Local(local.handled, local.produced, local.errs, local.plan,
                    local.planned, local.stopped)
  BY <1>3 DEF Fresh, Local
<1>5. /\ evidence \subseteq Items /\ link \in [Items -> Items \cup {NoLink}]
      /\ classification \in [Items -> AtMostOne(Labels)]
      /\ cluster \in [ClusterIds -> AtMostOne(ClusterRow)]
      /\ card \in [ClusterIds -> AtMostOne(CardRow)]
      /\ review \in [ClusterIds -> AtMostOne(ReviewRow)]
  BY RunsAssumption, OneRow DEF Init
<1>6. /\ critic \in [Runs -> Critics] /\ checkpoint \in [Runs -> State]
      /\ verification \in [Runs -> {"none", "PASS", "FAIL", "BLOCKED"}]
      /\ crashes \in 0 .. MaxCrashes
  BY <1>2, RunsAssumption DEF Init
<1>7. report \in [Runs -> [clusters : SUBSET ClusterIds, cards : SUBSET ReportRow]]
  <2>1. NoReport \in [clusters : SUBSET ClusterIds, cards : SUBSET ReportRow]
    BY DEF NoReport
  <2> QED
    BY <2>1 DEF Init
<1>8. Types
  BY <1>3, <1>4, <1>5, <1>6, <1>7 DEF Types
<1>9. Progress
  BY <1>3, RunsAssumption DEF Progress
<1>10. Stages
  BY DEF Init, InitialState, Stages, StageOf, Unloaded, Unsorted, Unclassified, Generated,
     Criticised
<1> QED
  BY <1>1, <1>8, <1>9, <1>10 DEF IInv, CountedOnce, RowsSupported

LEMMA StepKeepsIInv == IInv /\ [Next]_vars => IInv'
<1> SUFFICES ASSUME IInv, [Next]_vars PROVE IInv'
  OBVIOUS
<1>1. /\ Types /\ Progress /\ Stages /\ ClustersCounted /\ CardsCounted
      /\ ClustersSupported /\ CardsSupported
  BY CountedOnceIs, RowsSupportedIs DEF IInv
<1>2. /\ Types' /\ Progress' /\ Stages' /\ ClustersCounted' /\ CardsCounted'
      /\ ClustersSupported' /\ CardsSupported'
  BY <1>1, TypesStep, ProgressStep, StagesStep, ClustersCountedStep, CardsCountedStep,
     ClustersSupportedStep, CardsSupportedStep
<1>3. CountedOnce'
  BY <1>2, CountedOnceIs, PTL
<1>4. RowsSupported'
  BY <1>2, RowsSupportedIs, PTL
<1> QED
  BY <1>2, <1>3, <1>4 DEF IInv

\* What is in the store, the checkpoints and the local variables of a node follows
\* from the order of the nodes, whatever the agents answer, whichever runs take turns
\* and wherever an invocation is killed.
THEOREM PipelineInvariant == Spec => []IInv
  BY InitHolds, StepKeepsIInv, PTL DEF Spec

\* Rows, files and local variables hold values of their kinds (TypeOK).
THEOREM TypeCorrect == Spec => []TypeOK
<1>1. IInv => TypeOK
  <2> SUFFICES ASSUME IInv PROVE TypeOK
    OBVIOUS
  <2>1. Types /\ Stages
    BY DEF IInv
  <2>2. \A k \in ClusterIds :
          /\ \A row \in cluster[k] : row \in ClusterRow /\ cluster[k] = {row}
          /\ \A row \in card[k] : row \in CardRow /\ card[k] = {row}
          /\ \A row \in review[k] : row \in ReviewRow /\ review[k] = {row}
    <3> SUFFICES ASSUME NEW k \in ClusterIds
                 PROVE  /\ \A row \in cluster[k] : row \in ClusterRow /\ cluster[k] = {row}
                        /\ \A row \in card[k] : row \in CardRow /\ card[k] = {row}
                        /\ \A row \in review[k] : row \in ReviewRow /\ review[k] = {row}
      OBVIOUS
    <3>1. /\ cluster[k] \in AtMostOne(ClusterRow) /\ card[k] \in AtMostOne(CardRow)
          /\ review[k] \in AtMostOne(ReviewRow)
      BY <2>1 DEF Types
    <3> QED
      BY <3>1, OneRow
  <2>3. /\ evidence \subseteq Items /\ link \in [Items -> Items \cup {NoLink}]
        /\ \A i \in Items : classification[i] \in AtMostOne(Labels)
        /\ critic \in [Runs -> {"agent", "human"}]
        /\ active \in Runs \cup {NoRun} /\ crashes \in 0 .. MaxCrashes
        /\ \A r \in Runs : /\ checkpoint[r] \in State
                           /\ verification[r] \in {"none", "PASS", "FAIL", "BLOCKED"}
    BY <2>1, RunsAssumption DEF Types
  <2>4. \A r \in Runs :
          /\ checkpoint[r].next \in Nodes \cup {"end"}
          /\ checkpoint[r].clusters \cup checkpoint[r].opps \subseteq ClusterIds
    BY <2>3 DEF State
  <2>5. \A r \in Runs : /\ checkpoint[r].accepted \subseteq checkpoint[r].input
                        /\ checkpoint[r].classified \subseteq checkpoint[r].accepted
    BY <2>1 DEF Stages, StageOf
  <2> QED
    BY <2>2, <2>3, <2>4, <2>5 DEF TypeOK
<1> QED
  BY <1>1, PipelineInvariant, PTL

\* A repost is counted once, whatever the order in which items arrive, are linked and
\* clustered, by however many runs (CountedOnce; gather_independence_inputs).
THEOREM RepostsCountOnce == Spec => []CountedOnce
<1>1. IInv => CountedOnce
  BY DEF IInv
<1> QED
  BY <1>1, PipelineInvariant, PTL

\* What a completed run lost on the way shows in its errors (GapsAreReported): the
\* errors of a node that was executed again after a kill are not lost.
THEOREM GapsShow == Spec => []GapsAreReported
<1>1. IInv => GapsAreReported
  BY DEF IInv, Stages, StageOf, GapsAreReported, Completed, Reported, Unclassified, Unsorted,
     Unloaded, Generated, Criticised
<1> QED
  BY <1>1, PipelineInvariant, PTL

----------------------------------------------------------------------------
(* Evidence is never forgotten *)

Known ==
  /\ \A r \in Runs : checkpoint[r].input \subseteq evidence
  /\ \A k \in ClusterIds : /\ \A row \in cluster[k] : row.members \subseteq evidence
                          /\ \A row \in card[k] : row.evidence \subseteq evidence

LEMMA KnownStep ==
  ASSUME IInv, Known, [Next]_vars
  PROVE  Known'
<1>1. Types /\ Progress /\ Stages
  BY DEF IInv
<1>2. evidence \subseteq evidence'
  BY WhatChanges
<1>3. ASSUME NEW r \in Runs PROVE checkpoint'[r].input \subseteq evidence
  <2>1. ASSUME NEW q \in Runs, EndNode(q)
        PROVE  checkpoint'[r] = checkpoint[r] \/ checkpoint'[r].input = checkpoint[r].input
                 \/ checkpoint'[r].input \subseteq evidence
    BY <1>1, <2>1, EndNodeIs
  <2> QED
    BY <2>1, WhatChanges DEF Known
<1>4. ASSUME NEW k \in ClusterIds, NEW row \in cluster'[k] PROVE row.members \subseteq evidence
  <2>1. cluster \in [ClusterIds -> AtMostOne(ClusterRow)]
    BY <1>1 DEF Types
  <2>2. ASSUME NEW r \in Runs, NEW c \in ClusterIds, ProposeCluster(r, c)
        PROVE  \E new : cluster' = [cluster EXCEPT ![c] = {new}] /\ new.members \subseteq evidence
    <3>1. UNION {ItemsOfKey(r, j) : j \in c} \subseteq checkpoint[r].classified
      BY DEF ItemsOfKey
    <3>2. checkpoint[r].next = "propose_clusters"
      BY <2>2 DEF ProposeCluster, At
    <3>3. checkpoint[r].classified \subseteq checkpoint[r].input
      BY <1>1, <3>2 DEF Stages, StageOf, Unsorted, Unloaded
    <3> QED
      BY <1>1, <2>2, <3>1, <3>3, ProposeClusterIs DEF Known
  <2>3. ASSUME NEW r \in Runs, NEW c \in ClusterIds, VerifyCluster(r, c)
        PROVE  \E new : cluster' = [cluster EXCEPT ![c] = {new}] /\ new.members \subseteq evidence
    <3>1. PICK old \in cluster[c], new \in ClusterRow :
            /\ cluster' = [cluster EXCEPT ![c] = {new}]
            /\ new.members = (old.members \cap evidence)
                 \cup {i \in evidence : link[i] \in old.members \cap evidence}
      BY <1>1, <2>3, VerifyClusterIs
    <3> QED
      BY <3>1
  <2> QED
    BY <1>4, <2>1, <2>2, <2>3, WhatChanges DEF Known
<1>5. ASSUME NEW k \in ClusterIds, NEW row \in card'[k] PROVE row.evidence \subseteq evidence
  <2>1. card \in [ClusterIds -> AtMostOne(CardRow)]
    BY <1>1 DEF Types
  <2>2. ASSUME NEW r \in Runs, NEW c \in ClusterIds,
               GenerateOpportunity(r, c) \/ JudgeOpportunity(r, c)
        PROVE  \/ UNCHANGED card
               \/ \E new : card' = [card EXCEPT ![c] = {new}] /\ new.evidence \subseteq evidence
    BY <1>1, <2>2, GenerateIs, JudgeIs DEF Known
  <2> QED
    BY <1>5, <2>1, <2>2, WhatChanges DEF Known
<1> QED
  BY <1>2, <1>3, <1>4, <1>5 DEF Known

LEMMA KnownInvariant == Spec => [](IInv /\ Known)
<1>1. Init => Known
  BY DEF Init, InitialState, Known
<1>2. IInv /\ Known /\ [Next]_vars => Known'
  BY KnownStep
<1> QED
  BY <1>1, <1>2, PipelineInvariant, PTL DEF Spec

----------------------------------------------------------------------------
(* A run whose critic is a human *)

\* Runs do not mix agents and humans as critics: there is one run, or all runs are
\* started with the same --critic.
OneCritic == (\A r, s \in Runs : r = s) \/ (\A c, d \in Critics : c = d)

HumanInv == \A r \in Runs : critic[r] = "human" =>
  /\ verification[r] \in {"none", "BLOCKED"}
  /\ ~Reported(r, "critic_review")
  /\ active = r /\ checkpoint[r].next = "critic_review" => local.errs = {}
  /\ \A o \in ClusterIds : /\ review[o] = {}
                          /\ \A c \in card[o] : c.status \in {"observed", "investigate"}

\* No agent reviews a card.
LEMMA NoReview ==
  ASSUME OneCritic, Types, NEW r \in Runs, critic[r] = "human",
         NEW q \in Runs, checkpoint[q].next = "critic_review"
  PROVE  Pending(q) = {}
<1>1. critic[q] = "human"
  BY DEF OneCritic, Types
<1> QED
  BY <1>1 DEF Pending, Work

LEMMA HumanStep ==
  ASSUME OneCritic, IInv, Known, HumanInv, [Next]_vars
  PROVE  HumanInv'
<1> SUFFICES ASSUME NEW r \in Runs, critic[r] = "human"
             PROVE  /\ verification'[r] \in {"none", "BLOCKED"}
                    /\ ~Reported(r, "critic_review")'
                    /\ active' = r /\ checkpoint'[r].next = "critic_review" =>
                         local'.errs = {}
                    /\ \A o \in ClusterIds :
                         /\ review'[o] = {}
                         /\ \A c \in card'[o] : c.status \in {"observed", "investigate"}
  BY WhatChanges DEF HumanInv
<1>1. Types /\ Progress
  BY DEF IInv
<1>2. /\ verification[r] \in {"none", "BLOCKED"}
      /\ ~Reported(r, "critic_review")
      /\ active = r /\ checkpoint[r].next = "critic_review" => local.errs = {}
      /\ \A o \in ClusterIds : /\ review[o] = {}
                              /\ \A c \in card[o] : c.status \in {"observed", "investigate"}
  BY DEF HumanInv
<1>3. UNCHANGED review
  <2>1. \A q \in Runs, o \in ClusterIds : ~CriticReview(q, o)
    BY <1>1, NoReview DEF CriticReview, At
  <2> QED
    BY <2>1, WhatChanges
<1>4. ASSUME NEW o \in ClusterIds, NEW c \in card'[o]
      PROVE  c.status \in {"observed", "investigate"}
  <2>1. card \in [ClusterIds -> AtMostOne(CardRow)]
    BY <1>1 DEF Types
  <2>2. ASSUME NEW q \in Runs, NEW k \in ClusterIds, GenerateOpportunity(q, k)
        PROVE  \/ UNCHANGED card
               \/ \E row : card' = [card EXCEPT ![k] = {row}] /\ row.status = "observed"
    BY <1>1, <2>2, GenerateIs
  <2>3. ASSUME NEW q \in Runs, NEW k \in ClusterIds, JudgeOpportunity(q, k)
        PROVE  \E row : card' = [card EXCEPT ![k] = {row}] /\ row.status = "investigate"
    <3>1. \A old \in card[k] : old.evidence \subseteq evidence
      BY DEF Known
    <3> QED
      BY <1>1, <1>2, <2>3, <3>1, JudgeIs
  <2> QED
    BY <1>2, <1>4, <2>1, <2>2, <2>3, WhatChanges
<1>5. verification'[r] \in {"none", "BLOCKED"}
  <2>1. ASSUME NEW q \in Runs \ {r}, VerifyRun(q) PROVE verification'[r] = verification[r]
    BY <1>1, <2>1 DEF Types, VerifyRun
  <2>2. ASSUME VerifyRun(r) PROVE verification'[r] = "BLOCKED"
    <3> DEFINE reviewed == AgentStatus(checkpoint[r].errors, {"critic_review"},
                                       CriticVerdictsPresent(r))
    <3>1. ~CriticVerdictsPresent(r)
      BY <1>2 DEF CriticVerdictsPresent, CardsOf
    <3>2. {e \in checkpoint[r].errors : e.node \in {"critic_review"}} = {}
      BY <1>2 DEF Reported
    <3>3. reviewed = "NOT_RUN"
      BY <3>1, <3>2 DEF AgentStatus
    <3>4. \E checks \in BOOLEAN : \E analyst :
            verification' = [verification EXCEPT ![r] =
                               OverallVerdict(checks, analyst, reviewed)]
      BY <2>2 DEF VerifyRun
    <3> HIDE DEF reviewed
    <3> QED
      BY <1>1, <3>3, <3>4, OverallVerdictIs DEF Types
  <2> QED
    BY <1>2, <2>1, <2>2, WhatChanges
<1>6. ~Reported(r, "critic_review")'
  <2>1. CASE EndNode(r)
    <3>1. checkpoint'[r].errors = checkpoint[r].errors \cup local.errs /\ active = r
      BY <1>1, <2>1, EndNodeIs
    <3>2. \A e \in local.errs : e.node # "critic_review"
      BY <1>1, <1>2, <3>1 DEF Progress, Executing
    <3> QED
      BY <1>2, <3>1, <3>2 DEF Reported
  <2>2. CASE checkpoint'[r] = checkpoint[r]
    BY <1>2, <2>2 DEF Reported
  <2>3. ASSUME NEW q \in Runs \ {r}, EndNode(q) PROVE checkpoint'[r] = checkpoint[r]
    BY <1>1, <2>3, EndNodeIs
  <2> QED
    BY <2>1, <2>2, <2>3, WhatChanges
<1>7. ASSUME active' = r, checkpoint'[r].next = "critic_review" PROVE local'.errs = {}
  <2>1. CASE local' = Fresh
    BY <2>1 DEF Fresh
  <2>2. CASE UNCHANGED <<local, active, checkpoint>>
    BY <1>2, <1>7, <2>2
  <2>3. ASSUME NEW q \in Runs, LoopStep(q) \/ ReportStep(q) PROVE local'.errs = {}
    <3>1. /\ q = r /\ checkpoint[r].next = "critic_review" /\ local.errs = {}
      BY <1>1, <1>2, <1>7, <2>3, LoopIs
    <3>2. Pending(r) = {} /\ ~ProposeGroups(r)
      BY <1>1, <3>1, NoReview DEF ProposeGroups, At
    <3> QED
      BY <1>1, <2>3, <3>1, <3>2, LoopIs
  <2>4. /\ \A q \in Runs : Invoke(q) \/ EndNode(q) => local' = Fresh
        /\ Crash => local' = Fresh
    BY DEF Invoke, EndNode, Crash
  <2>5. (\E i \in Items : Ingest(i)) \/ UNCHANGED vars => UNCHANGED <<local, active, checkpoint>>
    BY DEF Ingest, vars, directory
  <2> QED
    BY <2>1, <2>2, <2>3, <2>4, <2>5 DEF Next, RunStep
<1> QED
  BY <1>2, <1>3, <1>4, <1>5, <1>6, <1>7

\* A run whose critic is a human ends BLOCKED and leaves its cards open, as long as no
\* other run lets an agent review the same cards (HumanReviewIsAwaited).
THEOREM ReviewIsAwaited == ASSUME OneCritic PROVE Spec => []HumanReviewIsAwaited
<1>1. Init => HumanInv
  BY DEF Init, InitialState, HumanInv, Reported
<1>2. IInv /\ Known /\ HumanInv /\ [Next]_vars => HumanInv'
  BY OneCritic, HumanStep
<1>3. HumanInv => HumanReviewIsAwaited
  BY DEF HumanInv, HumanReviewIsAwaited
<1> QED
  BY <1>1, <1>2, <1>3, KnownInvariant, PTL DEF Spec

----------------------------------------------------------------------------
(* The report and the verification are about the same cards *)

\* Nothing comes between render_report and verify_run of a run: no invocation is
\* killed, or there is no other run.
OneRun == \A r, s \in Runs : r = s
Undisturbed == MaxCrashes = 0 \/ OneRun

Rendering(r) ==
  UNION {{[id |-> o, card |-> c, review |-> review[o]] : c \in card[o]} : o \in CardsOf(r)}

RenderedBy(r) ==
  \/ checkpoint[r].next = "verify_run"
  \/ checkpoint[r].next = "render_report" /\ active = r /\ r \in local.handled

SoundInv == \A r \in Runs :
  /\ verification[r] # "none" => checkpoint[r].next \in {"verify_run", "end"}
  /\ MaxCrashes = 0 /\ checkpoint[r].next = "verify_run" => active = r
  /\ RenderedBy(r) => report[r].cards = Rendering(r)
  /\ \A c \in report[r].cards :
       Supported(c.card.evidence, c.card.authors, c.card.families)
  /\ verification[r] = "PASS" =>
       \A c \in report[r].cards : c.card.status = "experiment_ready" =>
         c.card.authors >= MinAuthors /\ c.card.families >= MinFamilies

LEMMA RenderingIs ==
  ASSUME NEW r \in Runs
  PROVE  /\ \A x \in Rendering(r) : /\ x.id \in CardsOf(r) /\ x.id \in ClusterIds
                                   /\ x.card \in card[x.id] /\ x.review = review[x.id]
         /\ \A o \in CardsOf(r) : \E x \in Rendering(r) : x.id = o
<1>1. ASSUME NEW x \in Rendering(r)
      PROVE  /\ x.id \in CardsOf(r) /\ x.id \in ClusterIds
             /\ x.card \in card[x.id] /\ x.review = review[x.id]
  <2>1. PICK o \in CardsOf(r) : \E c \in card[o] :
               x = [id |-> o, card |-> c, review |-> review[o]]
    BY DEF Rendering
  <2>2. x.id = o /\ x.card \in card[o] /\ x.review = review[o] /\ o \in ClusterIds
    BY <2>1 DEF CardsOf
  <2> QED
    BY <2>2
<1>2. ASSUME NEW o \in CardsOf(r) PROVE \E x \in Rendering(r) : x.id = o
  <2>1. PICK c \in card[o] : c.run = r
    BY DEF CardsOf
  <2>2. [id |-> o, card |-> c, review |-> review[o]] \in Rendering(r)
    BY <2>1 DEF Rendering
  <2> QED
    BY <2>2
<1> QED
  BY <1>1, <1>2

LEMMA RenderingStays ==
  ASSUME NEW r, UNCHANGED <<card, review>>
  PROVE  Rendering(r)' = Rendering(r)
  BY DEF Rendering, CardsOf

\* Cards and reviews are written by the run that is being executed.
LEMMA CardsChange ==
  ASSUME Types, [Next]_vars, ~UNCHANGED <<card, review>>
  PROVE  \E q \in Runs :
           /\ active = q /\ UNCHANGED <<active, checkpoint, report, verification>>
           /\ checkpoint[q].next \in
                {"generate_opportunities", "critic_review", "deterministic_judge"}
<1>1. PICK q \in Runs : \E c \in ClusterIds :
        GenerateOpportunity(q, c) \/ JudgeOpportunity(q, c) \/ CriticReview(q, c)
  BY WhatChanges
<1>2. /\ active = q
      /\ checkpoint[q].next \in
           {"generate_opportunities", "critic_review", "deterministic_judge"}
  BY <1>1 DEF GenerateOpportunity, JudgeOpportunity, CriticReview, At
<1>3. ASSUME NEW p \in Runs, EndNode(p) \/ ReportStep(p) PROVE FALSE
  BY <1>3 DEF EndNode, ReportStep, RenderReport, VerifyRun, store
<1>4. ~(\E i \in Items : Ingest(i)) /\ ~(\E p \in Runs : Invoke(p)) /\ ~Crash
  BY DEF Ingest, Invoke, Crash, store
<1>5. \E p \in Runs : LoopStep(p)
  BY <1>3, <1>4 DEF Next, RunStep, vars, store
<1>6. UNCHANGED <<active, checkpoint, report, verification>>
  BY <1>5 DEF LoopStep, directory
<1> QED
  BY <1>2, <1>6

LEMMA RenderedBefore ==
  ASSUME IInv, NEW r \in Runs, [Next]_vars, RenderedBy(r)', ~RenderReport(r)
  PROVE  RenderedBy(r)
<1>1. Types /\ Progress
  BY DEF IInv
<1>2. CASE EndNode(r)
  <2>1. /\ active = r /\ checkpoint[r].next \in Nodes /\ local' = Fresh
        /\ checkpoint'[r].next = After[checkpoint[r].next]
    BY <1>1, <1>2, EndNodeIs
  <2>2. checkpoint'[r].next = "verify_run"
    BY <2>1 DEF RenderedBy, Fresh
  <2>3. checkpoint[r].next = "render_report"
    BY <2>1, <2>2, NodesAre
  <2>4. r \in local.handled
    BY <1>1, <1>2, <2>1, <2>3 DEF EndNode, Pending, Work, Progress, Executing, CallingNodes
  <2> QED
    BY <2>1, <2>3, <2>4 DEF RenderedBy
<1>3. CASE checkpoint'[r] = checkpoint[r]
  <2>1. ASSUME checkpoint[r].next = "render_report", active' = r, r \in local'.handled
        PROVE  active = r /\ r \in local.handled
    <3>1. local' # Fresh
      BY <2>1 DEF Fresh
    <3>2. /\ ~Crash
          /\ \A q \in Runs : ~Invoke(q) /\ ~EndNode(q)
      BY <3>1 DEF Crash, Invoke, EndNode
    <3>3. active = r
      BY <2>1, <3>2, WhatChanges
    <3>4. \A q \in Runs : ~LoopStep(q) /\ ~ReportStep(q)
      <4>1. \A q \in Runs : LoopStep(q) \/ ReportStep(q) => q = r
        BY <1>1, <3>3, LoopIs
      <4>2. ~LoopStep(r)
        BY <2>1 DEF LoopStep, Deduplicate, Classify, ProposeGroups, ProposeCluster,
           VerifyCluster, GenerateOpportunity, CriticReview, JudgeOpportunity, At
      <4>3. ~ReportStep(r)
        BY <2>1 DEF ReportStep, VerifyRun, At
      <4> QED
        BY <4>1, <4>2, <4>3
    <3>5. UNCHANGED local
      BY <3>2, <3>4, WhatChanges DEF RunStep
    <3> QED
      BY <2>1, <3>3, <3>5
  <2> QED
    BY <1>3, <2>1 DEF RenderedBy
<1>4. \A q \in Runs \ {r} : EndNode(q) => checkpoint'[r] = checkpoint[r]
  BY <1>1, EndNodeIs
<1> QED
  BY <1>2, <1>3, <1>4, WhatChanges

LEMMA RenderReportIs ==
  ASSUME Types, NEW r \in Runs, RenderReport(r)
  PROVE  /\ report'[r].cards = Rendering(r) /\ UNCHANGED <<card, review>>
         /\ checkpoint[r].next = "render_report"
         /\ \A q \in Runs \ {r} : report'[q] = report[q]
  BY DEF Types, RenderReport, Rendering, store, At

LEMMA VerifyRunIs ==
  ASSUME Types, NEW r \in Runs, VerifyRun(r)
  PROVE  /\ UNCHANGED <<store, checkpoint, report>> /\ checkpoint[r].next = "verify_run"
         /\ \A q \in Runs \ {r} : verification'[q] = verification[q]
         /\ verification'[r] \in {"PASS", "FAIL", "BLOCKED"}
         /\ verification'[r] = "PASS" =>
              DeterministicRulesPassed(r) /\ CriticVerdictsPresent(r)
<1> DEFINE s == checkpoint[r]
           analyst == AgentStatus(s.errors, {"classify", "generate_opportunities"},
                                  s.classified # {} \/ s.opps # {})
           reviewed == AgentStatus(s.errors, {"critic_review"}, CriticVerdictsPresent(r))
           checks == /\ EvidenceRefsValid(r)
                     /\ DuplicateInflationAbsent(r)
                     /\ DeterministicRulesPassed(r)
<1>1. verification' = [verification EXCEPT ![r] = OverallVerdict(checks, analyst, reviewed)]
  BY DEF VerifyRun
<1>2. /\ UNCHANGED <<store, checkpoint, report>> /\ checkpoint[r].next = "verify_run"
  BY DEF VerifyRun, At
<1>3. reviewed = "PASS" => CriticVerdictsPresent(r)
  BY DEF AgentStatus
<1>4. checks \in BOOLEAN /\ (checks => DeterministicRulesPassed(r))
  OBVIOUS
<1> HIDE DEF checks, analyst, reviewed
<1> QED
  BY <1>1, <1>2, <1>3, <1>4, OverallVerdictIs DEF Types

LEMMA SoundStep ==
  ASSUME Undisturbed, IInv, SoundInv, [Next]_vars
  PROVE  SoundInv'
<1>1. Types /\ Progress /\ CardsSupported
  BY RowsSupportedIs DEF IInv
<1> SUFFICES ASSUME NEW r \in Runs
             PROVE  /\ verification'[r] # "none" => checkpoint'[r].next \in {"verify_run", "end"}
                    /\ MaxCrashes = 0 /\ checkpoint'[r].next = "verify_run" => active' = r
                    /\ RenderedBy(r)' => report'[r].cards = Rendering(r)'
                    /\ \A c \in report'[r].cards :
                         Supported(c.card.evidence, c.card.authors, c.card.families)'
                    /\ verification'[r] = "PASS" =>
                         \A c \in report'[r].cards : c.card.status = "experiment_ready" =>
                           c.card.authors >= MinAuthors /\ c.card.families >= MinFamilies
  BY DEF SoundInv
<1>2. /\ verification[r] # "none" => checkpoint[r].next \in {"verify_run", "end"}
      /\ MaxCrashes = 0 /\ checkpoint[r].next = "verify_run" => active = r
      /\ RenderedBy(r) => report[r].cards = Rendering(r)
      /\ \A c \in report[r].cards :
           Supported(c.card.evidence, c.card.authors, c.card.families)
      /\ verification[r] = "PASS" =>
           \A c \in report[r].cards : c.card.status = "experiment_ready" =>
             c.card.authors >= MinAuthors /\ c.card.families >= MinFamilies
  BY DEF SoundInv
<1>3. /\ \A q \in Runs \ {r} : EndNode(q) => checkpoint'[r] = checkpoint[r]
      /\ EndNode(r) => /\ active = r /\ checkpoint[r].next \in Nodes
                       /\ checkpoint'[r].next = After[checkpoint[r].next]
                       /\ active' = IF checkpoint[r].next = "verify_run" THEN NoRun ELSE r
                       /\ UNCHANGED <<store, report, verification>>
  BY <1>1, EndNodeIs
<1>4. ASSUME verification'[r] # "none"
      PROVE  checkpoint'[r].next \in {"verify_run", "end"}
  <2>1. CASE EndNode(r)
    BY <1>2, <1>3, <1>4, <2>1, NodesAre
  <2>2. CASE \E q \in Runs : VerifyRun(q)
    BY <1>1, <1>2, <1>4, <2>2 DEF VerifyRun, At, Types
  <2>3. CASE checkpoint'[r] = checkpoint[r] /\ UNCHANGED verification
    BY <1>2, <1>4, <2>3
  <2> QED
    BY <1>3, <2>1, <2>2, <2>3, WhatChanges DEF VerifyRun
<1>5. ASSUME MaxCrashes = 0, checkpoint'[r].next = "verify_run" PROVE active' = r
  <2>1. ~Crash
    BY <1>1, <1>5 DEF Crash, Types
  <2>2. CASE EndNode(r)
    BY <1>3, <1>5, <2>2, NodesAre
  <2>3. CASE checkpoint'[r] = checkpoint[r]
    <3>1. active = r
      BY <1>2, <1>5, <2>3
    <3>2. \A q \in Runs : ~Invoke(q)
      BY <3>1, RunsAssumption DEF Invoke
    <3>3. \A q \in Runs \ {r} : ~EndNode(q)
      BY <3>1 DEF EndNode
    <3> QED
      BY <2>1, <2>2, <3>1, <3>2, <3>3, WhatChanges, <1>3, <1>5, NodesAre
  <2> QED
    BY <1>3, <2>2, <2>3, WhatChanges
<1>6. ASSUME RenderedBy(r)' PROVE report'[r].cards = Rendering(r)'
  <2>1. CASE RenderReport(r)
    BY <1>1, <2>1, RenderReportIs, RenderingStays
  <2>2. CASE ~RenderReport(r)
    <3>1. RenderedBy(r)
      BY <1>6, <2>2, RenderedBefore
    <3>2. report'[r] = report[r]
      BY <1>1, <2>2, RenderReportIs, WhatChanges
    <3>3. UNCHANGED <<card, review>>
      <4> SUFFICES ASSUME ~UNCHANGED <<card, review>> PROVE FALSE
        OBVIOUS
      <4>1. PICK q \in Runs :
              /\ active = q
              /\ checkpoint[q].next \in
                   {"generate_opportunities", "critic_review", "deterministic_judge"}
        BY <1>1, CardsChange
      <4>2. q # r
        BY <3>1, <4>1 DEF RenderedBy
      <4>3. MaxCrashes = 0
        BY <4>2 DEF Undisturbed, OneRun
      <4> QED
        BY <1>2, <3>1, <4>1, <4>2, <4>3 DEF RenderedBy
    <3> QED
      BY <1>2, <3>1, <3>2, <3>3, RenderingStays
  <2> QED
    BY <2>1, <2>2
<1>7. ASSUME NEW c \in report'[r].cards
      PROVE  Supported(c.card.evidence, c.card.authors, c.card.families)'
  <2>1. CASE RenderReport(r)
    <3>1. c.id \in ClusterIds /\ c.card \in card[c.id]
      BY <1>1, <1>7, <2>1, RenderReportIs, RenderingIs
    <3> QED
      BY <1>1, <3>1, SupportStays DEF CardsSupported
  <2>2. CASE ~RenderReport(r)
    BY <1>1, <1>2, <1>7, <2>2, RenderReportIs, WhatChanges, SupportStays
  <2> QED
    BY <2>1, <2>2
<1>8. ASSUME verification'[r] = "PASS", NEW c \in report'[r].cards,
             c.card.status = "experiment_ready"
      PROVE  c.card.authors >= MinAuthors /\ c.card.families >= MinFamilies
  <2>1. CASE VerifyRun(r)
    <3>1. c \in Rendering(r) /\ DeterministicRulesPassed(r)
      BY <1>1, <1>2, <1>8, <2>1, VerifyRunIs DEF RenderedBy
    <3>2. c.id \in CardsOf(r) /\ c.card \in card[c.id]
      BY <3>1, RenderingIs
    <3>3. c.card \in ReadyCards(r)
      BY <1>8, <3>2 DEF ReadyCards
    <3> QED
      BY <3>1, <3>3 DEF DeterministicRulesPassed
  <2>2. CASE ~VerifyRun(r)
    <3>1. verification[r] = "PASS"
      BY <1>1, <1>8, <2>2, VerifyRunIs, WhatChanges
    <3>2. report'[r] = report[r]
      BY <1>1, <1>2, <3>1, RenderReportIs, WhatChanges
    <3> QED
      BY <1>2, <1>8, <3>1, <3>2
  <2> QED
    BY <2>1, <2>2
<1> QED
  BY <1>4, <1>5, <1>6, <1>7, <1>8

\* What a passing report calls experiment_ready rests on enough authors and source
\* families whose posts do not repeat each other (PassIsSound): the cards verify_run
\* reads from the store are those render_report has written.
THEOREM ReadyRestsOnEvidence == ASSUME Undisturbed PROVE Spec => []PassIsSound
<1>1. Init => SoundInv
  BY DEF Init, InitialState, NoReport, SoundInv, RenderedBy
<1>2. IInv /\ SoundInv /\ [Next]_vars => SoundInv'
  BY Undisturbed, SoundStep
<1>3. SoundInv => PassIsSound
  BY DEF SoundInv, PassIsSound, Supported
<1> QED
  BY <1>1, <1>2, <1>3, PipelineInvariant, PTL DEF Spec

----------------------------------------------------------------------------
(* A single run: reviews are of the cards that are stored *)

ReviewInv ==
  /\ \A r \in Runs :
       /\ checkpoint[r].next \notin Generated => \A o \in ClusterIds : review[o] = {}
       /\ \A o \in ClusterIds : review[o] # {} => o \in checkpoint[r].opps
       /\ checkpoint[r].next \notin Criticised =>
            \A o \in ClusterIds : \A c \in card[o] : c.status = "observed"
  /\ \A o \in ClusterIds : \A c \in card[o] :
       /\ \A v \in review[o] : v.reviewed = Shown(c)
       /\ c.status = "experiment_ready" => \E v \in review[o] : ~v.fatal

LEMMA CardsAndReviewsAre ==
  ASSUME Types, NEW o \in ClusterIds
  PROVE  /\ \A c \in card[o] : c \in CardRow /\ card[o] = {c}
         /\ \A v \in review[o] : v \in ReviewRow /\ review[o] = {v}
<1>1. card[o] \in AtMostOne(CardRow) /\ review[o] \in AtMostOne(ReviewRow)
  BY DEF Types
<1> QED
  BY <1>1, OneRow

LEMMA ReviewStep ==
  ASSUME OneRun, IInv, ReviewInv, [Next]_vars
  PROVE  ReviewInv'
<1>1. Types /\ Progress
  BY DEF IInv
<1>2. /\ card \in [ClusterIds -> AtMostOne(CardRow)]
      /\ review \in [ClusterIds -> AtMostOne(ReviewRow)]
  BY <1>1 DEF Types
<1>3. CASE UNCHANGED <<card, review, checkpoint>>
  BY <1>3 DEF ReviewInv
<1>4. ASSUME NEW r \in Runs, EndNode(r) PROVE ReviewInv'
  <2> DEFINE s == checkpoint[r]
             t == checkpoint'[r]
  <2>1. /\ s.next \in Nodes /\ t.next = After[s.next]
        /\ t.opps = IF s.next = "generate_opportunities" THEN local.produced ELSE s.opps
        /\ UNCHANGED <<card, review>>
    BY <1>1, <1>4, EndNodeIs DEF store
  <2>2. /\ s.next \notin Generated => \A o \in ClusterIds : review[o] = {}
        /\ \A o \in ClusterIds : review[o] # {} => o \in s.opps
        /\ s.next \notin Criticised =>
             \A o \in ClusterIds : \A c \in card[o] : c.status = "observed"
    BY DEF ReviewInv
  <2>3. \A q \in Runs : q = r
    BY DEF OneRun
  <2> HIDE DEF s, t
  <2>4. /\ t.next \notin Generated => s.next \notin Generated
        /\ t.next \notin Criticised => s.next \notin Criticised
        /\ s.next = "generate_opportunities" => s.next \notin Generated
    BY <2>1, StagesAre
  <2>5. /\ t.next \notin Generated => \A o \in ClusterIds : review'[o] = {}
        /\ \A o \in ClusterIds : review'[o] # {} => o \in t.opps
        /\ t.next \notin Criticised =>
             \A o \in ClusterIds : \A c \in card'[o] : c.status = "observed"
    BY <2>1, <2>2, <2>4
  <2> QED
    BY <2>1, <2>3, <2>5 DEF ReviewInv, t
<1>5. ASSUME NEW r \in Runs, NEW k \in ClusterIds, GenerateOpportunity(r, k), UNCHANGED checkpoint
      PROVE  ReviewInv'
  <2>1. UNCHANGED review
    BY <1>5 DEF GenerateOpportunity, CallFails, store
  <2>2. \A q \in Runs : checkpoint[q].next = "generate_opportunities"
    BY <1>5 DEF OneRun, GenerateOpportunity, At
  <2>3. /\ \A o \in ClusterIds : review[o] = {}
        /\ \A o \in ClusterIds : \A c \in card[o] : c.status = "observed"
    BY <1>5, <2>2 DEF ReviewInv, Generated, Criticised
  <2>4. \/ UNCHANGED card
        \/ \E row : card' = [card EXCEPT ![k] = {row}] /\ row.status = "observed"
    BY <1>1, <1>5, GenerateIs
  <2>5. \A o \in ClusterIds : \A c \in card'[o] : c.status = "observed"
    BY <1>2, <2>3, <2>4
  <2> QED
    BY <1>5, <2>1, <2>3, <2>5 DEF ReviewInv
<1>6. ASSUME NEW r \in Runs, NEW k \in ClusterIds, CriticReview(r, k), UNCHANGED checkpoint
      PROVE  ReviewInv'
  <2>1. UNCHANGED card
    BY <1>6 DEF CriticReview, CallFails, store
  <2>2. \A q \in Runs : checkpoint[q].next = "critic_review" /\ k \in checkpoint[q].opps
    BY <1>6 DEF OneRun, CriticReview, At, Pending, Work
  <2>3. \A o \in ClusterIds : \A c \in card[o] : c.status = "observed"
    BY <1>6, <2>2 DEF ReviewInv, Criticised, Generated
  <2>4. \/ UNCHANGED review
        \/ \E c \in card[k] : \E row :
             /\ review' = [review EXCEPT ![k] = {row}]
             /\ row.reviewed = Shown(c)
    BY <1>1, <1>6, CriticReviewIs
  <2>5. \A c \in card[k] : card[k] = {c}
    BY <1>1, CardsAndReviewsAre
  <2>6. \A o \in ClusterIds \ {k} : review'[o] = review[o]
    BY <1>2, <2>4
  <2>7. \A c \in card[k] : \A v \in review'[k] : v.reviewed = Shown(c)
    BY <1>2, <2>4, <2>5 DEF ReviewInv
  <2>8. \A o \in ClusterIds : \A c \in card'[o] : \A v \in review'[o] : v.reviewed = Shown(c)
    BY <2>1, <2>6, <2>7 DEF ReviewInv
  <2>9. \A q \in Runs : \A o \in ClusterIds : review'[o] # {} => o \in checkpoint[q].opps
    BY <2>2, <2>6 DEF ReviewInv
  <2>10. \A q \in Runs : checkpoint[q].next \in Generated
    BY <2>2 DEF Generated
  <2> QED
    BY <1>6, <2>1, <2>3, <2>8, <2>9, <2>10 DEF ReviewInv, Shown
<1>7. ASSUME NEW r \in Runs, NEW k \in ClusterIds, JudgeOpportunity(r, k), UNCHANGED checkpoint
      PROVE  ReviewInv'
  <2>1. UNCHANGED review
    BY <1>7 DEF JudgeOpportunity
  <2>2. \A q \in Runs : checkpoint[q].next = "deterministic_judge"
    BY <1>7 DEF OneRun, JudgeOpportunity, At
  <2>3. PICK old \in card[k], row \in CardRow :
          /\ card' = [card EXCEPT ![k] = {row}]
          /\ row.text = old.text /\ row.evidence = old.evidence
          /\ row.status = "experiment_ready" =>
               review[k] # {} /\ \A v \in review[k] : ~v.fatal
    BY <1>1, <1>7, JudgeIs
  <2>4. Shown(row) = Shown(old)
    BY <2>3 DEF Shown
  <2>5. card'[k] = {row} /\ \A o \in ClusterIds \ {k} : card'[o] = card[o]
    BY <1>2, <2>3
  <2>6. \A q \in Runs : checkpoint[q].next \in Criticised
    BY <2>2 DEF Criticised, Generated
  <2>7. /\ \A v \in review[k] : v.reviewed = Shown(row)
        /\ row.status = "experiment_ready" => \E v \in review[k] : ~v.fatal
    BY <2>3, <2>4 DEF ReviewInv
  <2>8. \A o \in ClusterIds : \A c \in card'[o] :
          /\ \A v \in review'[o] : v.reviewed = Shown(c)
          /\ c.status = "experiment_ready" => \E v \in review'[o] : ~v.fatal
    BY <2>1, <2>5, <2>7 DEF ReviewInv
  <2> QED
    BY <1>7, <2>1, <2>6, <2>8 DEF ReviewInv, Criticised
<1>8. CASE \E r \in Runs : EndNode(r)
  BY <1>4, <1>8
<1>9. CASE UNCHANGED checkpoint /\ ~UNCHANGED <<card, review>>
  BY <1>5, <1>6, <1>7, <1>9, WhatChanges
<1>10. \A r \in Runs : EndNode(r) => UNCHANGED <<card, review>>
  BY DEF EndNode, store
<1> QED
  BY <1>3, <1>8, <1>9, WhatChanges

----------------------------------------------------------------------------
(* A single run: every opportunity is generated and judged *)

Judged == Criticised \ {"deterministic_judge"}

Written(o) == card[o] # {}
Decided(o) == \A c \in card[o] : c.status # "observed"

OppsInv == \A r \in Runs :
  /\ checkpoint[r].next \in Generated => \A o \in checkpoint[r].opps : Written(o)
  /\ active = r /\ checkpoint[r].next = "generate_opportunities" =>
       \A o \in local.produced : Written(o)
  /\ checkpoint[r].next \in Judged => \A o \in checkpoint[r].opps : Decided(o)
  /\ active = r /\ checkpoint[r].next = "deterministic_judge" =>
       \A o \in local.produced : Decided(o)

\* What the two nodes that write cards add to what they will return.
LEMMA ProducedGrows ==
  ASSUME Types, NEW r \in Runs, [Next]_vars, active' = r, UNCHANGED checkpoint,
         checkpoint[r].next \in {"generate_opportunities", "deterministic_judge"},
         NEW o \in local'.produced
  PROVE  \/ active = r /\ o \in local.produced
         \/ o \in ClusterIds /\ GenerateOpportunity(r, o) /\ Written(o)'
         \/ o \in ClusterIds /\ JudgeOpportunity(r, o)
<1>1. local' # Fresh
  BY DEF Fresh
<1>2. ~Crash /\ \A q \in Runs : ~Invoke(q) /\ ~EndNode(q)
  BY <1>1 DEF Crash, Invoke, EndNode
<1>3. active = r
  BY <1>2, WhatChanges
<1>4. ASSUME NEW q \in Runs, LoopStep(q) \/ ReportStep(q)
      PROVE  /\ q = r
             /\ \E k \in ClusterIds : GenerateOpportunity(r, k) \/ JudgeOpportunity(r, k)
  <2>1. q = r
    BY <1>3, <1>4, LoopIs
  <2>2. ~ReportStep(r)
    BY DEF ReportStep, RenderReport, VerifyRun, At
  <2> QED
    BY <1>4, <2>1, <2>2 DEF LoopStep, Deduplicate, Classify, ProposeGroups, ProposeCluster,
       VerifyCluster, CriticReview, At
<1>5. ASSUME NEW k \in ClusterIds, JudgeOpportunity(r, k), o \notin local.produced
      PROVE  o = k
  <2>1. Handled(k)
    BY <1>5 DEF JudgeOpportunity
  <2>2. local'.produced = local.produced \cup {k}
    BY <2>1, HandledIs DEF Local
  <2> QED
    BY <1>5, <2>2
<1>6. ASSUME NEW k \in ClusterIds, GenerateOpportunity(r, k), o \notin local.produced
      PROVE  o = k /\ Written(k)'
  <2>1. ASSUME NEW f \in Failures, CallFails(r, k, f) PROVE FALSE
    <3>1. local'.produced = local.produced
      BY <2>1, CallFailsIs DEF Local
    <3> QED
      BY <1>6, <3>1
  <2>2. Handled(k) /\ Written(k)'
    BY <1>6, <2>1 DEF GenerateOpportunity, Types, Written
  <2>3. local'.produced = local.produced \cup {k}
    BY <2>2, HandledIs DEF Local
  <2> QED
    BY <1>6, <2>2, <2>3
<1>7. CASE UNCHANGED local
  BY <1>3, <1>7
<1>8. CASE \E q \in Runs : LoopStep(q) \/ ReportStep(q)
  BY <1>3, <1>4, <1>5, <1>6, <1>8
<1> QED
  BY <1>2, <1>7, <1>8, WhatChanges DEF RunStep

\* A card is never removed, and only generate_opportunities takes a decision back.
LEMMA CardsStay ==
  ASSUME Types, [Next]_vars, NEW o \in ClusterIds
  PROVE  /\ Written(o) => Written(o)'
         /\ Decided(o) => Decided(o)' \/ \E r \in Runs : GenerateOpportunity(r, o)
<1>1. card \in [ClusterIds -> AtMostOne(CardRow)]
  BY DEF Types
<1>2. ASSUME NEW r \in Runs, NEW k \in ClusterIds, JudgeOpportunity(r, k)
      PROVE  \E row : card' = [card EXCEPT ![k] = {row}] /\ row.status # "observed"
  BY <1>2, JudgeIs
<1>3. ASSUME NEW r \in Runs, NEW k \in ClusterIds, GenerateOpportunity(r, k)
      PROVE  UNCHANGED card \/ \E row : card' = [card EXCEPT ![k] = {row}]
  BY <1>3, GenerateIs
<1> QED
  BY <1>1, <1>2, <1>3, WhatChanges DEF Written, Decided

LEMMA OppsStep ==
  ASSUME OneRun, IInv, OppsInv, [Next]_vars
  PROVE  OppsInv'
<1>1. Types /\ Progress
  BY DEF IInv
<1> SUFFICES ASSUME NEW r \in Runs
             PROVE  /\ checkpoint'[r].next \in Generated =>
                         \A o \in checkpoint'[r].opps : Written(o)'
                    /\ active' = r /\ checkpoint'[r].next = "generate_opportunities" =>
                         \A o \in local'.produced : Written(o)'
                    /\ checkpoint'[r].next \in Judged =>
                         \A o \in checkpoint'[r].opps : Decided(o)'
                    /\ active' = r /\ checkpoint'[r].next = "deterministic_judge" =>
                         \A o \in local'.produced : Decided(o)'
  BY DEF OppsInv
<1>2. /\ checkpoint[r].next \in Generated => \A o \in checkpoint[r].opps : Written(o)
      /\ active = r /\ checkpoint[r].next = "generate_opportunities" =>
           \A o \in local.produced : Written(o)
      /\ checkpoint[r].next \in Judged => \A o \in checkpoint[r].opps : Decided(o)
      /\ active = r /\ checkpoint[r].next = "deterministic_judge" =>
           \A o \in local.produced : Decided(o)
  BY DEF OppsInv
<1>3. checkpoint[r].opps \subseteq ClusterIds
  BY <1>1 DEF Types, State
<1>4. active = r /\ checkpoint[r].next \in {"generate_opportunities", "deterministic_judge"}
      => local.produced \subseteq ClusterIds
  <2>1. checkpoint[r].next \in {"generate_opportunities", "deterministic_judge"}
        => Work(r) \subseteq ClusterIds
    BY <1>1 DEF Types, State, Work
  <2> QED
    BY <1>1, <2>1 DEF Progress, Executing
<1>5. ASSUME EndNode(r)
      PROVE  /\ checkpoint'[r].next \in Generated =>
                  \A o \in checkpoint'[r].opps : Written(o)'
             /\ checkpoint'[r].next \in Judged =>
                  \A o \in checkpoint'[r].opps : Decided(o)'
             /\ local'.produced = {}
  <2>1. /\ active = r /\ checkpoint[r].next \in Nodes /\ local' = Fresh
        /\ checkpoint'[r].next = After[checkpoint[r].next]
        /\ checkpoint'[r].opps = IF checkpoint[r].next = "generate_opportunities"
                                THEN local.produced ELSE checkpoint[r].opps
        /\ UNCHANGED card
    BY <1>1, <1>5, EndNodeIs DEF store
  <2>2. /\ \A o : Written(o)' <=> Written(o)
        /\ \A o : Decided(o)' <=> Decided(o)
    BY <2>1 DEF Written, Decided
  <2>3. checkpoint[r].next = "deterministic_judge" => local.produced = checkpoint[r].opps
    BY <1>1, <1>5, <2>1 DEF EndNode, Pending, Work, Progress, Executing, CallingNodes
  <2>4. /\ checkpoint'[r].next \in Generated => \/ checkpoint[r].next \in Generated
                                                \/ checkpoint[r].next = "generate_opportunities"
        /\ checkpoint'[r].next \in Judged => \/ checkpoint[r].next \in Judged
                                             \/ checkpoint[r].next = "deterministic_judge"
        /\ "generate_opportunities" \notin Generated
        /\ "generate_opportunities" \notin Judged
    BY <2>1, NodesAre DEF Generated, Criticised, Judged
  <2> QED
    BY <1>2, <2>1, <2>2, <2>3, <2>4 DEF Fresh
<1>6. ASSUME UNCHANGED checkpoint
      PROVE  /\ checkpoint'[r].next \in Generated =>
                  \A o \in checkpoint'[r].opps : Written(o)'
             /\ active' = r /\ checkpoint'[r].next = "generate_opportunities" =>
                  \A o \in local'.produced : Written(o)'
             /\ checkpoint'[r].next \in Judged =>
                  \A o \in checkpoint'[r].opps : Decided(o)'
             /\ active' = r /\ checkpoint'[r].next = "deterministic_judge" =>
                  \A o \in local'.produced : Decided(o)'
  <2>1. ASSUME NEW o, GenerateOpportunity(r, o)
        PROVE  checkpoint[r].next = "generate_opportunities"
    BY <2>1 DEF GenerateOpportunity, At
  <2>2. ASSUME NEW o \in ClusterIds, Decided(o),
               checkpoint[r].next # "generate_opportunities"
        PROVE  Decided(o)'
    BY <1>1, <2>1, <2>2, CardsStay DEF OneRun
  <2>3. ASSUME NEW o \in ClusterIds, JudgeOpportunity(r, o) PROVE Decided(o)'
    <3>1. \E row : card' = [card EXCEPT ![o] = {row}] /\ row.status # "observed"
      BY <1>1, <2>3, JudgeIs
    <3> QED
      BY <1>1, <3>1 DEF Types, Decided
  <2>4. "generate_opportunities" \notin Judged
    BY DEF Judged, Criticised, Generated
  <2>5. ASSUME NEW o, JudgeOpportunity(r, o)
        PROVE  checkpoint[r].next = "deterministic_judge"
    BY <2>5 DEF JudgeOpportunity, At
  <2>6. checkpoint'[r].next \in Generated => \A o \in checkpoint'[r].opps : Written(o)'
    BY <1>1, <1>2, <1>3, <1>6, CardsStay
  <2>7. checkpoint'[r].next \in Judged => \A o \in checkpoint'[r].opps : Decided(o)'
    BY <1>2, <1>3, <1>6, <2>2, <2>4
  <2>8. ASSUME active' = r, checkpoint'[r].next = "generate_opportunities",
               NEW o \in local'.produced
        PROVE  Written(o)'
    BY <1>1, <1>2, <1>4, <1>6, <2>5, <2>8, ProducedGrows, CardsStay
  <2>9. ASSUME active' = r, checkpoint'[r].next = "deterministic_judge",
               NEW o \in local'.produced
        PROVE  Decided(o)'
    BY <1>1, <1>2, <1>4, <1>6, <2>1, <2>2, <2>3, <2>9, ProducedGrows
  <2> QED
    BY <2>6, <2>7, <2>8, <2>9
<1>7. \A q \in Runs : q = r
  BY DEF OneRun
<1> QED
  BY <1>5, <1>6, <1>7, WhatChanges

----------------------------------------------------------------------------
(* A single run: what a PASS is about *)

PassInv == \A r \in Runs :
  /\ verification[r] = "PASS" => CriticVerdictsPresent(r)
  /\ checkpoint[r].next = "end" => report[r].cards = Rendering(r)

LEMMA PassStep ==
  ASSUME OneRun, IInv, SoundInv, PassInv, [Next]_vars
  PROVE  PassInv'
<1>1. Types /\ Progress
  BY DEF IInv
<1> SUFFICES ASSUME NEW r \in Runs
             PROVE  /\ verification'[r] = "PASS" => CriticVerdictsPresent(r)'
                    /\ checkpoint'[r].next = "end" => report'[r].cards = Rendering(r)'
  BY DEF PassInv
<1>2. /\ verification[r] = "PASS" => CriticVerdictsPresent(r)
      /\ checkpoint[r].next = "end" => report[r].cards = Rendering(r)
      /\ verification[r] # "none" => checkpoint[r].next \in {"verify_run", "end"}
      /\ checkpoint[r].next = "verify_run" => report[r].cards = Rendering(r)
  BY DEF PassInv, SoundInv, RenderedBy
<1>3. CASE ~UNCHANGED <<card, review>>
  <2>1. PICK q \in Runs :
          /\ UNCHANGED <<active, checkpoint, report, verification>>
          /\ checkpoint[q].next \in
               {"generate_opportunities", "critic_review", "deterministic_judge"}
    BY <1>1, <1>3, CardsChange
  <2>2. q = r
    BY DEF OneRun
  <2> QED
    BY <1>2, <2>1, <2>2
<1>4. CASE UNCHANGED <<card, review>>
  <2>1. Rendering(r)' = Rendering(r) /\ (CriticVerdictsPresent(r)' <=> CriticVerdictsPresent(r))
    BY <1>4, RenderingStays DEF CriticVerdictsPresent, CardsOf
  <2>2. ASSUME verification'[r] = "PASS" PROVE CriticVerdictsPresent(r)
    BY <1>1, <1>2, <2>2, VerifyRunIs, WhatChanges
  <2>3. ASSUME checkpoint'[r].next = "end" PROVE report'[r].cards = Rendering(r)
    <3>1. checkpoint[r].next \in {"verify_run", "end"}
      <4>1. EndNode(r) => /\ checkpoint[r].next \in Nodes
                          /\ checkpoint'[r].next = After[checkpoint[r].next]
        BY <1>1, EndNodeIs
      <4>2. \A q \in Runs \ {r} : EndNode(q) => checkpoint'[r] = checkpoint[r]
        BY <1>1, EndNodeIs
      <4> QED
        BY <2>3, <4>1, <4>2, NodesAre, WhatChanges
    <3>2. report'[r] = report[r]
      BY <1>1, <3>1, RenderReportIs, WhatChanges
    <3> QED
      BY <1>2, <3>1, <3>2
  <2> QED
    BY <2>1, <2>2, <2>3
<1> QED
  BY <1>3, <1>4

LEMMA OneRunInvariant ==
  ASSUME OneRun
  PROVE  Spec => [](IInv /\ SoundInv /\ ReviewInv /\ OppsInv /\ PassInv)
<1> USE OneRun
<1>1. Init => SoundInv /\ ReviewInv /\ OppsInv /\ PassInv
  <2> SUFFICES ASSUME Init PROVE SoundInv /\ ReviewInv /\ OppsInv /\ PassInv
    OBVIOUS
  <2>1. /\ \A r \in Runs : /\ checkpoint[r].next = "load_run" /\ verification[r] = "none"
                           /\ report[r].cards = {}
        /\ \A k \in ClusterIds : card[k] = {} /\ review[k] = {}
        /\ active = NoRun
    BY DEF Init, InitialState, NoReport
  <2>2. SoundInv
    BY <2>1 DEF SoundInv, RenderedBy
  <2>3. ReviewInv
    BY <2>1 DEF ReviewInv
  <2>4. OppsInv
    BY <2>1 DEF OppsInv, Generated, Judged, Criticised
  <2>5. PassInv
    BY <2>1 DEF PassInv
  <2> QED
    BY <2>2, <2>3, <2>4, <2>5
<1>2. IInv /\ SoundInv /\ [Next]_vars => SoundInv'
  BY SoundStep DEF Undisturbed
<1>3. IInv /\ ReviewInv /\ [Next]_vars => ReviewInv'
  BY ReviewStep
<1>4. IInv /\ OppsInv /\ [Next]_vars => OppsInv'
  BY OppsStep
<1>5. IInv /\ SoundInv /\ PassInv /\ [Next]_vars => PassInv'
  BY PassStep
<1> QED
  BY <1>1, <1>2, <1>3, <1>4, <1>5, PipelineInvariant, PTL DEF Spec

\* "No completed critic review -> can never be experiment_ready" (ReadyIsReviewed): as
\* long as no other run shares the store, the verdict behind a ready card was given on
\* the text and the evidence the card has now, however often its run was killed.
THEOREM ReadyHasItsReview == ASSUME OneRun PROVE Spec => []ReadyIsReviewed
<1>1. ReviewInv => ReadyIsReviewed
  BY DEF ReviewInv, ReadyIsReviewed
<1> QED
  BY <1>1, OneRunInvariant, PTL

\* A PASS covers the whole report (PassIsComplete): every card in it, those that a
\* killed attempt has left behind included, was judged by the run and has a verdict.
THEOREM PassCoversReport == ASSUME OneRun PROVE Spec => []PassIsComplete
<1>1. ASSUME IInv, SoundInv, ReviewInv, OppsInv, PassInv PROVE PassIsComplete
  <2> SUFFICES ASSUME NEW r \in Runs, verification[r] = "PASS"
               PROVE  /\ ReportedIds(r) = checkpoint[r].opps
                      /\ \A c \in report[r].cards : c.card.status # "observed" /\ c.review # {}
    BY DEF PassIsComplete
  <2>1. Types
    BY <1>1 DEF IInv
  <2>2. /\ checkpoint[r].next \in {"verify_run", "end"} /\ report[r].cards = Rendering(r)
        /\ CriticVerdictsPresent(r)
    BY <1>1 DEF SoundInv, PassInv, RenderedBy
  <2>3. \A o \in CardsOf(r) : o \in ClusterIds /\ review[o] # {} /\ o \in checkpoint[r].opps
    BY <1>1, <2>2 DEF CriticVerdictsPresent, CardsOf, ReviewInv
  <2>4. checkpoint[r].opps \subseteq CardsOf(r)
    <3> SUFFICES ASSUME NEW o \in checkpoint[r].opps PROVE o \in CardsOf(r)
      OBVIOUS
    <3>1. o \in ClusterIds
      BY <2>1 DEF Types, State
    <3>2. PICK c \in card[o] : TRUE
      BY <1>1, <2>2 DEF OppsInv, Generated, Written
    <3>3. c.run \in Runs
      BY <2>1, <3>1, CardsAndReviewsAre DEF CardRow
    <3> QED
      BY <3>1, <3>2, <3>3 DEF CardsOf, OneRun
  <2>5. ReportedIds(r) = checkpoint[r].opps
    BY <2>2, <2>3, <2>4, RenderingIs DEF ReportedIds
  <2>6. \A o \in checkpoint[r].opps : Decided(o)
    BY <1>1, <2>2 DEF OppsInv, Judged, Criticised, Generated
  <2>7. ASSUME NEW x \in report[r].cards PROVE x.card.status # "observed" /\ x.review # {}
    <3>1. x.id \in CardsOf(r) /\ x.card \in card[x.id] /\ x.review = review[x.id]
      BY <2>2, RenderingIs
    <3> QED
      BY <2>3, <2>6, <3>1 DEF Decided
  <2> QED
    BY <2>5, <2>7
<1> QED
  BY <1>1, OneRunInvariant, PTL

----------------------------------------------------------------------------
(* A single run: its clusters partition the evidence it classified *)

Partition(groups, keys) ==
  UNION groups = keys /\ \A c, d \in groups : c # d => c \cap d = {}

LEMMA SingletonsPartition ==
  ASSUME NEW keys
  PROVE  Partition({{k} : k \in keys}, keys)
  BY DEF Partition

\* However the analyst overlaps, repeats or leaves out keys, what is left of its answer
\* partitions the keys it was asked about.
LEMMA ValidatedPartition ==
  ASSUME NEW p \in Proposals, NEW keys
  PROVE  Partition(ValidatedGroups(p, keys), keys)
<1> DEFINE groups == {Kept(p, n, keys) : n \in DOMAIN p} \ {{}}
           rest == {{k} : k \in keys \ UNION groups}
<1>1. DOMAIN p \subseteq Nat \ {0}
  BY DEF Proposals
<1>2. ASSUME NEW m \in DOMAIN p, NEW n \in DOMAIN p, m < n
      PROVE  Kept(p, m, keys) \cap Kept(p, n, keys) = {}
  <2>1. m \in 1 .. n - 1
    BY <1>1, <1>2
  <2> QED
    BY <2>1 DEF Kept
<1>3. ASSUME NEW m \in DOMAIN p, NEW n \in DOMAIN p, m # n
      PROVE  Kept(p, m, keys) \cap Kept(p, n, keys) = {}
  <2>1. m < n \/ n < m
    BY <1>1, <1>3
  <2> QED
    BY <1>2, <2>1
<1>4. \A c, d \in groups : c # d => c \cap d = {}
  BY <1>3
<1>5. \A c \in groups : c \subseteq keys
  BY DEF Kept
<1> HIDE DEF groups
<1>6. UNION (groups \cup rest) = keys
  BY <1>5
<1>7. ASSUME NEW c \in groups \cup rest, NEW d \in groups \cup rest, c # d
      PROVE  c \cap d = {}
  <2>1. CASE c \in groups /\ d \in groups
    BY <1>4, <1>7, <2>1
  <2>2. CASE c \in groups /\ d \in rest
    BY <2>2
  <2>3. CASE c \in rest /\ d \in groups
    BY <2>3
  <2>4. CASE c \in rest /\ d \in rest
    BY <1>7, <2>4
  <2> QED
    BY <1>7, <2>1, <2>2, <2>3, <2>4
<1> QED
  BY <1>6, <1>7 DEF Partition, ValidatedGroups, groups

Unlinked == Unloaded \cup {"normalize"}

Grouped(r, c) == UNION {ItemsOfKey(r, k) : k \in c}

PartInv == \A r \in Runs :
  /\ \A i \in Items : link[i] # NoLink =>
       checkpoint[r].next \notin Unlinked /\ i \in DuplicatesIn(checkpoint[r].input)
  /\ active = r /\ checkpoint[r].next = "propose_clusters" =>
       /\ local.planned => Partition(local.plan, CandidateKeys(r))
       /\ \A c \in local.handled : \E row \in cluster[c] : row.members = Grouped(r, c)
  /\ checkpoint[r].next = "verify_clusters" =>
       /\ Partition(checkpoint[r].clusters, CandidateKeys(r))
       /\ \A c \in checkpoint[r].clusters : \E row \in cluster[c] :
            row.members \cap checkpoint[r].classified = Grouped(r, c)

LEMMA GroupedIs ==
  ASSUME NEW r, NEW c
  PROVE  Grouped(r, c) \subseteq checkpoint[r].classified
  BY DEF Grouped, ItemsOfKey

\* What the groups are of does not change after classify.
LEMMA GroupsStay ==
  ASSUME NEW r, UNCHANGED <<checkpoint, classification>>
  PROVE  /\ CandidateKeys(r)' = CandidateKeys(r)
         /\ \A c : Grouped(r, c)' = Grouped(r, c)
  BY DEF CandidateKeys, Grouped, ItemsOfKey

LEMMA PartImplies ==
  ASSUME Types, PartInv
  PROVE  ClustersPartitionEvidence
<1> SUFFICES ASSUME NEW r \in Runs, checkpoint[r].next = "verify_clusters",
                    NEW i \in checkpoint[r].classified,
                    NEW l \in classification[i], l.relevant
             PROVE  \E c \in checkpoint[r].clusters :
                      /\ \E row \in cluster[c] : i \in row.members
                      /\ \A d \in checkpoint[r].clusters \ {c} :
                           \A row \in cluster[d] : i \notin row.members
  BY DEF ClustersPartitionEvidence
<1>1. i \in Items /\ checkpoint[r].clusters \subseteq ClusterIds
  BY DEF Types, State
<1>2. l \in Labels /\ classification[i] = {l}
  <2>1. classification[i] \in AtMostOne(Labels)
    BY <1>1 DEF Types
  <2> QED
    BY <2>1, OneRow
<1>3. l.key \in CandidateKeys(r) /\ i \in ItemsOfKey(r, l.key)
  BY <1>2, AgentAssumption DEF CandidateKeys, ItemsOfKey
<1>4. /\ Partition(checkpoint[r].clusters, CandidateKeys(r))
      /\ \A c \in checkpoint[r].clusters : \E row \in cluster[c] :
           row.members \cap checkpoint[r].classified = Grouped(r, c)
  BY DEF PartInv
<1>5. PICK c \in checkpoint[r].clusters : l.key \in c
  BY <1>3, <1>4 DEF Partition
<1>6. \E row \in cluster[c] : i \in row.members
  BY <1>3, <1>4, <1>5 DEF Grouped
<1>7. ASSUME NEW d \in checkpoint[r].clusters \ {c}, NEW row \in cluster[d], i \in row.members
      PROVE  FALSE
  <2>1. cluster[d] = {row}
    BY <1>1, OneRow DEF Types
  <2>2. i \in Grouped(r, d)
    BY <1>4, <1>7, <2>1
  <2>3. PICK k \in d : i \in ItemsOfKey(r, k)
    BY <2>2 DEF Grouped
  <2>4. k = l.key
    BY <1>2, <2>3 DEF ItemsOfKey
  <2> QED
    BY <1>4, <1>5, <2>4 DEF Partition
<1> QED
  BY <1>6, <1>7

LEMMA PartStep ==
  ASSUME OneRun, IInv, Known, PartInv, [Next]_vars
  PROVE  PartInv'
<1>1. Types /\ Progress /\ Stages
  BY DEF IInv
<1> SUFFICES ASSUME NEW r \in Runs
             PROVE  /\ \A i \in Items : link'[i] # NoLink =>
                         /\ checkpoint'[r].next \notin Unlinked
                         /\ i \in DuplicatesIn(checkpoint'[r].input)
                    /\ active' = r /\ checkpoint'[r].next = "propose_clusters" =>
                         /\ local'.planned => Partition(local'.plan, CandidateKeys(r)')
                         /\ \A c \in local'.handled : \E row \in cluster'[c] :
                              row.members = Grouped(r, c)'
                    /\ checkpoint'[r].next = "verify_clusters" =>
                         /\ Partition(checkpoint'[r].clusters, CandidateKeys(r)')
                         /\ \A c \in checkpoint'[r].clusters : \E row \in cluster'[c] :
                              row.members \cap checkpoint'[r].classified = Grouped(r, c)'
  BY DEF PartInv, Partition, DuplicatesIn, CanonicalOf, GroupOf, Earliest, Closed
<1>2. /\ \A i \in Items : link[i] # NoLink =>
           checkpoint[r].next \notin Unlinked /\ i \in DuplicatesIn(checkpoint[r].input)
      /\ active = r /\ checkpoint[r].next = "propose_clusters" =>
           /\ local.planned => Partition(local.plan, CandidateKeys(r))
           /\ \A c \in local.handled : \E row \in cluster[c] : row.members = Grouped(r, c)
      /\ checkpoint[r].next = "verify_clusters" =>
           /\ Partition(checkpoint[r].clusters, CandidateKeys(r))
           /\ \A c \in checkpoint[r].clusters : \E row \in cluster[c] :
                row.members \cap checkpoint[r].classified = Grouped(r, c)
  BY DEF PartInv
<1>3. \A q \in Runs : q = r
  BY DEF OneRun
<1> DEFINE s == checkpoint[r]
           t == checkpoint'[r]
<1>4. CASE EndNode(r)
  <2>1. /\ active = r /\ s.next \in Nodes /\ t.next = After[s.next] /\ local' = Fresh
        /\ t.input = IF s.next = "load_new_evidence" THEN {i \in evidence : i >= Since[r]}
                     ELSE s.input
        /\ t.classified = IF s.next = "classify" THEN local.produced ELSE s.classified
        /\ t.clusters = IF s.next \in {"propose_clusters", "verify_clusters"}
                        THEN local.produced ELSE s.clusters
        /\ UNCHANGED <<link, cluster, classification>>
    BY <1>1, <1>4, EndNodeIs DEF store
  <2>2. s.next = "propose_clusters" => local.planned /\ local.produced = local.plan
                                        /\ local.handled = local.plan
    BY <1>1, <1>4, <2>1 DEF EndNode, Pending, Work, Progress, Executing, CallingNodes
  <2>3. t.next = "verify_clusters" <=> s.next = "propose_clusters"
    BY <2>1, NodesAre
  <2>4. t.next \in Unlinked => s.next \in Unlinked
    BY <2>1, NodesAre DEF Unlinked, Unloaded
  <2>5. "load_new_evidence" \in Unlinked
    BY DEF Unlinked, Unloaded
  <2>6. ASSUME t.next = "verify_clusters"
        PROVE  /\ CandidateKeys(r)' = CandidateKeys(r)
               /\ \A c : Grouped(r, c)' = Grouped(r, c)
    <3>1. t.classified = s.classified
      BY <2>1, <2>3, <2>6
    <3> QED
      BY <2>1, <3>1 DEF CandidateKeys, Grouped, ItemsOfKey
  <2> HIDE DEF s, t
  <2>7. \A i \in Items : link'[i] # NoLink =>
          t.next \notin Unlinked /\ i \in DuplicatesIn(t.input)
    BY <1>2, <2>1, <2>4, <2>5 DEF s
  <2>8. ASSUME t.next = "verify_clusters"
        PROVE  /\ Partition(t.clusters, CandidateKeys(r)')
               /\ \A c \in t.clusters : \E row \in cluster'[c] :
                    row.members \cap t.classified = Grouped(r, c)'
    <3>1. s.next = "propose_clusters" /\ t.clusters = local.plan
          /\ t.classified = s.classified /\ local.handled = local.plan
      BY <2>1, <2>2, <2>3, <2>8
    <3>2. Partition(local.plan, CandidateKeys(r))
      BY <1>2, <2>1, <2>2, <3>1 DEF s
    <3>3. \A c \in local.plan : \E row \in cluster[c] : row.members = Grouped(r, c)
      BY <1>2, <2>1, <3>1 DEF s
    <3>4. \A c : Grouped(r, c) \subseteq s.classified
      BY GroupedIs DEF s
    <3>5. \A c \in local.plan : \E row \in cluster[c] :
            row.members \cap s.classified = Grouped(r, c)
      BY <3>3, <3>4
    <3> QED
      BY <2>1, <2>6, <2>8, <3>1, <3>2, <3>5
  <2>9. ~local'.planned /\ local'.handled = {}
    BY <2>1 DEF Fresh
  <2> QED
    BY <2>7, <2>8, <2>9 DEF t
<1>5. CASE UNCHANGED checkpoint
  <2>1. \A i \in Items : link'[i] # NoLink =>
          t.next \notin Unlinked /\ i \in DuplicatesIn(t.input)
    <3>1. ASSUME NEW j \in Items, Deduplicate(r, j)
          PROVE  /\ j \in DuplicatesIn(s.input) /\ s.next \notin Unlinked
                 /\ \A i \in Items \ {j} : link'[i] = link[i]
      <4>1. s.next = "deduplicate" /\ j \in Work(r)
        BY <3>1 DEF Deduplicate, At, Pending
      <4>2. \A i \in Items \ {j} : link'[i] = link[i]
        BY <1>1, <3>1 DEF Deduplicate, Types
      <4> QED
        BY <4>1, <4>2 DEF Work, Unlinked, Unloaded
    <3>2. CASE \E j \in Items : Deduplicate(r, j)
      BY <1>2, <1>5, <3>1, <3>2
    <3>3. CASE UNCHANGED link
      BY <1>2, <1>5, <3>3
    <3> QED
      BY <1>3, <3>2, <3>3, WhatChanges
  <2>2. s.next \in {"propose_clusters", "verify_clusters"} =>
          /\ CandidateKeys(r)' = CandidateKeys(r)
          /\ \A c : Grouped(r, c)' = Grouped(r, c)
    <3>1. s.next \in {"propose_clusters", "verify_clusters"} =>
            \A q \in Runs, i \in Items : ~Classify(q, i)
      BY <1>3 DEF Classify, At
    <3> QED
      BY <1>5, <3>1, WhatChanges, GroupsStay
  <2>3. ASSUME active' = r, s.next = "propose_clusters"
        PROVE  /\ local'.planned => Partition(local'.plan, CandidateKeys(r)')
               /\ \A c \in local'.handled : \E row \in cluster'[c] :
                    row.members = Grouped(r, c)'
    <3>1. CASE local' = Fresh
      BY <3>1 DEF Fresh
    <3>2. CASE UNCHANGED <<local, cluster, active>>
      BY <1>2, <2>2, <2>3, <3>2
    <3>3. CASE ProposeGroups(r)
      <4>1. PICK groups, errs :
              /\ local' = Local(local.handled, local.produced, errs, groups, TRUE, local.stopped)
              /\ (groups = {} /\ CandidateKeys(r) = {}) \/ groups = {{k} : k \in CandidateKeys(r)}
                   \/ \E p \in Proposals : groups = ValidatedGroups(p, CandidateKeys(r))
        BY <1>1, <3>3, PlanIs
      <4>2. Partition(groups, CandidateKeys(r))
        <5>1. Partition({}, {})
          BY DEF Partition
        <5> QED
          BY <4>1, <5>1, SingletonsPartition, ValidatedPartition
      <4>3. local'.plan = groups /\ local'.handled = local.handled
        BY <4>1 DEF Local
      <4>4. local.handled = {}
        BY <1>1, <3>3 DEF ProposeGroups, At, Progress, Executing, Work
      <4> QED
        BY <2>2, <2>3, <4>2, <4>3, <4>4
    <3>4. ASSUME NEW k \in ClusterIds, ProposeCluster(r, k)
          PROVE  /\ local'.planned => Partition(local'.plan, CandidateKeys(r)')
                 /\ \A c \in local'.handled : \E row \in cluster'[c] :
                      row.members = Grouped(r, c)'
      <4>1. Handled(k) /\ active = r
        BY <3>4 DEF ProposeCluster, At
      <4>2. /\ local'.handled = local.handled \cup {k} /\ local'.plan = local.plan
            /\ local'.planned = local.planned
        BY <1>1, <4>1, HandledIs DEF Local
      <4>3. PICK row \in ClusterRow :
              cluster' = [cluster EXCEPT ![k] = {row}] /\ row.members = Grouped(r, k)
        BY <1>1, <3>4, ProposeClusterIs DEF Grouped
      <4>4. cluster'[k] = {row} /\ \A c \in ClusterIds \ {k} : cluster'[c] = cluster[c]
        BY <1>1, <4>3 DEF Types
      <4>5. local.handled \subseteq ClusterIds
        BY <1>1, <2>3, <4>1 DEF Types, Progress, Executing, Work
      <4> QED
        BY <1>2, <2>2, <2>3, <4>1, <4>2, <4>3, <4>4, <4>5
    <3>5. /\ \A q \in Runs : Invoke(q) \/ EndNode(q) => local' = Fresh
          /\ Crash => local' = Fresh
      BY DEF Invoke, EndNode, Crash
    <3>6. (\E i \in Items : Ingest(i)) \/ UNCHANGED vars => UNCHANGED <<local, cluster, active>>
      BY DEF Ingest, vars, store
    <3>7. \A q \in Runs : ~ReportStep(q)
      BY <1>3, <2>3 DEF ReportStep, RenderReport, VerifyRun, At
    <3>8. \A q \in Runs : LoopStep(q) =>
            ProposeGroups(r) \/ \E k \in ClusterIds : ProposeCluster(r, k)
      BY <1>3, <2>3 DEF LoopStep, Deduplicate, Classify, VerifyCluster, GenerateOpportunity,
         CriticReview, JudgeOpportunity, At
    <3> QED
      BY <3>1, <3>2, <3>3, <3>4, <3>5, <3>6, <3>7, <3>8 DEF Next, RunStep
  <2>4. ASSUME s.next = "verify_clusters"
        PROVE  /\ Partition(t.clusters, CandidateKeys(r)')
               /\ \A c \in t.clusters : \E row \in cluster'[c] :
                    row.members \cap t.classified = Grouped(r, c)'
    <3>1. CASE UNCHANGED cluster
      BY <1>2, <1>5, <2>2, <2>4, <3>1
    <3>2. ASSUME NEW k \in ClusterIds, VerifyCluster(r, k)
          PROVE  \A c \in s.clusters : \E row \in cluster'[c] :
                   row.members \cap s.classified = Grouped(r, c)
      <4>1. PICK old \in cluster[k], row \in ClusterRow :
              /\ cluster' = [cluster EXCEPT ![k] = {row}]
              /\ row.members = (old.members \cap evidence)
                   \cup {i \in evidence : link[i] \in old.members \cap evidence}
        BY <1>1, <3>2, VerifyClusterIs
      <4>2. /\ cluster[k] = {old} /\ old.members \subseteq Items
            /\ cluster'[k] = {row} /\ \A c \in ClusterIds \ {k} : cluster'[c] = cluster[c]
        <5>1. cluster \in [ClusterIds -> AtMostOne(ClusterRow)]
          BY <1>1 DEF Types
        <5>2. cluster[k] = {old}
          BY <5>1, OneRow
        <5> QED
          BY <1>1, <4>1, <5>1, <5>2, MembersAreItems
      <4>3. k \in s.clusters
        BY <2>4, <3>2 DEF VerifyCluster, Pending, Work
      <4>4. /\ s.classified \subseteq s.input \ DuplicatesIn(s.input)
            /\ s.input \subseteq evidence /\ s.input \subseteq Items
        BY <1>1, <2>4 DEF Stages, StageOf, Unsorted, Unloaded, Known, Types, State
      <4>5. \A i \in s.classified : link[i] = NoLink
        BY <1>2, <4>4
      <4>6. NoLink \notin Items
        BY ItemsAssumption DEF NoLink
      <4>7. row.members \cap s.classified = old.members \cap s.classified
        <5> HIDE DEF s
        <5> QED
          BY <4>1, <4>2, <4>4, <4>5, <4>6
      <4>8. old.members \cap s.classified = Grouped(r, k)
        BY <1>2, <2>4, <4>2, <4>3
      <4>9. s.clusters \subseteq ClusterIds
        BY <1>1 DEF Types, State
      <4> QED
        BY <1>2, <2>4, <4>2, <4>7, <4>8, <4>9
    <3>3. \A q \in Runs, k \in ClusterIds : ~ProposeCluster(q, k)
      BY <1>3, <2>4 DEF ProposeCluster, At
    <3>4. CASE \E k \in ClusterIds : VerifyCluster(r, k)
      BY <1>2, <1>5, <2>2, <2>4, <3>2, <3>4
    <3> QED
      BY <1>3, <3>1, <3>3, <3>4, WhatChanges
  <2> QED
    BY <1>5, <2>1, <2>3, <2>4
<1> QED
  BY <1>3, <1>4, <1>5, WhatChanges

\* Each relevant item a run has classified is a member of exactly one of its clusters
\* (ClustersPartitionEvidence), unless another run sharing the store has classified or
\* clustered it in the meantime.
THEOREM ClustersPartition == ASSUME OneRun PROVE Spec => []ClustersPartitionEvidence
<1>1. Init => PartInv
  <2> SUFFICES ASSUME Init PROVE PartInv
    OBVIOUS
  <2>1. /\ \A i \in Items : link[i] = NoLink
        /\ \A r \in Runs : checkpoint[r].next = "load_run"
    BY DEF Init, InitialState
  <2> QED
    BY <2>1 DEF PartInv
<1>2. IInv /\ Known /\ PartInv /\ [Next]_vars => PartInv'
  BY OneRun, PartStep
<1>3. IInv /\ PartInv => ClustersPartitionEvidence
  BY PartImplies DEF IInv
<1> QED
  BY <1>1, <1>2, <1>3, KnownInvariant, PTL DEF Spec
=============================================================================
