---------------------------- MODULE Acquisition ----------------------------
(***************************************************************************)
(* The two acquisition bridges, scripts/acquire_github_issues.py and       *)
(* scripts/acquire_stackoverflow_questions.py, and the workflow jobs that  *)
(* execute them: one page per query of the request file, classification,   *)
(* removal of repeated posts, round-robin selection up to a cap, output    *)
(* files, and the push of the output to a branch of its own.               *)
(*                                                                         *)
(* The API is external: a query is answered with any page, or fails in one *)
(* of the ways of Failures.  Both bridges share everything but the         *)
(* treatment of failures and the provenance file.  What makes a post       *)
(* ineligible, text conversion, delays and back-off are abstracted away.   *)
(*                                                                         *)
(* Two things are assumed.  The ids of the queries differ: the code keeps  *)
(* its lists and counts by id, and load_config does not check it.  And a   *)
(* post is the same on every page it is on, edits between calls left out.  *)
(***************************************************************************)
EXTENDS Naturals, Sequences, FiniteSets, Functions

CONSTANTS
  Bridges,      \* "github", "stackoverflow"
  Posts,        \* issues or questions the API may return
  Ineligible,   \* those classify_item gives a reason to exclude
  Invalid,      \* those RawEvidenceRecord refuses
  NumQueries,   \* queries of the request file
  Pages,        \* pages the API may answer with
  MaxRecords    \* min(max_records, MAX_RECORDS_CEILING)

ASSUME AcquisitionAssumption ==
  /\ Bridges \subseteq {"github", "stackoverflow"}
  /\ Ineligible \cup Invalid \subseteq Posts
  /\ Pages \subseteq Seq(Posts)
  /\ NumQueries \in Nat /\ MaxRecords \in Nat

Queries == 1 .. NumQueries

VARIABLES
  bridge,
  step,         \* what the job is doing
  query, item,  \* positions of the loop that is executing
  tries,        \* failed calls for the current query
  answered,     \* the queries the API has answered
  page,         \* the page each query was answered with
  excluded,     \* exclusion_counts, summed over the reasons
  invalid,      \* schema_failures
  records,      \* records_by_query
  matches,      \* matched_query_ids_by_qid
  duplicates,   \* duplicate_count
  kept,         \* eligible_by_query
  taken,        \* next_index, which is also accepted_per_query
  progress,     \* made_progress
  selected,     \* [post, query], in the order of the draw
  data,         \* the files under data/
  branch        \* what has been pushed

fetching == <<tries, answered, page>>
classifying == <<excluded, invalid, records, matches>>
deduplicating == <<duplicates, kept>>
selecting == <<taken, progress, selected>>
output == <<data, branch>>
vars == <<bridge, step, query, item, fetching, classifying, deduplicating,
          selecting, output>>

Nothing == [evidence |-> {}, provenance |-> {}, manifest |-> {}]

Init ==
  /\ bridge \in Bridges
  /\ step = IF NumQueries = 0 THEN "deduplicate" ELSE "fetch"
  /\ query = 1 /\ item = 1
  /\ tries = 0
  /\ answered = {}
  /\ page = [q \in Queries |-> <<>>]
  /\ excluded = 0 /\ invalid = 0
  /\ records = [q \in Queries |-> <<>>]
  /\ matches = [p \in Posts |-> {}]
  /\ duplicates = 0
  /\ kept = [q \in Queries |-> <<>>]
  /\ taken = [q \in Queries |-> 0]
  /\ progress = TRUE
  /\ selected = <<>>
  /\ data = Nothing /\ branch = Nothing

----------------------------------------------------------------------------
(* fetch_search_page_with_retry *)

\* refused: a 4xx answer, or a body that reports an API error.  unavailable: a
\* 5xx answer, or no connection.  garbled: an answer that breaks off or cannot
\* be decoded, which raises something else than a URLError.
Failures == {"refused", "unavailable", "garbled"}

GithubRetries == {"refused", "unavailable"}
StackoverflowRetries == {"unavailable"}

Retried(f) == f \in IF bridge = "github" THEN GithubRetries ELSE StackoverflowRetries

\* Faulty variant: the stackoverflow bridge skips a failed query, too.
AlwaysSkipped(f) == f \in {"refused", "unavailable"}

\* run_acquisition of the github bridge goes on with the next query.
Skipped(f) == bridge = "github" /\ f \in {"refused", "unavailable"}

FetchPage(pg) ==
  /\ step = "fetch"
  /\ page' = [page EXCEPT ![query] = pg]
  /\ answered' = answered \cup {query}
  /\ tries' = 0
  /\ step' = "classify" /\ item' = 1
  /\ UNCHANGED <<query, classifying, deduplicating, selecting, output>>

\* Faulty variant: the repetition is repeated, too.
FetchAgainTwice(f) ==
  /\ step = "fetch" /\ Retried(f) /\ tries <= 1
  /\ tries' = tries + 1
  /\ UNCHANGED <<step, query, item, answered, page, classifying, deduplicating,
                 selecting, output>>

FetchAgain(f) ==
  /\ step = "fetch" /\ Retried(f) /\ tries = 0
  /\ tries' = 1
  /\ UNCHANGED <<step, query, item, answered, page, classifying, deduplicating,
                 selecting, output>>

GivenUp(f) == step = "fetch" /\ (Retried(f) => tries = 1)

\* Faulty variant: schema_failures are counted and then forgotten.
NextQueryForgetting ==
  /\ query' = IF query = NumQueries THEN 1 ELSE query + 1
  /\ item' = 1
  /\ step' = IF query = NumQueries THEN "deduplicate" ELSE "fetch"
  /\ excluded' = excluded

\* The loop over the queries ends here: schema_failures become one more reason.
NextQuery ==
  /\ query' = IF query = NumQueries THEN 1 ELSE query + 1
  /\ item' = 1
  /\ step' = IF query = NumQueries THEN "deduplicate" ELSE "fetch"
  /\ excluded' = IF query = NumQueries THEN excluded + invalid ELSE excluded

SkipQuery(f) ==
  /\ GivenUp(f) /\ Skipped(f)
  /\ NextQuery
  /\ tries' = 0
  /\ UNCHANGED <<answered, page, invalid, records, matches, deduplicating,
                 selecting, output>>

\* The exception ends the script with a non-zero exit code, and the job.
Abort(f) ==
  /\ GivenUp(f) /\ ~Skipped(f)
  /\ step' = "failed"
  /\ UNCHANGED <<query, item, fetching, classifying, deduplicating, selecting,
                 output>>

----------------------------------------------------------------------------
(* classify_item, build_raw_record *)

Post == page[query][item]

AtItem == step = "classify" /\ item <= Len(page[query])

ExcludeItem ==
  /\ AtItem /\ Post \in Ineligible
  /\ excluded' = excluded + 1
  /\ item' = item + 1
  /\ UNCHANGED <<step, query, fetching, invalid, records, matches, deduplicating,
                 selecting, output>>

\* RawEvidenceRecord does not validate the record.
RefuseRecord ==
  /\ AtItem /\ Post \in Invalid \ Ineligible
  /\ invalid' = invalid + 1
  /\ item' = item + 1
  /\ UNCHANGED <<step, query, fetching, excluded, records, matches, deduplicating,
                 selecting, output>>

AcceptItem ==
  /\ AtItem /\ Post \notin Ineligible \cup Invalid
  /\ records' = [records EXCEPT ![query] = Append(@, Post)]
  /\ matches' = [matches EXCEPT ![Post] = @ \cup {query}]
  /\ item' = item + 1
  /\ UNCHANGED <<step, query, fetching, excluded, invalid, deduplicating, selecting,
                 output>>

EndPage ==
  /\ step = "classify" /\ item > Len(page[query])
  /\ NextQuery
  /\ UNCHANGED <<fetching, invalid, records, matches, deduplicating, selecting,
                 output>>

----------------------------------------------------------------------------
(* deduplicate_by_query *)

\* seen holds what has been kept, by any query.
Seen == UNION {Range(kept[q]) : q \in Queries}

Record == records[query][item]

KeepRecord ==
  /\ step = "deduplicate" /\ query <= NumQueries
  /\ item <= Len(records[query]) /\ Record \notin Seen
  /\ kept' = [kept EXCEPT ![query] = Append(@, Record)]
  /\ item' = item + 1
  /\ UNCHANGED <<step, query, fetching, classifying, duplicates, selecting, output>>

DropDuplicate ==
  /\ step = "deduplicate" /\ query <= NumQueries
  /\ item <= Len(records[query]) /\ Record \in Seen
  /\ duplicates' = duplicates + 1
  /\ item' = item + 1
  /\ UNCHANGED <<step, query, fetching, classifying, kept, selecting, output>>

EndRecords ==
  /\ step = "deduplicate" /\ query <= NumQueries
  /\ item > Len(records[query])
  /\ query' = query + 1 /\ item' = 1
  /\ UNCHANGED <<step, fetching, classifying, deduplicating, selecting, output>>

\* The first round of the selection begins.
EndDeduplication ==
  /\ step = "deduplicate" /\ query > NumQueries
  /\ step' = "select" /\ query' = 1 /\ progress' = FALSE
  /\ UNCHANGED <<item, fetching, classifying, deduplicating, taken, selected, output>>

----------------------------------------------------------------------------
(* select_round_robin *)

CapReached == Len(selected) >= MaxRecords

Exhausted(q) == taken[q] >= Len(kept[q])

\* Faulty variant: a query gives all it has before the next one is asked, as
\* when the records were sorted and then cut off.
DrawAll ==
  /\ step = "select" /\ query <= NumQueries
  /\ ~CapReached /\ ~Exhausted(query)
  /\ selected' = Append(selected,
       [post |-> kept[query][taken[query] + 1], query |-> query])
  /\ taken' = [taken EXCEPT ![query] = @ + 1]
  /\ progress' = TRUE
  /\ UNCHANGED <<step, query, item, fetching, classifying, deduplicating, output>>

Draw ==
  /\ step = "select" /\ query <= NumQueries
  /\ ~CapReached /\ ~Exhausted(query)
  /\ selected' = Append(selected,
       [post |-> kept[query][taken[query] + 1], query |-> query])
  /\ taken' = [taken EXCEPT ![query] = @ + 1]
  /\ progress' = TRUE
  /\ query' = query + 1
  /\ UNCHANGED <<step, item, fetching, classifying, deduplicating, output>>

PassOver ==
  /\ step = "select" /\ query <= NumQueries
  /\ ~CapReached /\ Exhausted(query)
  /\ query' = query + 1
  /\ UNCHANGED <<step, item, fetching, classifying, deduplicating, selecting, output>>

NextRound ==
  /\ step = "select" /\ query > NumQueries
  /\ ~CapReached /\ progress
  /\ query' = 1 /\ progress' = FALSE
  /\ UNCHANGED <<step, item, fetching, classifying, deduplicating, taken,
                 selected, output>>

\* Faulty variant: one round only.
EndAfterOneRound ==
  /\ step = "select"
  /\ CapReached \/ query > NumQueries
  /\ step' = "write"
  /\ UNCHANGED <<query, item, fetching, classifying, deduplicating, selecting, output>>

EndSelection ==
  /\ step = "select"
  /\ CapReached \/ (query > NumQueries /\ ~progress)
  /\ step' = "write"
  /\ UNCHANGED <<query, item, fetching, classifying, deduplicating, selecting, output>>

----------------------------------------------------------------------------
(* write_outputs, and the push of the workflow *)

\* A sum, as the number of its units.
Units(f) == UNION {{q} \X (1 .. f[q]) : q \in Queries}

Total(f) == Cardinality(Units(f))

Lengths(f) == [q \in Queries |-> Len(f[q])]

Manifest ==
  [fetched |-> Total(Lengths(page)),
   excluded |-> excluded,
   duplicates |-> duplicates,
   eligiblePerQuery |-> Lengths(kept),
   acceptedPerQuery |-> taken,
   overCap |-> Total(Lengths(kept)) - Len(selected),
   accepted |-> Len(selected)]

WriteGithub ==
  /\ step = "write" /\ bridge = "github"
  /\ data' = [evidence |-> Range(selected), provenance |-> {}, manifest |-> {Manifest}]
  /\ step' = "push"
  /\ UNCHANGED <<query, item, fetching, classifying, deduplicating, selecting, branch>>

\* Faulty variant: the query that owns the record is the only one recorded.
OwnerOnly(r) == [post |-> r.post, matched |-> {r.query}]

ProvenanceOf(r) == [post |-> r.post, matched |-> matches[r.post]]

WriteStackoverflow ==
  /\ step = "write" /\ bridge = "stackoverflow"
  /\ data' = [evidence |-> Range(selected),
              provenance |-> {ProvenanceOf(r) : r \in Range(selected)},
              manifest |-> {Manifest}]
  /\ step' = "push"
  /\ UNCHANGED <<query, item, fetching, classifying, deduplicating, selecting, branch>>

\* The next step of the job, on the branch named after the workflow run.
Push ==
  /\ step = "push"
  /\ branch' = data
  /\ step' = "pushed"
  /\ UNCHANGED <<query, item, fetching, classifying, deduplicating, selecting, data>>

\* timeout-minutes, or a cancelled job.
Kill ==
  /\ step \notin {"pushed", "failed"}
  /\ step' = "failed"
  /\ UNCHANGED <<query, item, fetching, classifying, deduplicating, selecting, output>>

----------------------------------------------------------------------------

Fetch == \/ \E pg \in Pages : FetchPage(pg)
         \/ \E f \in Failures : FetchAgain(f) \/ SkipQuery(f) \/ Abort(f)

JobStep ==
  /\ \/ Fetch
     \/ ExcludeItem \/ RefuseRecord \/ AcceptItem \/ EndPage
     \/ KeepRecord \/ DropDuplicate \/ EndRecords \/ EndDeduplication
     \/ Draw \/ PassOver \/ NextRound \/ EndSelection
     \/ WriteGithub \/ WriteStackoverflow \/ Push
  /\ UNCHANGED bridge

Next == JobStep \/ (Kill /\ UNCHANGED bridge)

Spec == Init /\ [][Next]_vars

----------------------------------------------------------------------------
(* Properties *)

\* The position of every loop, the counters and the lists stay in their ranges;
\* in particular a search is repeated once at most.
TypeOK ==
  /\ bridge \in Bridges
  /\ step \in {"fetch", "classify", "deduplicate", "select", "write", "push",
               "pushed", "failed"}
  /\ query \in 1 .. NumQueries + 1 /\ item \in Nat \ {0}
  /\ tries \in 0 .. 1
  /\ answered \subseteq Queries
  /\ page \in [Queries -> Seq(Posts)]
  /\ excluded \in Nat /\ invalid \in Nat /\ duplicates \in Nat
  /\ records \in [Queries -> Seq(Posts)] /\ kept \in [Queries -> Seq(Posts)]
  /\ matches \in [Posts -> SUBSET Queries]
  /\ taken \in [Queries -> Nat]
  /\ progress \in BOOLEAN
  /\ selected \in Seq([post : Posts, query : Queries])

\* The manifest that is pushed accounts for every post the API returned: it was
\* excluded for a reason, repeated, left out by the cap, or it is in the evidence
\* file (the counters of run_acquisition and write_outputs, kept in four places).
CountsAddUp ==
  \A m \in branch.manifest :
    /\ m.fetched = m.excluded + m.duplicates + Total(m.eligiblePerQuery)
    /\ Total(m.eligiblePerQuery) = m.accepted + m.overCap
    /\ Total(m.acceptedPerQuery) = m.accepted
    /\ m.accepted = Cardinality(branch.evidence)

\* The cap is shared out fairly, "one record per query per round": as long as a
\* query has records left, no query before it has more than one record more, and
\* no query after it more records, in the evidence that is pushed.
RoundRobinIsFair ==
  \A m \in branch.manifest : \A p, q \in Queries :
    m.acceptedPerQuery[q] < m.eligiblePerQuery[q] =>
      m.acceptedPerQuery[p] <= m.acceptedPerQuery[q] + (IF p < q THEN 1 ELSE 0)

Eligible == (UNION {Range(page[q]) : q \in Queries}) \ (Ineligible \cup Invalid)

\* A bridge publishes as many of the eligible posts as the cap admits: no place
\* is lost to a post that is excluded later, or found by two queries.
CapIsUsed ==
  branch.manifest # {} =>
    Cardinality(branch.evidence) =
      IF Cardinality(Eligible) < MaxRecords THEN Cardinality(Eligible) ELSE MaxRecords

FirstMatch(p) == CHOOSE q \in Queries :
  p \in Range(page[q]) /\ \A r \in Queries : p \in Range(page[r]) => q <= r

\* "Whichever query is first in that list owns a source_id": what is pushed is an
\* eligible post under the first query of the request file that found it,
\* whatever the order in which the rounds of the selection came to it; and the
\* provenance file of the stackoverflow bridge has one row for every record, with
\* all the queries that found the post, those whose copy of it was dropped as a
\* duplicate included.
RecordsAreAttributed ==
  /\ \A r \in branch.evidence : r.post \in Eligible /\ r.query = FirstMatch(r.post)
  /\ bridge = "stackoverflow" =>
       branch.provenance =
         {[post |-> r.post, matched |-> {q \in Queries : r.post \in Range(page[q])}] :
             r \in branch.evidence}

\* "A swallowed API error must never look like zero matches": what the
\* stackoverflow bridge publishes rests on an answer to every query.
FailureIsLoud ==
  bridge = "stackoverflow" /\ branch.manifest # {} => answered = Queries

=============================================================================
