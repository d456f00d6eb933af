------------------------- MODULE AcquisitionProofs -------------------------
(***************************************************************************)
(* Proofs about Acquisition, for all request files, pages and caps.        *)
(***************************************************************************)
EXTENDS Acquisition, FiniteSetTheorems, FunctionTheorems, TLAPS

----------------------------------------------------------------------------
(* The inductive invariant, phase by phase *)

Reading == {"fetch", "classify"}
Deduplicated == {"select", "write", "push", "pushed"}
Classified == {"deduplicate"} \cup Deduplicated

Refused == Ineligible \cup Invalid

\* How far the loop over the pages is.
Read == [q \in Queries |->
           IF q < query THEN Len(page[q])
           ELSE IF q = query /\ step = "classify" THEN item - 1 ELSE 0]

\* What has been read of each page is counted, and on record unless refused.
ReadingInv == step \in Reading =>
  /\ query \in Queries
  /\ \A q \in Queries : q > query \/ (q = query /\ step = "fetch") => page[q] = <<>>
  /\ step = "classify" => item \in 1 .. Len(page[query]) + 1
  /\ \A q \in Queries : \A p \in Posts :
       p \in Range(records[q]) <=> p \notin Refused /\ \E k \in 1 .. Read[q] : page[q][k] = p
  /\ excluded + invalid + Total(Lengths(records)) = Total(Read)
  /\ bridge = "stackoverflow" =>
       \A q \in Queries : q < query \/ (q = query /\ step = "classify") => q \in answered

ClassifiedInv == step \in Classified =>
  /\ \A q \in Queries : \A p \in Posts :
       p \in Range(records[q]) <=> p \in Range(page[q]) \ Refused
  /\ excluded + Total(Lengths(records)) = Total(Lengths(page))
  /\ bridge = "stackoverflow" => answered = Queries

MatchesInv == \A p \in Posts : matches[p] = {q \in Queries : p \in Range(records[q])}

\* How far the loop over the records is.
Sorted == [q \in Queries |->
             IF q < query \/ step # "deduplicate" THEN Len(records[q])
             ELSE IF q = query THEN item - 1 ELSE 0]

\* A post is kept once, by the first query that has it; the others are counted.
KeptInv == step \in Classified =>
  /\ step = "deduplicate" /\ query \in Queries => item \in 1 .. Len(records[query]) + 1
  /\ \A q \in Queries : \A n \in 1 .. Len(kept[q]) :
       /\ \E k \in 1 .. Sorted[q] : records[q][k] = kept[q][n]
       /\ \A r \in Queries : r < q => kept[q][n] \notin Range(records[r])
       /\ \A m \in 1 .. Len(kept[q]) : kept[q][m] = kept[q][n] => m = n
  /\ \A q \in Queries : \A k \in 1 .. Sorted[q] : records[q][k] \in Seen
  /\ IsFiniteSet(Seen) /\ Cardinality(Seen) = Total(Lengths(kept))
  /\ duplicates + Total(Lengths(kept)) = Total(Sorted)

\* Before the selection there is nothing to select from, and nothing selected.
NotYet ==
  /\ step \in Reading => kept = [q \in Queries |-> <<>>] /\ duplicates = 0
  /\ step \in Reading \cup {"deduplicate"} =>
       taken = [q \in Queries |-> 0] /\ selected = <<>>

\* Every query has had its turn in as many rounds, and those in front of the loop
\* in one more: "one record per query per round".
InRounds == \E r \in Nat : \A q \in Queries :
  LET turns == IF q < query THEN r + 1 ELSE r
  IN taken[q] = IF turns < Len(kept[q]) THEN turns ELSE Len(kept[q])

Drawn == {[post |-> kept[u[1]][u[2]], query |-> u[1]] : u \in Units(taken)}

SelectionInv == step \in Deduplicated =>
  /\ InRounds
  /\ Range(selected) = Drawn
  /\ Len(selected) = Total(taken) /\ Len(selected) <= MaxRecords
  /\ IsFiniteSet(Drawn) /\ Cardinality(Drawn) = Total(taken)
  /\ step = "select" /\ ~progress =>
       \A q \in Queries : q < query => taken[q] = Len(kept[q])
  /\ step # "select" =>
       CapReached \/ \A q \in Queries : taken[q] = Len(kept[q])

Output == [evidence |-> Range(selected),
           provenance |-> IF bridge = "github" THEN {}
                          ELSE {ProvenanceOf(r) : r \in Range(selected)},
           manifest |-> {Manifest}]

OutputInv ==
  /\ step \notin {"push", "pushed", "failed"} => data = Nothing
  /\ step \in {"push", "pushed"} => data = Output
  /\ branch = IF step = "pushed" THEN data ELSE Nothing

IInv == /\ TypeOK /\ ReadingInv /\ ClassifiedInv /\ MatchesInv /\ KeptInv /\ NotYet
        /\ SelectionInv /\ OutputInv

----------------------------------------------------------------------------
(* Sums and sequences *)

LEMMA QueriesFinite == IsFiniteSet(Queries) /\ Queries \subseteq Nat \ {0}
<1>1. 1 \in Int /\ NumQueries \in Int
  BY AcquisitionAssumption
<1>2. IsFiniteSet(1 .. NumQueries)
  BY <1>1, FS_Interval
<1> QED
  BY <1>2 DEF Queries

\* A sum over the queries is a number.
LEMMA TotalType ==
  ASSUME NEW f \in [Queries -> Nat]
  PROVE  IsFiniteSet(Units(f)) /\ Total(f) \in Nat
<1> DEFINE part == [q \in Queries |-> {q} \X (1 .. f[q])]
           parts == Range(part)
<1>1. IsFiniteSet(parts)
  <2>1. part \in Surjection(Queries, parts)
    <3>1. part \in [Queries -> Range(part)]
      BY DEF Range
    <3> QED
      BY <3>1, Fun_RangeProperties
  <2> QED
    BY <2>1, QueriesFinite, FS_Surjection
<1>2. ASSUME NEW x \in parts PROVE IsFiniteSet(x)
  <2>1. PICK q \in Queries : x = {q} \X (1 .. f[q])
    BY DEF Range
  <2>2. 1 \in Int /\ f[q] \in Int
    OBVIOUS
  <2>3. IsFiniteSet(1 .. f[q]) /\ IsFiniteSet({q})
    BY <2>2, FS_Interval, FS_Singleton
  <2> QED
    BY <2>1, <2>3, FS_Product
<1>3. Units(f) = UNION parts
  BY DEF Units, Range
<1>4. IsFiniteSet(UNION parts)
  BY <1>1, <1>2, FS_UNION
<1> QED
  BY <1>3, <1>4, FS_CardinalityType DEF Total

LEMMA UnitsAre ==
  ASSUME NEW f
  PROVE  \A u : u \in Units(f) <=> \E q \in Queries : \E n \in 1 .. f[q] : u = <<q, n>>
  BY DEF Units

\* One more for one query is one more in all.
LEMMA TotalStep ==
  ASSUME NEW f \in [Queries -> Nat], NEW g \in [Queries -> Nat], NEW q \in Queries,
         g[q] = f[q] + 1, \A r \in Queries \ {q} : g[r] = f[r]
  PROVE  /\ Units(g) = Units(f) \cup {<<q, f[q] + 1>>}
         /\ <<q, f[q] + 1>> \notin Units(f)
         /\ Total(g) = Total(f) + 1
<1>1. ASSUME NEW u
      PROVE  u \in Units(g) <=> u \in Units(f) \/ u = <<q, f[q] + 1>>
  <2>1. u \in Units(g) => u \in Units(f) \/ u = <<q, f[q] + 1>>
    <3> SUFFICES ASSUME u \in Units(g) PROVE u \in Units(f) \/ u = <<q, f[q] + 1>>
      OBVIOUS
    <3>1. PICK r \in Queries : \E n \in 1 .. g[r] : u = <<r, n>>
      BY UnitsAre
    <3>2. \A n \in 1 .. g[r] : n \in 1 .. f[r] \/ (r = q /\ n = f[q] + 1)
      OBVIOUS
    <3> QED
      BY <3>1, <3>2, UnitsAre
  <2>2. u \in Units(f) => u \in Units(g)
    <3> SUFFICES ASSUME u \in Units(f) PROVE u \in Units(g)
      OBVIOUS
    <3>1. PICK r \in Queries : \E n \in 1 .. f[r] : u = <<r, n>>
      BY UnitsAre
    <3>2. \A n \in 1 .. f[r] : n \in 1 .. g[r]
      OBVIOUS
    <3> QED
      BY <3>1, <3>2, UnitsAre
  <2>3. <<q, f[q] + 1>> \in Units(g)
    <3>1. f[q] + 1 \in 1 .. g[q]
      OBVIOUS
    <3> QED
      BY <3>1, UnitsAre
  <2> QED
    BY <2>1, <2>2, <2>3
<1>2. Units(g) = Units(f) \cup {<<q, f[q] + 1>>}
  BY <1>1
<1>3. <<q, f[q] + 1>> \notin Units(f)
  <2> SUFFICES ASSUME NEW r \in Queries, NEW n \in 1 .. f[r], <<q, f[q] + 1>> = <<r, n>>
               PROVE  FALSE
    BY UnitsAre
  <2> QED
    OBVIOUS
<1>4. Total(g) = Total(f) + 1
  BY <1>2, <1>3, TotalType, FS_AddElement DEF Total
<1> QED
  BY <1>2, <1>3, <1>4

LEMMA TotalZero ==
  ASSUME NEW f \in [Queries -> Nat], \A q \in Queries : f[q] = 0
  PROVE  Units(f) = {} /\ Total(f) = 0
<1>1. Units(f) = {}
  BY UnitsAre
<1> QED
  BY <1>1, FS_EmptySet DEF Total

LEMMA TotalMonotone ==
  ASSUME NEW f \in [Queries -> Nat], NEW g \in [Queries -> Nat],
         \A q \in Queries : f[q] <= g[q]
  PROVE  Total(f) <= Total(g)
<1>1. ASSUME NEW u \in Units(f) PROVE u \in Units(g)
  <2>1. PICK q \in Queries : \E n \in 1 .. f[q] : u = <<q, n>>
    BY UnitsAre
  <2>2. \A n \in 1 .. f[q] : n \in 1 .. g[q]
    OBVIOUS
  <2> QED
    BY <2>1, <2>2, UnitsAre
<1>2. Units(f) \in SUBSET Units(g)
  BY <1>1
<1> QED
  BY <1>2, TotalType, FS_Subset DEF Total

LEMMA LengthsType ==
  ASSUME NEW S, NEW f \in [Queries -> Seq(S)]
  PROVE  Lengths(f) \in [Queries -> Nat] /\ \A q \in Queries : Lengths(f)[q] = Len(f[q])
  BY DEF Lengths

\* What a sequence holds after an element was put at its end.
LEMMA AppendFacts ==
  ASSUME NEW S, NEW s \in Seq(S), NEW x \in S
  PROVE  /\ Append(s, x) \in Seq(S)
         /\ Len(Append(s, x)) = Len(s) + 1
         /\ Append(s, x)[Len(s) + 1] = x
         /\ \A n \in 1 .. Len(s) : Append(s, x)[n] = s[n]
         /\ Range(Append(s, x)) = Range(s) \cup {x}
<1>1. /\ Append(s, x) \in Seq(S) /\ Len(s) \in Nat
      /\ Len(Append(s, x)) = Len(s) + 1
      /\ Append(s, x)[Len(s) + 1] = x
      /\ \A n \in 1 .. Len(s) : Append(s, x)[n] = s[n]
  OBVIOUS
<1>2. DOMAIN Append(s, x) = 1 .. Len(s) + 1 /\ DOMAIN s = 1 .. Len(s)
  BY <1>1
<1>3. ASSUME NEW y PROVE y \in Range(Append(s, x)) <=> y \in Range(s) \cup {x}
  <2>1. y \in Range(Append(s, x)) <=> \E n \in 1 .. Len(s) + 1 : Append(s, x)[n] = y
    BY <1>2 DEF Range
  <2>2. y \in Range(s) <=> \E n \in 1 .. Len(s) : s[n] = y
    BY <1>2 DEF Range
  <2>3. \A n : n \in 1 .. Len(s) + 1 <=> n \in 1 .. Len(s) \/ n = Len(s) + 1
    BY <1>1
  <2> QED
    BY <1>1, <2>1, <2>2, <2>3
<1> QED
  BY <1>1, <1>3

LEMMA RangeIs ==
  ASSUME NEW S, NEW s \in Seq(S)
  PROVE  /\ Range(s) \subseteq S
         /\ \A x : x \in Range(s) <=> \E n \in 1 .. Len(s) : s[n] = x
<1>1. DOMAIN s = 1 .. Len(s) /\ \A n \in 1 .. Len(s) : s[n] \in S
  OBVIOUS
<1> QED
  BY <1>1 DEF Range


----------------------------------------------------------------------------
(* Types *)

LEMMA TypeFacts ==
  ASSUME TypeOK
  PROVE  /\ Lengths(page) \in [Queries -> Nat]
         /\ Lengths(records) \in [Queries -> Nat]
         /\ Lengths(kept) \in [Queries -> Nat]
         /\ \A q \in Queries : /\ Lengths(page)[q] = Len(page[q])
                               /\ Lengths(records)[q] = Len(records[q])
                               /\ Lengths(kept)[q] = Len(kept[q])
         /\ \A q \in Queries : /\ Len(page[q]) \in Nat /\ page[q] \in Seq(Posts)
                               /\ Len(records[q]) \in Nat /\ records[q] \in Seq(Posts)
                               /\ Len(kept[q]) \in Nat /\ kept[q] \in Seq(Posts)
<1>1. /\ page \in [Queries -> Seq(Posts)] /\ records \in [Queries -> Seq(Posts)]
      /\ kept \in [Queries -> Seq(Posts)]
  BY DEF TypeOK
<1>2. \A f \in [Queries -> Seq(Posts)] : \A q \in Queries : f[q] \in Seq(Posts) /\ Len(f[q]) \in Nat
  OBVIOUS
<1> QED
  BY <1>1, <1>2, LengthsType

LEMMA ReadType == TypeOK => Read \in [Queries -> Nat] /\ Sorted \in [Queries -> Nat]
  BY TypeFacts DEF Read, Sorted, TypeOK

\* Every step keeps the types, once the loop over the pages stays in its range.
LEMMA NextTypeOK ==
  ASSUME TypeOK, step \in Reading => query \in Queries, [Next]_vars
  PROVE  TypeOK'
<1> USE AcquisitionAssumption DEF TypeOK, Reading
<1> USE DEF fetching, classifying, deduplicating, selecting, output
<1>1. CASE UNCHANGED vars
  BY <1>1 DEF vars
<1>2. ASSUME NEW pg \in Pages, FetchPage(pg), UNCHANGED bridge PROVE TypeOK'
  BY <1>2 DEF FetchPage
<1>3. ASSUME NEW f, FetchAgain(f), UNCHANGED bridge PROVE TypeOK'
  BY <1>3 DEF FetchAgain
<1>4. ASSUME NextQuery, step \in Reading
      PROVE  /\ query' \in 1 .. NumQueries + 1 /\ item' \in Nat \ {0} /\ excluded' \in Nat
             /\ step' \in {"fetch", "deduplicate"}
  BY <1>4 DEF NextQuery, Queries
<1>5. ASSUME NEW f, SkipQuery(f), UNCHANGED bridge PROVE TypeOK'
  BY <1>4, <1>5 DEF SkipQuery, GivenUp
<1>6. ASSUME NEW f, Abort(f), UNCHANGED bridge PROVE TypeOK'
  BY <1>6 DEF Abort
<1>7. CASE ExcludeItem /\ UNCHANGED bridge
  BY <1>7 DEF ExcludeItem, AtItem
<1>8. CASE RefuseRecord /\ UNCHANGED bridge
  BY <1>8 DEF RefuseRecord, AtItem
<1>9. CASE AcceptItem /\ UNCHANGED bridge
  <2>1. query \in Queries /\ Post \in Posts
    BY <1>9 DEF AcceptItem, AtItem, Post
  <2>2. Append(records[query], Post) \in Seq(Posts)
    BY <2>1, TypeFacts, AppendFacts
  <2>3. records' \in [Queries -> Seq(Posts)]
    BY <1>9, <2>1, <2>2 DEF AcceptItem
  <2>4. matches' \in [Posts -> SUBSET Queries]
    BY <1>9, <2>1 DEF AcceptItem
  <2> QED
    BY <1>9, <2>3, <2>4 DEF AcceptItem, AtItem
<1>10. CASE EndPage /\ UNCHANGED bridge
  BY <1>4, <1>10 DEF EndPage
<1>11. CASE KeepRecord /\ UNCHANGED bridge
  <2>1. query \in Queries
    BY <1>11 DEF KeepRecord, Queries
  <2>2. Record \in Posts
    BY <1>11, <2>1 DEF KeepRecord, Record
  <2>3. Append(kept[query], Record) \in Seq(Posts)
    BY <2>1, <2>2, TypeFacts, AppendFacts
  <2>4. kept' \in [Queries -> Seq(Posts)]
    BY <1>11, <2>1, <2>3 DEF KeepRecord
  <2> QED
    BY <1>11, <2>4 DEF KeepRecord
<1>12. CASE DropDuplicate /\ UNCHANGED bridge
  BY <1>12 DEF DropDuplicate
<1>13. CASE EndRecords /\ UNCHANGED bridge
  <2>1. query' \in 1 .. NumQueries + 1 /\ item' \in Nat \ {0}
    BY <1>13 DEF EndRecords
  <2> QED
    BY <1>13, <2>1 DEF EndRecords
<1>17. CASE EndDeduplication /\ UNCHANGED bridge
  <2>1. progress' \in BOOLEAN
    BY <1>17, Zenon DEF EndDeduplication
  <2> QED
    BY <1>17, <2>1 DEF EndDeduplication
<1>14. CASE Draw /\ UNCHANGED bridge
  <2>1. query \in Queries /\ taken[query] + 1 \in 1 .. Len(kept[query])
    BY <1>14 DEF Draw, Queries, Exhausted
  <2>2. [post |-> kept[query][taken[query] + 1], query |-> query] \in [post : Posts, query : Queries]
    BY <2>1
  <2>3. selected' \in Seq([post : Posts, query : Queries])
    BY <1>14, <2>2, AppendFacts DEF Draw
  <2>4. taken' \in [Queries -> Nat]
    BY <1>14, <2>1 DEF Draw
  <2> QED
    BY <1>14, <2>3, <2>4 DEF Draw
<1>15. CASE PassOver /\ UNCHANGED bridge
  <2>1. query' \in 1 .. NumQueries + 1
    BY <1>15 DEF PassOver
  <2> QED
    BY <1>15, <2>1 DEF PassOver
<1>18. CASE NextRound /\ UNCHANGED bridge
  <2>1. query' \in 1 .. NumQueries + 1
    BY <1>18 DEF NextRound
  <2>2. progress' \in BOOLEAN
    BY <1>18, Zenon DEF NextRound
  <2> QED
    BY <1>18, <2>1, <2>2 DEF NextRound
<1>19. CASE EndSelection /\ UNCHANGED bridge
  BY <1>19 DEF EndSelection
<1>16. CASE (WriteGithub \/ WriteStackoverflow \/ Push \/ Kill) /\ UNCHANGED bridge
  BY <1>16 DEF WriteGithub, WriteStackoverflow, Push, Kill
<1> QED
  BY <1>1, <1>2, <1>3, <1>5, <1>6, <1>7, <1>8, <1>9, <1>10, <1>11, <1>12, <1>13,
     <1>14, <1>15, <1>16, <1>17, <1>18, <1>19 DEF Next, JobStep, Fetch

----------------------------------------------------------------------------
(* What a step leaves alone *)

LEMMA StepIs == TypeOK => step \in Reading \cup Classified \cup {"failed"}
  BY DEF TypeOK, Reading, Classified, Deduplicated

LEMMA OutputStays ==
  ASSUME OutputInv, UNCHANGED output,
         step \notin {"push", "pushed", "failed"}, step' \notin {"push", "pushed"}
  PROVE  OutputInv'
  BY DEF OutputInv, output

LEMMA ClassifiedStays ==
  ASSUME ClassifiedInv, MatchesInv, step \in Classified, step' \in Classified,
         UNCHANGED <<bridge, fetching, classifying>>
  PROVE  ReadingInv' /\ ClassifiedInv' /\ MatchesInv'
  BY DEF Reading, ReadingInv, Classified, Deduplicated, ClassifiedInv, MatchesInv, Lengths,
     fetching, classifying

LEMMA KeptStays ==
  ASSUME KeptInv, step \in Deduplicated, step' \in Deduplicated,
         UNCHANGED <<records, deduplicating>>
  PROVE  KeptInv'
<1>1. Sorted' = Sorted
  BY DEF Sorted, Deduplicated, deduplicating
<1>2. Seen' = Seen /\ Lengths(kept)' = Lengths(kept) /\ step \in Classified
      /\ kept' = kept /\ duplicates' = duplicates
      /\ step # "deduplicate" /\ step' # "deduplicate"
  BY DEF Seen, Lengths, Deduplicated, Classified, deduplicating
<1> QED
  BY <1>1, <1>2 DEF KeptInv

LEMMA SelectionStays ==
  ASSUME SelectionInv, step \in Deduplicated, step' \in Deduplicated \ {"select"},
         step = "select" => CapReached \/ \A q \in Queries : taken[q] = Len(kept[q]),
         UNCHANGED <<query, kept, selecting>>
  PROVE  SelectionInv'
<1>1. Drawn' = Drawn /\ InRounds' /\ CapReached' = CapReached
  BY DEF Drawn, SelectionInv, InRounds, CapReached, selecting
<1> QED
  BY <1>1 DEF SelectionInv, selecting

LEMMA NotYetStays ==
  ASSUME NotYet, step' \in Reading => step \in Reading,
         step' = "deduplicate" => step \in Reading \cup {"deduplicate"},
         UNCHANGED <<taken, selected, progress>>,
         step' \in Reading => UNCHANGED deduplicating
  PROVE  NotYet'
  BY DEF NotYet, Reading, deduplicating

\* A job that ends early has published nothing, and will not.
LEMMA FailedIInv ==
  ASSUME IInv, TypeOK', step \notin {"pushed", "failed"}, step' = "failed",
         UNCHANGED <<bridge, query, item, fetching, classifying, deduplicating,
                     selecting, output>>
  PROVE  IInv'
<1>1. OutputInv'
  BY DEF IInv, OutputInv, output
<1>2. MatchesInv'
  BY DEF IInv, MatchesInv, classifying
<1>3. ReadingInv' /\ ClassifiedInv' /\ KeptInv' /\ NotYet' /\ SelectionInv'
  BY DEF Reading, Classified, Deduplicated, ReadingInv, ClassifiedInv, KeptInv, NotYet,
     SelectionInv
<1> QED
  BY <1>1, <1>2, <1>3 DEF IInv

\* While pages are read, only ReadingInv and MatchesInv have something to say.
LEMMA StillReading ==
  ASSUME IInv, TypeOK', step \in Reading, step' \in Reading, ReadingInv', MatchesInv',
         UNCHANGED <<deduplicating, selecting, output>>
  PROVE  IInv'
<1>1. OutputInv'
  BY OutputStays DEF IInv, Reading
<1>2. NotYet'
  BY NotYetStays DEF IInv, Reading, selecting
<1>3. ClassifiedInv' /\ KeptInv' /\ SelectionInv'
  BY DEF Reading, Classified, Deduplicated, ClassifiedInv, KeptInv, SelectionInv
<1> QED
  BY <1>1, <1>2, <1>3 DEF IInv

\* While duplicates are removed, only KeptInv has something to say.
LEMMA StillDeduplicating ==
  ASSUME IInv, TypeOK', step = "deduplicate", step' = "deduplicate", KeptInv',
         UNCHANGED <<bridge, fetching, classifying, selecting, output>>
  PROVE  IInv'
<1>1. OutputInv'
  BY OutputStays DEF IInv
<1>2. NotYet'
  BY NotYetStays DEF IInv, Reading, selecting
<1>3. ReadingInv' /\ ClassifiedInv' /\ MatchesInv'
  BY ClassifiedStays DEF IInv, Classified
<1>4. SelectionInv'
  BY DEF Deduplicated, SelectionInv
<1> QED
  BY <1>1, <1>2, <1>3, <1>4 DEF IInv

\* While records are selected, only SelectionInv has something to say.
LEMMA StillSelecting ==
  ASSUME IInv, TypeOK', step = "select", step' \in {"select", "write"}, SelectionInv',
         UNCHANGED <<bridge, fetching, classifying, deduplicating, output>>
  PROVE  IInv'
<1>1. OutputInv'
  BY OutputStays DEF IInv
<1>2. NotYet'
  BY DEF NotYet, Reading
<1>3. ReadingInv' /\ ClassifiedInv' /\ MatchesInv'
  BY ClassifiedStays DEF IInv, Classified, Deduplicated
<1>4. KeptInv'
  BY KeptStays DEF IInv, Deduplicated, classifying
<1> QED
  BY <1>1, <1>2, <1>3, <1>4 DEF IInv

----------------------------------------------------------------------------
(* Reading *)

LEMMA FetchPageIInv ==
  ASSUME IInv, TypeOK', NEW pg \in Pages, FetchPage(pg), UNCHANGED bridge
  PROVE  IInv'
<1> USE DEF Reading
<1>1. /\ query \in Queries /\ step = "fetch" /\ step' = "classify" /\ query' = query
      /\ item' = 1 /\ page \in [Queries -> Seq(Posts)] /\ Queries \subseteq Nat
      /\ answered' = answered \cup {query} /\ page' = [page EXCEPT ![query] = pg]
      /\ UNCHANGED <<excluded, invalid, records, matches, deduplicating, selecting, output>>
  BY QueriesFinite DEF IInv, ReadingInv, TypeOK, FetchPage, classifying
<1>2. \A q \in Queries : q # query => page'[q] = page[q]
  BY <1>1
<1>3. Read' = Read
  BY <1>1, <1>2 DEF Read
<1>4. \A q \in Queries : \A p : (\E k \in 1 .. Read[q] : page'[q][k] = p)
                                 <=> (\E k \in 1 .. Read[q] : page[q][k] = p)
  <2>1. ASSUME NEW q \in Queries
        PROVE  \A p : (\E k \in 1 .. Read[q] : page'[q][k] = p)
                         <=> (\E k \in 1 .. Read[q] : page[q][k] = p)
    <3>1. CASE q = query
      <4>1. Read[q] = 0
        BY <1>1, <3>1 DEF Read
      <4> QED
        BY <4>1
    <3>2. CASE q # query
      BY <1>2, <3>2
    <3> QED
      BY <3>1, <3>2
  <2> QED
    BY <2>1
<1>5. Len(page'[query]) \in Nat
  BY <1>1, TypeFacts DEF TypeOK
<1>6. Lengths(records)' = Lengths(records)
  BY <1>1 DEF Lengths
<1>7. ReadingInv'
  <2>1. \A q \in Queries : q > query' => page'[q] = <<>>
    BY <1>1, <1>2 DEF IInv, ReadingInv
  <2>2. item' \in 1 .. Len(page'[query']) + 1
    BY <1>1, <1>5
  <2>3. \A q \in Queries : \A p \in Posts :
          p \in Range(records'[q]) <=> p \notin Refused /\ \E k \in 1 .. Read'[q] : page'[q][k] = p
    <3>1. \A q \in Queries : \A p \in Posts :
            p \in Range(records[q]) <=> p \notin Refused /\ \E k \in 1 .. Read[q] : page[q][k] = p
      BY <1>1 DEF IInv, ReadingInv
    <3>2. records' = records
      BY <1>1
    <3> QED
      BY <3>1, <3>2, <1>3, <1>4
  <2>4. excluded' + invalid' + Total(Lengths(records)') = Total(Read')
    BY <1>1, <1>3, <1>6 DEF IInv, ReadingInv
  <2>5. bridge' = "stackoverflow" =>
          \A q \in Queries : q < query' \/ q = query' => q \in answered'
    BY <1>1 DEF IInv, ReadingInv
  <2> QED
    BY <1>1, <2>1, <2>2, <2>3, <2>4, <2>5 DEF ReadingInv, Total, Units
<1>8. MatchesInv'
  BY <1>1 DEF IInv, MatchesInv
<1> QED
  BY <1>1, <1>7, <1>8, StillReading

LEMMA FetchAgainIInv ==
  ASSUME IInv, TypeOK', NEW f, FetchAgain(f), UNCHANGED bridge
  PROVE  IInv'
<1>1. ReadingInv' /\ MatchesInv'
  BY DEF IInv, ReadingInv, MatchesInv, Reading, Read, Lengths, FetchAgain, classifying
<1> QED
  BY <1>1, StillReading DEF FetchAgain, Reading

\* One more post of the page at hand has been looked at.
LEMMA ReadOne ==
  ASSUME IInv, AtItem, item' = item + 1, UNCHANGED <<step, query, page>>
  PROVE  /\ query \in Queries /\ item \in 1 .. Len(page[query]) /\ Post \in Posts
         /\ Total(Read') = Total(Read) + 1 /\ Total(Read) \in Nat
         /\ Read' \in [Queries -> Nat]
         /\ \A q \in Queries : \A p :
              (\E k \in 1 .. Read'[q] : page[q][k] = p)
                 <=> (q = query /\ p = Post) \/ \E k \in 1 .. Read[q] : page[q][k] = p
<1>a. query \in Queries /\ step = "classify" /\ TypeOK
  BY DEF IInv, ReadingInv, AtItem, Reading
<1>b. page[query] \in Seq(Posts) /\ Len(page[query]) \in Nat
  BY <1>a, TypeFacts
<1>1. /\ query \in Queries /\ item \in 1 .. Len(page[query]) /\ step = "classify"
      /\ Queries \subseteq Nat /\ page[query] \in Seq(Posts)
  BY <1>a, <1>b, QueriesFinite DEF TypeOK, AtItem
<1>2. Read \in [Queries -> Nat] /\ Total(Read) \in Nat
  BY ReadType, TotalType DEF IInv
<1>3. Read[query] = item - 1 /\ Read'[query] = item
  BY <1>1 DEF Read
<1>4. \A q \in Queries \ {query} : Read'[q] = Read[q]
  BY <1>1 DEF Read
<1>5. Read' \in [Queries -> Nat]
  <2>1. Read' = [q \in Queries |-> Read'[q]]
    BY DEF Read
  <2>2. \A q \in Queries : Read'[q] \in Nat
    BY <1>1, <1>2, <1>3, <1>4
  <2> QED
    BY <2>1, <2>2
<1>6. Total(Read') = Total(Read) + 1
  <2>1. \A g \in [Queries -> Nat] :
          g[query] = Read[query] + 1 /\ (\A r \in Queries \ {query} : g[r] = Read[r])
            => Total(g) = Total(Read) + 1
    BY <1>1, <1>2, TotalStep
  <2> QED
    BY <1>1, <1>3, <1>4, <1>5, <2>1
<1>7. ASSUME NEW q \in Queries, NEW p
      PROVE  (\E k \in 1 .. Read'[q] : page[q][k] = p)
                <=> (q = query /\ p = Post) \/ \E k \in 1 .. Read[q] : page[q][k] = p
  <2>1. CASE q = query
    <3>1. \A k : k \in 1 .. item <=> k \in 1 .. item - 1 \/ k = item
      BY <1>1
    <3> QED
      BY <2>1, <3>1, <1>3 DEF Post
  <2>2. CASE q # query
    BY <2>2, <1>4
  <2> QED
    BY <2>1, <2>2
<1>8. Post \in Posts
  BY <1>1 DEF Post
<1> QED
  BY <1>1, <1>2, <1>5, <1>6, <1>7, <1>8

\* What ReadingInv says once one more post has been looked at.
LEMMA ReadOneInv ==
  ASSUME IInv, TypeOK', AtItem, item' = item + 1,
         UNCHANGED <<step, query, bridge, fetching, deduplicating, selecting, output>>,
         \A q \in Queries : \A p \in Posts :
           p \in Range(records'[q]) <=>
             p \in Range(records[q]) \/ (q = query /\ p = Post /\ Post \notin Refused),
         excluded' + invalid' + Total(Lengths(records)') = Total(Read) + 1,
         MatchesInv'
  PROVE  IInv'
<1>1. UNCHANGED <<step, query, page, answered>> /\ step = "classify"
  BY DEF fetching, AtItem
<1>2. /\ query \in Queries /\ item \in 1 .. Len(page[query]) /\ Total(Read') = Total(Read) + 1
      /\ \A q \in Queries : \A p :
           (\E k \in 1 .. Read'[q] : page[q][k] = p)
              <=> (q = query /\ p = Post) \/ \E k \in 1 .. Read[q] : page[q][k] = p
  BY <1>1, ReadOne
<1>3. \A q \in Queries : \A p \in Posts :
        p \in Range(records'[q]) <=> p \notin Refused /\ \E k \in 1 .. Read'[q] : page'[q][k] = p
  <2>1. \A q \in Queries : \A p \in Posts :
          p \in Range(records[q]) <=> p \notin Refused /\ \E k \in 1 .. Read[q] : page[q][k] = p
    BY <1>1 DEF IInv, ReadingInv, Reading
  <2>2. ASSUME NEW q \in Queries, NEW p \in Posts
        PROVE  p \in Range(records'[q]) <=>
                 p \notin Refused /\ \E k \in 1 .. Read'[q] : page[q][k] = p
    <3>1. p \in Range(records'[q]) <=>
            p \in Range(records[q]) \/ (q = query /\ p = Post /\ Post \notin Refused)
      OBVIOUS
    <3>2. p \in Range(records[q]) <=> p \notin Refused /\ \E k \in 1 .. Read[q] : page[q][k] = p
      BY <2>1
    <3>3. (\E k \in 1 .. Read'[q] : page[q][k] = p)
            <=> (q = query /\ p = Post) \/ \E k \in 1 .. Read[q] : page[q][k] = p
      BY <1>2
    <3> QED
      BY <3>1, <3>2, <3>3
  <2> QED
    BY <1>1, <2>2
<1>4. item' \in 1 .. Len(page[query]) + 1
  <2>1. Len(page[query]) \in Nat
    BY <1>2, TypeFacts DEF IInv
  <2> QED
    BY <1>2, <2>1
<1>5. ReadingInv'
  BY <1>1, <1>2, <1>3, <1>4 DEF IInv, ReadingInv, Reading, Total, Units
<1> QED
  BY <1>1, <1>5, StillReading DEF Reading

LEMMA ExcludeIInv ==
  ASSUME IInv, TypeOK', ExcludeItem \/ RefuseRecord, UNCHANGED bridge
  PROVE  IInv'
<1>1. /\ AtItem /\ item' = item + 1 /\ Post \in Refused
      /\ UNCHANGED <<step, query, bridge, fetching, records, matches>>
      /\ UNCHANGED <<deduplicating, selecting, output>>
      /\ (excluded' = excluded + 1 /\ invalid' = invalid)
           \/ (excluded' = excluded /\ invalid' = invalid + 1)
  BY DEF ExcludeItem, RefuseRecord, Refused
<1>2. Total(Read) \in Nat /\ Total(Lengths(records)) \in Nat
      /\ excluded \in Nat /\ invalid \in Nat
  BY ReadType, TypeFacts, TotalType DEF IInv, TypeOK
<1>3. excluded + invalid + Total(Lengths(records)) = Total(Read)
  BY <1>1 DEF IInv, ReadingInv, Reading, AtItem
<1>4. Total(Lengths(records)') = Total(Lengths(records))
  BY <1>1 DEF Lengths
<1>5. excluded' + invalid' + Total(Lengths(records)') = Total(Read) + 1
  BY <1>1, <1>2, <1>3, <1>4
<1>6. MatchesInv'
  BY <1>1 DEF IInv, MatchesInv
<1> QED
  BY <1>1, <1>5, <1>6, ReadOneInv

LEMMA AcceptIInv ==
  ASSUME IInv, TypeOK', AcceptItem, UNCHANGED bridge
  PROVE  IInv'
<1>1. /\ AtItem /\ item' = item + 1 /\ Post \notin Refused
      /\ UNCHANGED <<step, query, bridge, fetching, excluded, invalid>>
      /\ UNCHANGED <<deduplicating, selecting, output>>
      /\ records' = [records EXCEPT ![query] = Append(records[query], Post)]
      /\ matches' = [matches EXCEPT ![Post] = matches[Post] \cup {query}]
  BY DEF AcceptItem, Refused
<1>2. query \in Queries /\ Post \in Posts
  BY <1>1, ReadOne DEF fetching
<1>3. /\ records[query] \in Seq(Posts) /\ records \in [Queries -> Seq(Posts)]
      /\ matches \in [Posts -> SUBSET Queries] /\ excluded \in Nat /\ invalid \in Nat
  BY <1>2, TypeFacts DEF IInv, TypeOK
<1>4. /\ \A q \in Queries \ {query} : records'[q] = records[q]
      /\ Range(records'[query]) = Range(records[query]) \cup {Post}
      /\ Len(records'[query]) = Len(records[query]) + 1
  BY <1>1, <1>2, <1>3, AppendFacts
<1>5. \A q \in Queries : \A p \in Posts :
        p \in Range(records'[q]) <=>
          p \in Range(records[q]) \/ (q = query /\ p = Post /\ Post \notin Refused)
  BY <1>1, <1>4
<1>6. excluded' + invalid' + Total(Lengths(records)') = Total(Read) + 1
  <2>1. /\ Lengths(records) \in [Queries -> Nat] /\ Lengths(records)' \in [Queries -> Nat]
        /\ \A q \in Queries : /\ Lengths(records)[q] = Len(records[q])
                              /\ Lengths(records)'[q] = Len(records'[q])
    BY LengthsType DEF IInv, TypeOK
  <2>2. Total(Lengths(records)') = Total(Lengths(records)) + 1
    <3>1. \A g \in [Queries -> Nat] :
            g[query] = Lengths(records)[query] + 1
              /\ (\A r \in Queries \ {query} : g[r] = Lengths(records)[r])
            => Total(g) = Total(Lengths(records)) + 1
      BY <1>2, <2>1, TotalStep
    <3> QED
      BY <1>2, <1>4, <2>1, <3>1
  <2>3. Total(Lengths(records)) \in Nat /\ Total(Read) \in Nat
    BY <2>1, TotalType, ReadType DEF IInv
  <2>4. excluded + invalid + Total(Lengths(records)) = Total(Read)
    BY <1>1 DEF IInv, ReadingInv, Reading, AtItem
  <2> QED
    BY <1>1, <1>3, <2>2, <2>3, <2>4
<1>7. MatchesInv'
  <2>1. ASSUME NEW p \in Posts
        PROVE  matches'[p] = {q \in Queries : p \in Range(records'[q])}
    <3>1. matches[p] = {q \in Queries : p \in Range(records[q])}
      BY DEF IInv, MatchesInv
    <3>2. \A q : q \in matches'[p] <=> q \in matches[p] \/ (p = Post /\ q = query)
      BY <1>1, <1>2, <1>3
    <3>3. \A q \in Queries : p \in Range(records'[q])
                               <=> p \in Range(records[q]) \/ (q = query /\ p = Post)
      BY <1>1, <1>5
    <3> QED
      BY <1>2, <3>1, <3>2, <3>3
  <2> QED
    BY <2>1 DEF MatchesInv
<1> QED
  BY <1>1, <1>5, <1>6, <1>7, ReadOneInv

\* With nothing kept there is nothing to count.
NoneKept == /\ TypeOK /\ step = "deduplicate" /\ query = 1 /\ item = 1
            /\ kept = [q \in Queries |-> <<>>] /\ duplicates = 0

LEMMA NothingKept == NoneKept => KeptInv
<1> SUFFICES ASSUME NoneKept PROVE KeptInv
  OBVIOUS
<1> USE DEF NoneKept
<1>1. \A q \in Queries : Sorted[q] = 0 /\ Len(kept[q]) = 0 /\ Range(kept[q]) = {}
  <2>1. Queries \subseteq Nat \ {0}
    BY QueriesFinite
  <2> QED
    BY <2>1 DEF Sorted, Range
<1>2. Seen = {}
  BY <1>1 DEF Seen
<1>3. Total(Sorted) = 0 /\ Total(Lengths(kept)) = 0
  BY <1>1, ReadType, TypeFacts, TotalZero
<1>4. query \in Queries => item \in 1 .. Len(records[query]) + 1
  BY TypeFacts
<1> QED
  BY <1>1, <1>2, <1>3, <1>4, FS_EmptySet DEF KeptInv

\* The page at hand has been read: on to the next query, or to the next loop.
LEMMA NextQueryIInv ==
  ASSUME IInv, TypeOK', step \in Reading, NextQuery,
         Read[query] = Len(page[query]),
         bridge = "stackoverflow" => query \in answered,
         UNCHANGED <<bridge, answered, page, invalid, records, matches>>,
         UNCHANGED <<deduplicating, selecting, output>>
  PROVE  IInv'
<1>0. query \in Queries /\ query \in Nat /\ Queries \subseteq Nat
  BY QueriesFinite DEF IInv, ReadingInv
<1>a. bridge = "stackoverflow" => \A q \in Queries : q <= query => q \in answered
  <2>1. bridge = "stackoverflow" => \A q \in Queries : q < query => q \in answered
    BY DEF IInv, ReadingInv
  <2> QED
    BY <1>0, <2>1
<1>1. /\ query \in Queries /\ query \in Nat /\ Queries \subseteq Nat
      /\ \A q \in Queries : \A p \in Posts :
           p \in Range(records[q]) <=> p \notin Refused /\ \E k \in 1 .. Read[q] : page[q][k] = p
      /\ \A q \in Queries : q > query => page[q] = <<>>
      /\ excluded + invalid + Total(Lengths(records)) = Total(Read)
      /\ bridge = "stackoverflow" => \A q \in Queries : q <= query => q \in answered
  BY <1>0, <1>a DEF IInv, ReadingInv
<1>2. MatchesInv'
  BY DEF IInv, MatchesInv
<1>3. Lengths(records)' = Lengths(records) /\ Lengths(page)' = Lengths(page)
  BY DEF Lengths
<1>4. CASE query # NumQueries
  <2>1. query' = query + 1 /\ step' = "fetch" /\ excluded' = excluded
    BY <1>4 DEF NextQuery
  <2>2. query' \in Queries
    BY <1>1, <1>4, <2>1, AcquisitionAssumption DEF Queries
  <2>3. Read' = Read
    <3>1. \A q \in Queries : Read'[q] = Read[q]
      <4>1. ASSUME NEW q \in Queries PROVE Read'[q] = Read[q]
        <5>1. CASE q < query
          BY <1>1, <2>1, <5>1 DEF Read
        <5>2. CASE q = query
          BY <1>1, <2>1, <5>2 DEF Read
        <5>3. CASE q > query
          BY <1>1, <2>1, <5>3 DEF Read
        <5> QED
          BY <1>1, <5>1, <5>2, <5>3
      <4> QED
        BY <4>1
    <3> QED
      BY <3>1 DEF Read
  <2>4. ReadingInv'
    BY <1>1, <1>3, <2>1, <2>2, <2>3 DEF ReadingInv
  <2> QED
    BY <1>2, <2>1, <2>4, StillReading DEF Reading
<1>5. CASE query = NumQueries
  <2>1. query' = 1 /\ item' = 1 /\ step' = "deduplicate" /\ excluded' = excluded + invalid
    BY <1>5 DEF NextQuery
  <2>2. \A q \in Queries : Read[q] = Len(page[q])
    BY <1>1, <1>5 DEF Read, Queries
  <2>3. \A q \in Queries : \A p \in Posts :
          p \in Range(records[q]) <=> p \in Range(page[q]) \ Refused
    <3>1. ASSUME NEW q \in Queries, NEW p \in Posts
          PROVE  p \in Range(records[q]) <=> p \in Range(page[q]) \ Refused
      <4>1. page[q] \in Seq(Posts)
        BY TypeFacts DEF IInv
      <4>2. p \in Range(page[q]) <=> \E k \in 1 .. Len(page[q]) : page[q][k] = p
        BY <4>1, RangeIs
      <4>3. p \in Range(records[q]) <=> p \notin Refused /\ \E k \in 1 .. Read[q] : page[q][k] = p
        BY <1>1
      <4> QED
        BY <2>2, <4>2, <4>3
    <3> QED
      BY <3>1
  <2>4. Read = Lengths(page)
    BY <2>2 DEF Read, Lengths
  <2>5. ClassifiedInv'
    <3>0. answered \subseteq Queries /\ \A q \in Queries : q <= query
      BY <1>1, <1>5 DEF IInv, TypeOK, Queries
    <3>1. bridge = "stackoverflow" => answered = Queries
      BY <1>1, <3>0
    <3> QED
      BY <1>1, <1>3, <2>1, <2>3, <2>4, <3>1 DEF ClassifiedInv
  <2>6. KeptInv'
    <3>1. kept = [q \in Queries |-> <<>>] /\ duplicates = 0
      BY DEF IInv, NotYet
    <3>2. kept' = [q \in Queries |-> <<>>] /\ duplicates' = 0
      BY <3>1 DEF deduplicating
    <3>3. NoneKept'
      BY <2>1, <3>2 DEF NoneKept
    <3> QED
      BY <3>3, NothingKept, PTL
  <2>7. NotYet'
    BY <2>1 DEF IInv, NotYet, Reading, selecting
  <2>8. OutputInv'
    BY <2>1, OutputStays DEF IInv, Reading
  <2>9. ReadingInv' /\ SelectionInv'
    BY <2>1 DEF ReadingInv, SelectionInv, Reading, Deduplicated
  <2> QED
    BY <1>2, <2>5, <2>6, <2>7, <2>8, <2>9 DEF IInv
<1> QED
  BY <1>4, <1>5

LEMMA EndOfPageIInv ==
  ASSUME IInv, TypeOK', EndPage \/ \E f \in Failures : SkipQuery(f), UNCHANGED bridge
  PROVE  IInv'
<1>1. CASE EndPage
  <2>1. /\ query \in Queries /\ step = "classify" /\ item \in 1 .. Len(page[query]) + 1
        /\ item > Len(page[query]) /\ Queries \subseteq Nat
        /\ bridge = "stackoverflow" => query \in answered
    BY <1>1, QueriesFinite DEF EndPage, IInv, ReadingInv, Reading
  <2>2. Len(page[query]) \in Nat
    BY <2>1, TypeFacts DEF IInv
  <2>3. Read[query] = Len(page[query])
    BY <2>1, <2>2 DEF Read
  <2> QED
    BY <1>1, <2>1, <2>3, NextQueryIInv DEF EndPage, Reading, fetching
<1>2. CASE \E f \in Failures : SkipQuery(f)
  <2>1. /\ step = "fetch" /\ NextQuery /\ bridge = "github"
        /\ UNCHANGED <<bridge, answered, page, invalid, records, matches>>
        /\ UNCHANGED <<deduplicating, selecting, output>>
    BY <1>2 DEF SkipQuery, GivenUp, Skipped
  <2>2. query \in Queries /\ page[query] = <<>> /\ Queries \subseteq Nat
    BY <2>1, QueriesFinite DEF IInv, ReadingInv, Reading
  <2>3. Read[query] = Len(page[query])
    BY <2>1, <2>2 DEF Read
  <2> QED
    BY <2>1, <2>3, NextQueryIInv DEF Reading
<1> QED
  BY <1>1, <1>2

----------------------------------------------------------------------------
(* Initially *)

LEMMA InitIInv == Init => IInv
<1> SUFFICES ASSUME Init PROVE IInv
  OBVIOUS
<1> USE DEF Init
<1>1. TypeOK
  <2>1. query \in 1 .. NumQueries + 1 /\ item \in Nat \ {0} /\ tries \in 0 .. 1
    BY AcquisitionAssumption
  <2>2. <<>> \in Seq(Posts) /\ <<>> \in Seq([post : Posts, query : Queries])
    OBVIOUS
  <2>3. progress \in BOOLEAN
    BY Zenon
  <2> QED
    BY <2>1, <2>2, <2>3 DEF TypeOK
<1>2. \A q \in Queries : /\ Range(records[q]) = {} /\ Len(records[q]) = 0
                         /\ Range(page[q]) = {} /\ Len(page[q]) = 0
                         /\ Read[q] = 0
  <2>1. \A q \in Queries : ~(q < 1)
    BY QueriesFinite
  <2> QED
    BY <2>1 DEF Range, Read
<1>3. Total(Lengths(records)) = 0 /\ Total(Lengths(page)) = 0 /\ Total(Read) = 0
  BY <1>1, <1>2, TypeFacts, ReadType, TotalZero
<1>4. ReadingInv
  <2> SUFFICES ASSUME step \in Reading PROVE ReadingInv
    BY DEF ReadingInv
  <2>1. NumQueries # 0 /\ step = "fetch"
    BY DEF Reading
  <2>2. query \in Queries
    BY <2>1, AcquisitionAssumption DEF Queries
  <2>3. \A q \in Queries : ~(q < query)
    BY QueriesFinite
  <2> QED
    BY <1>2, <1>3, <2>1, <2>2, <2>3 DEF ReadingInv
<1>5. ClassifiedInv
  <2> SUFFICES ASSUME step \in Classified PROVE ClassifiedInv
    BY DEF ClassifiedInv
  <2>1. Queries = {}
    BY DEF Classified, Deduplicated, Queries
  <2> QED
    BY <1>3, <2>1 DEF ClassifiedInv
<1>6. MatchesInv
  BY <1>2 DEF MatchesInv
<1>7. KeptInv
  <2>1. CASE step = "deduplicate"
    BY <1>1, <2>1, NothingKept DEF NoneKept
  <2>2. CASE step # "deduplicate"
    BY <2>2 DEF KeptInv, Classified, Deduplicated
  <2> QED
    BY <2>1, <2>2
<1>8. NotYet /\ SelectionInv /\ OutputInv
  BY DEF NotYet, SelectionInv, OutputInv, Deduplicated
<1> QED
  BY <1>1, <1>4, <1>5, <1>6, <1>7, <1>8 DEF IInv

----------------------------------------------------------------------------
(* Removing duplicates *)

\* One more record of the query at hand has been looked at.
LEMMA SortOne ==
  ASSUME IInv, step = "deduplicate", query <= NumQueries, item <= Len(records[query]),
         item' = item + 1, UNCHANGED <<step, query, records>>
  PROVE  /\ query \in Queries /\ item \in 1 .. Len(records[query]) /\ Record \in Posts
         /\ item' \in 1 .. Len(records[query]) + 1
         /\ Total(Sorted') = Total(Sorted) + 1 /\ Total(Sorted) \in Nat
         /\ Sorted[query] = item - 1 /\ Sorted'[query] = item
         /\ \A q \in Queries \ {query} : Sorted'[q] = Sorted[q]
         /\ \A q \in Queries : Sorted[q] \in Nat /\ (q < query => Sorted[q] = Len(records[q]))
<1>1. query \in Queries /\ Queries \subseteq Nat /\ TypeOK /\ item \in Nat \ {0}
  BY QueriesFinite, AcquisitionAssumption DEF IInv, TypeOK, Queries
<1>2. records[query] \in Seq(Posts) /\ Len(records[query]) \in Nat
  BY <1>1, TypeFacts
<1>3. /\ item \in 1 .. Len(records[query]) /\ item' \in 1 .. Len(records[query]) + 1
      /\ Record \in Posts
  BY <1>1, <1>2 DEF Record
<1>4. /\ Sorted[query] = item - 1 /\ Sorted'[query] = item
      /\ \A q \in Queries \ {query} : Sorted'[q] = Sorted[q]
      /\ \A q \in Queries : q < query => Sorted[q] = Len(records[q])
  BY <1>1 DEF Sorted
<1>5. Sorted \in [Queries -> Nat] /\ Total(Sorted) \in Nat
  BY <1>1, ReadType, TotalType
<1>6. Sorted' \in [Queries -> Nat]
  <2>1. Sorted' = [q \in Queries |-> Sorted'[q]]
    BY DEF Sorted
  <2>2. \A q \in Queries : Sorted'[q] \in Nat
    BY <1>1, <1>4, <1>5
  <2> QED
    BY <2>1, <2>2
<1>7. Total(Sorted') = Total(Sorted) + 1
  <2>1. \A g \in [Queries -> Nat] :
          g[query] = Sorted[query] + 1 /\ (\A r \in Queries \ {query} : g[r] = Sorted[r])
            => Total(g) = Total(Sorted) + 1
    BY <1>1, <1>5, TotalStep
  <2> QED
    BY <1>1, <1>4, <1>6, <2>1
<1> QED
  BY <1>1, <1>3, <1>4, <1>5, <1>7

LEMMA KeptFacts ==
  ASSUME KeptInv, step \in Classified
  PROVE  /\ \A q \in Queries : \A n \in 1 .. Len(kept[q]) :
              /\ \E k \in 1 .. Sorted[q] : records[q][k] = kept[q][n]
              /\ \A r \in Queries : r < q => kept[q][n] \notin Range(records[r])
              /\ \A m \in 1 .. Len(kept[q]) : kept[q][m] = kept[q][n] => m = n
         /\ \A q \in Queries : \A k \in 1 .. Sorted[q] : records[q][k] \in Seen
         /\ IsFiniteSet(Seen) /\ Cardinality(Seen) = Total(Lengths(kept))
         /\ duplicates + Total(Lengths(kept)) = Total(Sorted)
  BY DEF KeptInv

LEMMA DropIInv ==
  ASSUME IInv, TypeOK', DropDuplicate, UNCHANGED bridge
  PROVE  IInv'
<1>1. /\ step = "deduplicate" /\ query <= NumQueries /\ item <= Len(records[query])
      /\ Record \in Seen /\ duplicates' = duplicates + 1 /\ item' = item + 1
      /\ UNCHANGED <<step, query, bridge, fetching, classifying, kept, selecting, output>>
      /\ UNCHANGED <<step, query, records>>
  BY DEF DropDuplicate, classifying
<1>2. /\ query \in Queries /\ item \in 1 .. Len(records[query])
      /\ item' \in 1 .. Len(records[query]) + 1
      /\ Total(Sorted') = Total(Sorted) + 1 /\ Total(Sorted) \in Nat
      /\ Sorted[query] = item - 1 /\ Sorted'[query] = item
      /\ \A q \in Queries \ {query} : Sorted'[q] = Sorted[q]
  BY <1>1, SortOne
<1>3. /\ Seen' = Seen /\ Lengths(kept)' = Lengths(kept) /\ kept' = kept /\ records' = records
      /\ step' = "deduplicate" /\ query' = query
  BY <1>1 DEF Seen, Lengths
<1>4. KeptInv /\ step \in Classified
  BY <1>1 DEF IInv, Classified
<1>5. \A q \in Queries : \A k \in 1 .. Sorted[q] : k \in 1 .. Sorted'[q]
  BY <1>2
<1>6. \A q \in Queries : \A n \in 1 .. Len(kept[q]) :
         /\ \E k \in 1 .. Sorted'[q] : records[q][k] = kept[q][n]
         /\ \A r \in Queries : r < q => kept[q][n] \notin Range(records[r])
         /\ \A m \in 1 .. Len(kept[q]) : kept[q][m] = kept[q][n] => m = n
  BY <1>4, <1>5, KeptFacts
<1>7. \A q \in Queries : \A k \in 1 .. Sorted'[q] : records[q][k] \in Seen
  <2>1. ASSUME NEW q \in Queries, NEW k \in 1 .. Sorted'[q] PROVE records[q][k] \in Seen
    <3>1. CASE k \in 1 .. Sorted[q]
      BY <1>4, <3>1, KeptFacts
    <3>2. CASE k \notin 1 .. Sorted[q]
      <4>1. q = query /\ k = item
        BY <1>2, <3>2
      <4> QED
        BY <1>1, <4>1 DEF Record
    <3> QED
      BY <3>1, <3>2
  <2> QED
    BY <2>1
<1>8. duplicates' + Total(Lengths(kept)) = Total(Sorted')
  <2>1. duplicates \in Nat /\ Total(Lengths(kept)) \in Nat
    BY TypeFacts, TotalType DEF IInv, TypeOK
  <2>2. duplicates + Total(Lengths(kept)) = Total(Sorted)
    BY <1>4, KeptFacts
  <2> QED
    BY <1>1, <1>2, <2>1, <2>2
<1>9. IsFiniteSet(Seen) /\ Cardinality(Seen) = Total(Lengths(kept))
  BY <1>4, KeptFacts
<1>10. KeptInv'
  BY <1>2, <1>3, <1>6, <1>7, <1>8, <1>9 DEF KeptInv, Total, Units
<1> QED
  BY <1>1, <1>10, StillDeduplicating

\* Whatever an earlier query has is kept already: Seen looks back far enough.
LEMMA KeepIInv ==
  ASSUME IInv, TypeOK', KeepRecord, UNCHANGED bridge
  PROVE  IInv'
<1>1. /\ step = "deduplicate" /\ query <= NumQueries /\ item <= Len(records[query])
      /\ Record \notin Seen /\ item' = item + 1
      /\ kept' = [kept EXCEPT ![query] = Append(kept[query], Record)]
      /\ UNCHANGED <<step, query, bridge, fetching, classifying, duplicates, selecting, output>>
      /\ UNCHANGED <<step, query, records>>
  BY DEF KeepRecord, classifying
<1>2. /\ query \in Queries /\ item \in 1 .. Len(records[query]) /\ Record \in Posts
      /\ item' \in 1 .. Len(records[query]) + 1
      /\ Total(Sorted') = Total(Sorted) + 1 /\ Total(Sorted) \in Nat
      /\ Sorted[query] = item - 1 /\ Sorted'[query] = item
      /\ \A q \in Queries \ {query} : Sorted'[q] = Sorted[q]
      /\ \A q \in Queries : Sorted[q] \in Nat /\ (q < query => Sorted[q] = Len(records[q]))
  BY <1>1, SortOne
<1>3. /\ records' = records /\ step' = "deduplicate" /\ query' = query
      /\ duplicates' = duplicates /\ KeptInv /\ step \in Classified
  BY <1>1 DEF IInv, Classified
<1>4. kept \in [Queries -> Seq(Posts)] /\ kept[query] \in Seq(Posts) /\ Len(kept[query]) \in Nat
      /\ duplicates \in Nat
  BY <1>2, TypeFacts DEF IInv, TypeOK
<1>5. /\ \A q \in Queries \ {query} : kept'[q] = kept[q]
      /\ Len(kept'[query]) = Len(kept[query]) + 1
      /\ kept'[query][Len(kept[query]) + 1] = Record
      /\ \A n \in 1 .. Len(kept[query]) : kept'[query][n] = kept[query][n]
      /\ Range(kept'[query]) = Range(kept[query]) \cup {Record}
  BY <1>1, <1>2, <1>4, AppendFacts
<1>6. Seen' = Seen \cup {Record}
  <2>1. ASSUME NEW p PROVE p \in Seen' <=> p \in Seen \/ p = Record
    <3>1. p \in Seen <=> \E q \in Queries : p \in Range(kept[q])
      BY DEF Seen
    <3>2. p \in Seen' <=> \E q \in Queries : p \in Range(kept'[q])
      BY DEF Seen
    <3> QED
      BY <3>1, <3>2, <1>2, <1>5
  <2> QED
    BY <2>1
<1>7. \A q \in Queries : \A k \in 1 .. Sorted[q] : k \in 1 .. Sorted'[q]
  BY <1>2
<1>8. \A r \in Queries : r < query => Record \notin Range(records[r])
  <2>1. ASSUME NEW r \in Queries, r < query, Record \in Range(records[r]) PROVE FALSE
    <3>1. records[r] \in Seq(Posts)
      BY TypeFacts DEF IInv
    <3>2. PICK k \in 1 .. Len(records[r]) : records[r][k] = Record
      BY <2>1, <3>1, RangeIs
    <3>3. k \in 1 .. Sorted[r]
      BY <1>2, <2>1
    <3> QED
      BY <1>1, <1>3, <3>2, <3>3, KeptFacts
  <2> QED
    BY <2>1
<1>9. \A n \in 1 .. Len(kept[query]) : kept[query][n] # Record
  BY <1>1, <1>2, <1>4, RangeIs DEF Seen
<1>10. ASSUME NEW q \in Queries, NEW n \in 1 .. Len(kept'[q])
       PROVE  /\ \E k \in 1 .. Sorted'[q] : records[q][k] = kept'[q][n]
              /\ \A r \in Queries : r < q => kept'[q][n] \notin Range(records[r])
              /\ \A m \in 1 .. Len(kept'[q]) : kept'[q][m] = kept'[q][n] => m = n
  <2>1. CASE q # query
    <3>1. kept'[q] = kept[q] /\ Sorted'[q] = Sorted[q]
      BY <2>1, <1>2, <1>5
    <3>2. /\ \E k \in 1 .. Sorted[q] : records[q][k] = kept[q][n]
          /\ \A r \in Queries : r < q => kept[q][n] \notin Range(records[r])
          /\ \A m \in 1 .. Len(kept[q]) : kept[q][m] = kept[q][n] => m = n
      BY <3>1, <1>3, KeptFacts
    <3> QED
      BY <3>1, <3>2
  <2>2. CASE q = query /\ n = Len(kept[query]) + 1
    <3>1. kept'[q][n] = Record
      BY <2>2, <1>5
    <3>2. item \in 1 .. Sorted'[q] /\ records[q][item] = Record
      BY <2>2, <1>2 DEF Record
    <3>3. \A m \in 1 .. Len(kept'[q]) : m # n => m \in 1 .. Len(kept[query])
      BY <2>2, <1>4, <1>5
    <3> QED
      BY <2>2, <3>1, <3>2, <3>3, <1>5, <1>8, <1>9
  <2>3. CASE q = query /\ n # Len(kept[query]) + 1
    <3>1. n \in 1 .. Len(kept[query]) /\ kept'[q][n] = kept[q][n]
      BY <2>3, <1>4, <1>5
    <3>2. \A m \in 1 .. Len(kept'[q]) :
            m \in 1 .. Len(kept[query]) \/ m = Len(kept[query]) + 1
      BY <2>3, <1>4, <1>5
    <3>3. /\ \E k \in 1 .. Sorted[q] : records[q][k] = kept[q][n]
          /\ \A r \in Queries : r < q => kept[q][n] \notin Range(records[r])
          /\ \A m \in 1 .. Len(kept[q]) : kept[q][m] = kept[q][n] => m = n
      BY <2>3, <3>1, <1>3, KeptFacts
    <3>4. \A m \in 1 .. Len(kept'[q]) : kept'[q][m] = kept'[q][n] => m = n
      BY <2>3, <3>1, <3>2, <3>3, <1>5, <1>9
    <3> QED
      BY <2>3, <3>1, <3>3, <3>4, <1>7
  <2> QED
    BY <2>1, <2>2, <2>3
<1>11. ASSUME NEW q \in Queries, NEW k \in 1 .. Sorted'[q] PROVE records[q][k] \in Seen'
  <2>1. CASE k \in 1 .. Sorted[q]
    BY <1>3, <1>6, <2>1, KeptFacts
  <2>2. CASE k \notin 1 .. Sorted[q]
    <3>1. q = query /\ k = item
      BY <1>2, <2>2
    <3> QED
      BY <1>6, <3>1 DEF Record
  <2> QED
    BY <2>1, <2>2
<1>12. /\ Total(Lengths(kept)') = Total(Lengths(kept)) + 1
       /\ Total(Lengths(kept)) \in Nat
  <2>1. /\ Lengths(kept) \in [Queries -> Nat] /\ Lengths(kept)' \in [Queries -> Nat]
        /\ \A q \in Queries : /\ Lengths(kept)[q] = Len(kept[q])
                              /\ Lengths(kept)'[q] = Len(kept'[q])
    BY LengthsType DEF IInv, TypeOK
  <2>2. \A g \in [Queries -> Nat] :
          g[query] = Lengths(kept)[query] + 1
            /\ (\A r \in Queries \ {query} : g[r] = Lengths(kept)[r])
          => Total(g) = Total(Lengths(kept)) + 1
    BY <1>2, <2>1, TotalStep
  <2>3. Total(Lengths(kept)) \in Nat
    BY <2>1, TotalType
  <2>4. Lengths(kept)'[query] = Lengths(kept)[query] + 1
    <3>1. Len(kept'[query]) = Len(kept[query]) + 1
      BY <1>5
    <3> QED
      BY <1>2, <2>1, <3>1
  <2>5. ASSUME NEW r \in Queries \ {query} PROVE Lengths(kept)'[r] = Lengths(kept)[r]
    <3>1. kept'[r] = kept[r]
      BY <1>5
    <3> QED
      BY <2>1, <3>1
  <2> QED
    BY <2>1, <2>2, <2>3, <2>4, <2>5
<1>13. /\ IsFiniteSet(Seen') /\ Cardinality(Seen') = Total(Lengths(kept)')
       /\ duplicates + Total(Lengths(kept)') = Total(Sorted')
  <2>1. /\ IsFiniteSet(Seen) /\ Cardinality(Seen) = Total(Lengths(kept))
        /\ duplicates + Total(Lengths(kept)) = Total(Sorted)
    BY <1>3, KeptFacts
  <2>2. IsFiniteSet(Seen') /\ Cardinality(Seen') = Cardinality(Seen) + 1
    BY <1>1, <1>6, <2>1, FS_AddElement
  <2> QED
    BY <1>2, <1>4, <1>12, <2>1, <2>2
<1>14. KeptInv'
  BY <1>2, <1>3, <1>10, <1>11, <1>13 DEF KeptInv, Total, Units
<1> QED
  BY <1>1, <1>14, StillDeduplicating

LEMMA EndRecordsIInv ==
  ASSUME IInv, TypeOK', EndRecords, UNCHANGED bridge
  PROVE  IInv'
<1>1. /\ step = "deduplicate" /\ query <= NumQueries /\ item > Len(records[query])
      /\ query' = query + 1 /\ item' = 1
      /\ UNCHANGED <<step, bridge, fetching, classifying, deduplicating, selecting, output>>
  BY DEF EndRecords
<1>2. query \in Queries /\ query \in Nat /\ Queries \subseteq Nat
  BY <1>1, QueriesFinite, AcquisitionAssumption DEF IInv, TypeOK, Queries
<1>3. item \in 1 .. Len(records[query]) + 1 /\ \A q \in Queries : Len(records[q]) \in Nat
  BY <1>1, <1>2, TypeFacts DEF IInv, KeptInv, Classified
<1>4. Sorted' = Sorted
  <2>1. ASSUME NEW q \in Queries PROVE Sorted'[q] = Sorted[q]
    <3>1. CASE q < query
      BY <1>1, <1>2, <3>1 DEF Sorted, classifying
    <3>2. CASE q = query
      BY <1>1, <1>2, <1>3, <3>2 DEF Sorted, classifying
    <3>3. CASE q > query
      BY <1>1, <1>2, <3>3 DEF Sorted, classifying
    <3> QED
      BY <1>2, <3>1, <3>2, <3>3
  <2> QED
    BY <2>1 DEF Sorted
<1>5. /\ Seen' = Seen /\ Lengths(kept)' = Lengths(kept) /\ kept' = kept /\ records' = records
      /\ duplicates' = duplicates /\ step' = "deduplicate"
  BY <1>1 DEF Seen, Lengths, deduplicating, classifying
<1>6. query' \in Queries => item' \in 1 .. Len(records[query']) + 1
  BY <1>1, <1>3
<1>7. KeptInv'
  BY <1>1, <1>4, <1>5, <1>6 DEF IInv, KeptInv, Classified, Total, Units
<1> QED
  BY <1>1, <1>5, <1>7, StillDeduplicating

LEMMA EndDeduplicationIInv ==
  ASSUME IInv, TypeOK', EndDeduplication, UNCHANGED bridge
  PROVE  IInv'
<1>1. /\ step = "deduplicate" /\ query > NumQueries /\ query' = 1 /\ step' = "select"
      /\ UNCHANGED <<bridge, fetching, classifying, deduplicating, taken, selected, output>>
  BY DEF EndDeduplication
<1>2. \A q \in Queries : q < query /\ ~(q < 1)
  BY <1>1, AcquisitionAssumption DEF IInv, TypeOK, Queries
<1>3. Sorted' = Sorted
  BY <1>1, <1>2 DEF Sorted, classifying
<1>4. /\ Seen' = Seen /\ Lengths(kept)' = Lengths(kept) /\ kept' = kept /\ records' = records
      /\ duplicates' = duplicates
  BY <1>1 DEF Seen, Lengths, deduplicating, classifying
<1>5. KeptInv'
  BY <1>1, <1>3, <1>4 DEF IInv, KeptInv, Classified, Total, Units
<1>6. taken = [q \in Queries |-> 0] /\ selected = <<>>
  BY <1>1 DEF IInv, NotYet
<1>7. SelectionInv'
  <2>1. taken' = taken /\ selected' = <<>>
    BY <1>1, <1>6
  <2>2. InRounds'
    <3>1. \A q \in Queries : Len(kept[q]) \in Nat
      BY TypeFacts DEF IInv
    <3>2. \A q \in Queries : LET turns == IF q < 1 THEN 0 + 1 ELSE 0
            IN taken[q] = IF turns < Len(kept[q]) THEN turns ELSE Len(kept[q])
      BY <1>2, <1>6, <3>1
    <3> QED
      BY <1>1, <1>4, <2>1, <3>2 DEF InRounds
  <2>3. Units(taken) = {} /\ Total(taken) = 0
    BY <1>6, TotalZero
  <2>4. Drawn' = {}
    BY <1>4, <2>1, <2>3 DEF Drawn
  <2>5. Range(selected') = {} /\ Len(selected') = 0
    BY <2>1 DEF Range
  <2>6. \A q \in Queries : ~(q < query')
    BY <1>1, <1>2
  <2> QED
    BY <1>1, <2>1, <2>2, <2>3, <2>4, <2>5, <2>6, FS_EmptySet, AcquisitionAssumption
       DEF SelectionInv, Total, Units
<1>8. OutputInv'
  BY <1>1, OutputStays DEF IInv
<1>9. ReadingInv' /\ ClassifiedInv' /\ MatchesInv'
  BY <1>1, ClassifiedStays DEF IInv, Classified, Deduplicated
<1>10. NotYet'
  BY <1>1 DEF NotYet, Reading
<1> QED
  BY <1>5, <1>7, <1>8, <1>9, <1>10 DEF IInv

----------------------------------------------------------------------------
(* Selecting *)

\* Every turn of the round-robin takes one record, or passes over an empty query.
LEMMA DrawIInv ==
  ASSUME IInv, TypeOK', Draw, UNCHANGED bridge
  PROVE  IInv'
<1> DEFINE n == taken[query] + 1
           r == [post |-> kept[query][n], query |-> query]
<1>1. /\ step = "select" /\ step' = "select" /\ query <= NumQueries /\ query' = query + 1
      /\ ~CapReached /\ taken[query] < Len(kept[query])
      /\ selected' = Append(selected, r) /\ taken' = [taken EXCEPT ![query] = n]
      /\ progress' = TRUE
      /\ UNCHANGED <<bridge, fetching, classifying, deduplicating, output>>
  <2>1. query \in Queries
    BY AcquisitionAssumption DEF Draw, IInv, TypeOK, Queries
  <2>2. taken[query] \in Nat /\ Len(kept[query]) \in Nat
    BY <2>1, TypeFacts DEF IInv, TypeOK
  <2> QED
    BY <2>2 DEF Draw, Exhausted
<1>2. /\ query \in Queries /\ Queries \subseteq Nat /\ taken \in [Queries -> Nat]
      /\ selected \in Seq([post : Posts, query : Queries]) /\ Len(selected) \in Nat
      /\ \A q \in Queries : kept[q] \in Seq(Posts) /\ Len(kept[q]) \in Nat
  <2>1. query \in Queries
    BY <1>1, AcquisitionAssumption DEF IInv, TypeOK, Queries
  <2>2. selected \in Seq([post : Posts, query : Queries]) /\ taken \in [Queries -> Nat]
    BY DEF IInv, TypeOK
  <2>3. Len(selected) \in Nat
    BY <2>2
  <2>4. \A q \in Queries : kept[q] \in Seq(Posts) /\ Len(kept[q]) \in Nat
    BY TypeFacts DEF IInv
  <2> QED
    BY <2>1, <2>2, <2>3, <2>4, QueriesFinite
<1>3. kept' = kept /\ UNCHANGED <<deduplicating>>
  BY <1>1 DEF deduplicating
<1>4. n \in 1 .. Len(kept[query]) /\ kept[query][n] \in Posts
  BY <1>1, <1>2
<1>5. /\ taken'[query] = n /\ \A q \in Queries \ {query} : taken'[q] = taken[q]
      /\ taken' \in [Queries -> Nat]
  BY <1>1, <1>2
<1>6. InRounds'
  <2>1. PICK k \in Nat : \A q \in Queries :
          LET turns == IF q < query THEN k + 1 ELSE k
          IN taken[q] = IF turns < Len(kept[q]) THEN turns ELSE Len(kept[q])
    BY <1>1 DEF IInv, SelectionInv, InRounds, Deduplicated
  <2>2. ASSUME NEW q \in Queries
        PROVE  LET turns == IF q < query' THEN k + 1 ELSE k
               IN taken'[q] = IF turns < Len(kept[q]) THEN turns ELSE Len(kept[q])
    <3>1. CASE q = query
      BY <1>1, <1>2, <1>5, <2>1, <3>1
    <3>2. CASE q # query
      <4>1. q < query' <=> q < query
        BY <1>1, <1>2, <3>2
      <4>2. taken'[q] = taken[q]
        BY <1>5, <3>2
      <4> QED
        BY <2>1, <4>1, <4>2
    <3> QED
      BY <3>1, <3>2
  <2> QED
    BY <1>3, <2>2 DEF InRounds
<1>7. /\ Units(taken') = Units(taken) \cup {<<query, n>>}
      /\ <<query, n>> \notin Units(taken)
      /\ Total(taken') = Total(taken) + 1 /\ Total(taken) \in Nat
  BY <1>2, <1>5, TotalStep, TotalType
<1>8. r \in [post : Posts, query : Queries]
  BY <1>2, <1>4
<1> HIDE DEF n
<1>9. Range(selected') = Range(selected) \cup {r} /\ Len(selected') = Len(selected) + 1
  <2> DEFINE S == [post : Posts, query : Queries]
  <2>1. selected \in Seq(S) /\ r \in S
    BY <1>2, <1>8
  <2> HIDE DEF S, r
  <2> QED
    BY <1>1, <2>1, AppendFacts
<1>10. Drawn' = Drawn \cup {r}
  <2>1. Drawn' = {[post |-> kept[u[1]][u[2]], query |-> u[1]] : u \in Units(taken')}
    BY <1>3 DEF Drawn
  <2> QED
    BY <1>7, <2>1 DEF Drawn
<1>11. r \notin Drawn
  <2> SUFFICES ASSUME NEW u \in Units(taken), r = [post |-> kept[u[1]][u[2]], query |-> u[1]]
               PROVE  FALSE
    BY DEF Drawn
  <2>1. PICK q \in Queries : \E m \in 1 .. taken[q] : u = <<q, m>>
    BY UnitsAre
  <2>2. PICK m \in 1 .. taken[q] : u = <<q, m>>
    BY <2>1
  <2>3. q = query /\ kept[query][n] = kept[query][m]
    BY <2>2
  <2>4. m \in 1 .. Len(kept[query]) /\ m # n
    BY <1>1, <1>2, <2>3 DEF n
  <2>5. KeptInv /\ step \in Classified
    BY <1>1 DEF IInv, Classified, Deduplicated
  <2> QED
    BY <1>2, <1>4, <2>3, <2>4, <2>5, KeptFacts
<1>12. SelectionInv'
  <2>1. /\ Range(selected) = Drawn /\ Len(selected) = Total(taken)
        /\ IsFiniteSet(Drawn) /\ Cardinality(Drawn) = Total(taken)
    BY <1>1 DEF IInv, SelectionInv, Deduplicated
  <2>2. IsFiniteSet(Drawn') /\ Cardinality(Drawn') = Cardinality(Drawn) + 1
    BY <1>10, <1>11, <2>1, FS_AddElement
  <2>3. Len(selected') <= MaxRecords
    BY <1>1, <1>2, <1>9, AcquisitionAssumption DEF CapReached
  <2>4. Range(selected') = Drawn'
    BY <1>9, <1>10, <2>1
  <2>5. Len(selected') = Total(taken') /\ Cardinality(Drawn') = Total(taken')
    BY <1>7, <1>9, <2>1, <2>2
  <2> QED
    BY <1>1, <1>6, <2>2, <2>3, <2>4, <2>5 DEF SelectionInv, Total, Units
<1> QED
  BY <1>1, <1>12, StillSelecting

LEMMA PassOverIInv ==
  ASSUME IInv, TypeOK', PassOver, UNCHANGED bridge
  PROVE  IInv'
<1>1. /\ step = "select" /\ step' = "select" /\ query <= NumQueries /\ query' = query + 1
      /\ taken[query] >= Len(kept[query])
      /\ UNCHANGED <<bridge, fetching, classifying, deduplicating, selecting, output>>
      /\ UNCHANGED <<kept, taken, progress, selected>>
  BY DEF PassOver, Exhausted, selecting, deduplicating
<1>2. /\ query \in Queries /\ Queries \subseteq Nat /\ taken \in [Queries -> Nat]
      /\ \A q \in Queries : Len(kept[q]) \in Nat
  <2>1. query \in Queries
    BY <1>1, AcquisitionAssumption DEF IInv, TypeOK, Queries
  <2>2. taken \in [Queries -> Nat]
    BY DEF IInv, TypeOK
  <2>3. \A q \in Queries : Len(kept[q]) \in Nat
    BY TypeFacts DEF IInv
  <2> QED
    BY <2>1, <2>2, <2>3, QueriesFinite
<1>3. PICK k \in Nat : \A q \in Queries :
        LET turns == IF q < query THEN k + 1 ELSE k
        IN taken[q] = IF turns < Len(kept[q]) THEN turns ELSE Len(kept[q])
  BY <1>1 DEF IInv, SelectionInv, InRounds, Deduplicated
<1>4. taken[query] = Len(kept[query]) /\ Len(kept[query]) <= k
  BY <1>1, <1>2, <1>3
<1>5. ASSUME NEW q \in Queries
      PROVE  LET turns == IF q < query' THEN k + 1 ELSE k
             IN taken[q] = IF turns < Len(kept[q]) THEN turns ELSE Len(kept[q])
  <2>1. CASE q = query
    BY <1>1, <1>2, <1>4, <2>1
  <2>2. CASE q # query
    <3>1. q < query' <=> q < query
      BY <1>1, <1>2, <2>2
    <3> QED
      BY <1>3, <3>1
  <2> QED
    BY <2>1, <2>2
<1>6. InRounds'
  BY <1>1, <1>5 DEF InRounds
<1>7. Drawn' = Drawn
  BY <1>1 DEF Drawn
<1>8. ~progress => \A q \in Queries : q < query' => taken[q] = Len(kept[q])
  <2>1. ~progress => \A q \in Queries : q < query => taken[q] = Len(kept[q])
    BY <1>1 DEF IInv, SelectionInv, Deduplicated
  <2>2. \A q \in Queries : q < query' => q < query \/ q = query
    BY <1>1, <1>2
  <2> QED
    BY <1>4, <2>1, <2>2
<1>9. SelectionInv'
  BY <1>1, <1>6, <1>7, <1>8 DEF IInv, SelectionInv, Deduplicated
<1> QED
  BY <1>1, <1>9, StillSelecting

LEMMA NextRoundIInv ==
  ASSUME IInv, TypeOK', NextRound, UNCHANGED bridge
  PROVE  IInv'
<1>1. /\ step = "select" /\ step' = "select" /\ query > NumQueries /\ query' = 1
      /\ progress' = FALSE
      /\ UNCHANGED <<bridge, fetching, classifying, deduplicating, output>>
      /\ UNCHANGED <<kept, taken, selected>>
  BY DEF NextRound, deduplicating
<1>2. \A q \in Queries : q < query /\ ~(q < 1)
  BY <1>1, AcquisitionAssumption DEF IInv, TypeOK, Queries
<1>3. PICK k \in Nat : \A q \in Queries :
        LET turns == IF q < query THEN k + 1 ELSE k
        IN taken[q] = IF turns < Len(kept[q]) THEN turns ELSE Len(kept[q])
  BY <1>1 DEF IInv, SelectionInv, InRounds, Deduplicated
<1>4. InRounds'
  <2>1. k + 1 \in Nat
    OBVIOUS
  <2>2. \A q \in Queries : LET turns == IF q < 1 THEN (k + 1) + 1 ELSE k + 1
          IN taken[q] = IF turns < Len(kept[q]) THEN turns ELSE Len(kept[q])
    BY <1>2, <1>3
  <2> QED
    BY <1>1, <2>1, <2>2 DEF InRounds
<1>5. Drawn' = Drawn
  BY <1>1 DEF Drawn
<1>6. SelectionInv'
  BY <1>1, <1>2, <1>4, <1>5 DEF IInv, SelectionInv, Deduplicated
<1> QED
  BY <1>1, <1>6, StillSelecting

LEMMA EndSelectionIInv ==
  ASSUME IInv, TypeOK', EndSelection, UNCHANGED bridge
  PROVE  IInv'
<1>1. /\ step = "select" /\ step' = "write"
      /\ CapReached \/ (query > NumQueries /\ ~progress)
      /\ UNCHANGED <<bridge, query, fetching, classifying, deduplicating, selecting, output>>
      /\ UNCHANGED <<query, kept, selecting>>
  BY DEF EndSelection, deduplicating
<1>2. query > NumQueries => \A q \in Queries : q < query
  BY AcquisitionAssumption DEF IInv, TypeOK, Queries
<1>3. CapReached \/ \A q \in Queries : taken[q] = Len(kept[q])
  BY <1>1, <1>2 DEF IInv, SelectionInv, Deduplicated
<1>4. SelectionInv'
  BY <1>1, <1>3, SelectionStays DEF IInv, Deduplicated
<1> QED
  BY <1>1, <1>4, StillSelecting

----------------------------------------------------------------------------
(* The output *)

LEMMA WriteIInv ==
  ASSUME IInv, TypeOK', WriteGithub \/ WriteStackoverflow, UNCHANGED bridge
  PROVE  IInv'
<1>1. /\ step = "write" /\ step' = "push" /\ branch' = branch /\ data' = Output
      /\ UNCHANGED <<bridge, query, fetching, classifying, deduplicating, selecting>>
      /\ UNCHANGED <<records, kept>>
  BY DEF WriteGithub, WriteStackoverflow, Output, classifying, deduplicating
<1>2. Output' = Output
  BY <1>1 DEF Output, ProvenanceOf, Manifest, Lengths, Total, Units, fetching, classifying,
     deduplicating, selecting
<1>3. OutputInv'
  BY <1>1, <1>2 DEF IInv, OutputInv
<1>4. SelectionInv'
  BY <1>1, SelectionStays DEF IInv, Deduplicated
<1>5. ReadingInv' /\ ClassifiedInv' /\ MatchesInv' /\ KeptInv'
  BY <1>1, ClassifiedStays, KeptStays DEF IInv, Classified, Deduplicated
<1>6. NotYet'
  BY <1>1 DEF NotYet, Reading
<1> QED
  BY <1>3, <1>4, <1>5, <1>6 DEF IInv

LEMMA PushIInv ==
  ASSUME IInv, TypeOK', Push, UNCHANGED bridge
  PROVE  IInv'
<1>1. /\ step = "push" /\ step' = "pushed" /\ branch' = data /\ data' = data
      /\ UNCHANGED <<bridge, query, fetching, classifying, deduplicating, selecting>>
      /\ UNCHANGED <<records, kept>>
  BY DEF Push, classifying, deduplicating
<1>2. Output' = Output
  BY <1>1 DEF Output, ProvenanceOf, Manifest, Lengths, Total, Units, fetching, classifying,
     deduplicating, selecting
<1>3. OutputInv'
  BY <1>1, <1>2 DEF IInv, OutputInv
<1>4. SelectionInv'
  BY <1>1, SelectionStays DEF IInv, Deduplicated
<1>5. ReadingInv' /\ ClassifiedInv' /\ MatchesInv' /\ KeptInv'
  BY <1>1, ClassifiedStays, KeptStays DEF IInv, Classified, Deduplicated
<1>6. NotYet'
  BY <1>1 DEF NotYet, Reading
<1> QED
  BY <1>3, <1>4, <1>5, <1>6 DEF IInv

----------------------------------------------------------------------------
(* The theorems *)

LEMMA StutterIInv ==
  ASSUME IInv, UNCHANGED vars
  PROVE  IInv'
<1> USE DEF vars, fetching, classifying, deduplicating, selecting, output
<1>1. TypeOK' /\ ClassifiedInv' /\ MatchesInv' /\ NotYet'
  BY DEF IInv, TypeOK, ClassifiedInv, Lengths, MatchesInv, NotYet
<1>2. ReadingInv'
  <2>1. Read' = Read
    BY DEF Read
  <2> QED
    BY <2>1 DEF IInv, ReadingInv, Lengths
<1>3. KeptInv'
  <2>1. Sorted' = Sorted /\ Seen' = Seen
    BY DEF Sorted, Seen
  <2> QED
    BY <2>1 DEF IInv, KeptInv, Lengths
<1>4. SelectionInv'
  <2>1. Drawn' = Drawn /\ InRounds' = InRounds /\ CapReached' = CapReached
    BY DEF Drawn, InRounds, CapReached
  <2> QED
    BY <2>1 DEF IInv, SelectionInv
<1>5. OutputInv'
  <2>1. Output' = Output
    BY DEF Output, ProvenanceOf, Manifest, Lengths
  <2> QED
    BY <2>1 DEF IInv, OutputInv
<1> QED
  BY <1>1, <1>2, <1>3, <1>4, <1>5 DEF IInv

LEMMA NextIInv == IInv /\ [Next]_vars => IInv'
<1> SUFFICES ASSUME IInv, [Next]_vars PROVE IInv'
  OBVIOUS
<1>1. TypeOK'
  BY NextTypeOK DEF IInv, ReadingInv
<1>2. CASE UNCHANGED vars
  BY <1>2, StutterIInv
<1>3. CASE Fetch /\ UNCHANGED bridge
  <2>1. CASE \E pg \in Pages : FetchPage(pg)
    BY <1>1, <1>3, <2>1, FetchPageIInv
  <2>2. CASE \E f \in Failures : FetchAgain(f)
    BY <1>1, <1>3, <2>2, FetchAgainIInv
  <2>3. ASSUME NEW f \in Failures, SkipQuery(f) PROVE IInv'
    BY <1>1, <1>3, <2>3, EndOfPageIInv
  <2>4. ASSUME NEW f \in Failures, Abort(f) PROVE IInv'
    <3>1. /\ step \notin {"pushed", "failed"} /\ step' = "failed"
          /\ UNCHANGED <<bridge, query, item, fetching, classifying, deduplicating,
                         selecting, output>>
      BY <1>3, <2>4 DEF Abort, GivenUp
    <3> QED
      BY <1>1, <3>1, FailedIInv
  <2> QED
    BY <1>3, <2>1, <2>2, <2>3, <2>4 DEF Fetch
<1>4. CASE (ExcludeItem \/ RefuseRecord \/ AcceptItem \/ EndPage) /\ UNCHANGED bridge
  BY <1>1, <1>4, ExcludeIInv, AcceptIInv, EndOfPageIInv
<1>5. CASE (KeepRecord \/ DropDuplicate \/ EndRecords \/ EndDeduplication) /\ UNCHANGED bridge
  BY <1>1, <1>5, KeepIInv, DropIInv, EndRecordsIInv, EndDeduplicationIInv
<1>6. CASE (Draw \/ PassOver \/ NextRound \/ EndSelection) /\ UNCHANGED bridge
  BY <1>1, <1>6, DrawIInv, PassOverIInv, NextRoundIInv, EndSelectionIInv
<1>7. CASE (WriteGithub \/ WriteStackoverflow \/ Push) /\ UNCHANGED bridge
  BY <1>1, <1>7, WriteIInv, PushIInv
<1>8. CASE Kill /\ UNCHANGED bridge
  <2>1. /\ step \notin {"pushed", "failed"} /\ step' = "failed"
        /\ UNCHANGED <<bridge, query, item, fetching, classifying, deduplicating,
                       selecting, output>>
    BY <1>8 DEF Kill
  <2> QED
    BY <1>1, <2>1, FailedIInv
<1> QED
  BY <1>2, <1>3, <1>4, <1>5, <1>6, <1>7, <1>8 DEF Next, JobStep

\* The inductive invariant of a bridge.
THEOREM AcquisitionInvariant == Spec => []IInv
  BY InitIInv, NextIInv, PTL DEF Spec

\* The loops of a bridge stay in their ranges and its lists hold what they should;
\* in particular a search is repeated once at most.
THEOREM TypeCorrect == Spec => []TypeOK
<1>1. IInv => TypeOK
  BY DEF IInv
<1> QED
  BY <1>1, AcquisitionInvariant, PTL

\* What has been pushed is what the run selected, counted and wrote.
LEMMA PushedIs ==
  ASSUME IInv, branch.manifest # {}
  PROVE  /\ step \in Deduplicated /\ step = "pushed"
         /\ branch.evidence = Range(selected) /\ branch.manifest = {Manifest}
         /\ branch.provenance = IF bridge = "github" THEN {}
                                ELSE {ProvenanceOf(r) : r \in Range(selected)}
<1>1. step = "pushed"
  BY DEF IInv, OutputInv, Nothing
<1>2. branch = Output
  BY <1>1 DEF IInv, OutputInv
<1> QED
  BY <1>1, <1>2 DEF Output, Deduplicated

LEMMA NothingPushed ==
  ASSUME IInv, branch.manifest = {}
  PROVE  branch.evidence = {} /\ branch.provenance = {}
<1>1. step # "pushed"
  BY DEF IInv, OutputInv, Output
<1> QED
  BY <1>1 DEF IInv, OutputInv, Nothing

\* Once the loops are through, the phases add up.
LEMMA SumsAgree ==
  ASSUME IInv, step \in Deduplicated
  PROVE  /\ taken \in [Queries -> Nat] /\ Lengths(kept) \in [Queries -> Nat]
         /\ \A q \in Queries : taken[q] <= Len(kept[q]) /\ Lengths(kept)[q] = Len(kept[q])
         /\ Len(selected) = Total(taken) /\ Total(taken) <= Total(Lengths(kept))
         /\ Cardinality(Range(selected)) = Len(selected)
         /\ Total(Lengths(page)) = excluded + duplicates + Total(Lengths(kept))
         /\ {Len(selected), Total(taken), Total(Lengths(kept)), Total(Lengths(page)),
             Total(Lengths(records)), excluded, duplicates} \subseteq Nat
<1>1. /\ taken \in [Queries -> Nat] /\ excluded \in Nat /\ duplicates \in Nat
  BY DEF IInv, TypeOK
<1>2. /\ Lengths(page) \in [Queries -> Nat] /\ Lengths(records) \in [Queries -> Nat]
      /\ Lengths(kept) \in [Queries -> Nat]
      /\ \A q \in Queries : Lengths(kept)[q] = Len(kept[q]) /\ Len(kept[q]) \in Nat
  BY TypeFacts DEF IInv
<1>3. /\ Total(taken) \in Nat /\ Total(Lengths(page)) \in Nat
      /\ Total(Lengths(records)) \in Nat /\ Total(Lengths(kept)) \in Nat
  BY <1>1, <1>2, TotalType
<1>4. \A q \in Queries : taken[q] <= Len(kept[q])
  <2>1. PICK k \in Nat : \A q \in Queries :
          LET turns == IF q < query THEN k + 1 ELSE k
          IN taken[q] = IF turns < Len(kept[q]) THEN turns ELSE Len(kept[q])
    BY DEF IInv, SelectionInv, InRounds
  <2> QED
    BY <1>2, <2>1
<1>5. Total(taken) <= Total(Lengths(kept))
  BY <1>1, <1>2, <1>4, TotalMonotone
<1>6. Len(selected) = Total(taken) /\ Cardinality(Range(selected)) = Total(taken)
  BY DEF IInv, SelectionInv
<1>7. Total(Lengths(page)) = excluded + duplicates + Total(Lengths(kept))
  <2>1. Sorted = Lengths(records)
    BY DEF Sorted, Lengths, Deduplicated
  <2>2. duplicates + Total(Lengths(kept)) = Total(Lengths(records))
    BY <2>1 DEF IInv, KeptInv, Classified
  <2>3. excluded + Total(Lengths(records)) = Total(Lengths(page))
    BY DEF IInv, ClassifiedInv, Classified
  <2> QED
    BY <1>1, <1>3, <2>2, <2>3
<1> QED
  BY <1>1, <1>2, <1>3, <1>4, <1>5, <1>6, <1>7

\* The manifest that is pushed accounts for every post the API returned, however
\* many queries and pages there are.
THEOREM ManifestAddsUp == Spec => []CountsAddUp
<1>1. IInv => CountsAddUp
  <2> SUFFICES ASSUME IInv, NEW m \in branch.manifest
               PROVE  /\ m.fetched = m.excluded + m.duplicates + Total(m.eligiblePerQuery)
                      /\ Total(m.eligiblePerQuery) = m.accepted + m.overCap
                      /\ Total(m.acceptedPerQuery) = m.accepted
                      /\ m.accepted = Cardinality(branch.evidence)
    BY DEF CountsAddUp
  <2>1. m = Manifest /\ step \in Deduplicated /\ branch.evidence = Range(selected)
    BY PushedIs
  <2>2. /\ m.fetched = Total(Lengths(page)) /\ m.excluded = excluded
        /\ m.duplicates = duplicates /\ m.eligiblePerQuery = Lengths(kept)
        /\ m.acceptedPerQuery = taken /\ m.accepted = Len(selected)
        /\ m.overCap = Total(Lengths(kept)) - Len(selected)
    BY <2>1 DEF Manifest
  <2>3. /\ Len(selected) = Total(taken) /\ Cardinality(Range(selected)) = Len(selected)
        /\ Total(Lengths(page)) = excluded + duplicates + Total(Lengths(kept))
        /\ Total(Lengths(kept)) \in Nat /\ Len(selected) \in Nat
    BY <2>1, SumsAgree
  <2>4. Total(Lengths(kept)) = Len(selected) + (Total(Lengths(kept)) - Len(selected))
    BY <2>3
  <2> QED
    BY <2>1, <2>2, <2>3, <2>4
<1> QED
  BY <1>1, AcquisitionInvariant, PTL

\* "One record per query per round": no query is more than a record ahead of one
\* that has records left, whatever the cap.
THEOREM CapIsShared == Spec => []RoundRobinIsFair
<1>1. IInv => RoundRobinIsFair
  <2> SUFFICES ASSUME IInv, NEW m \in branch.manifest, NEW p \in Queries, NEW q \in Queries,
                      m.acceptedPerQuery[q] < m.eligiblePerQuery[q]
               PROVE  m.acceptedPerQuery[p] <=
                        m.acceptedPerQuery[q] + (IF p < q THEN 1 ELSE 0)
    BY DEF RoundRobinIsFair
  <2>1. m = Manifest /\ step \in Deduplicated
    BY PushedIs
  <2>2. m.acceptedPerQuery = taken /\ m.eligiblePerQuery = Lengths(kept)
    BY <2>1 DEF Manifest
  <2>3. taken[q] < Len(kept[q])
    BY <2>1, <2>2, SumsAgree
  <2>4. PICK k \in Nat : \A r \in Queries :
          LET turns == IF r < query THEN k + 1 ELSE k
          IN taken[r] = IF turns < Len(kept[r]) THEN turns ELSE Len(kept[r])
    BY <2>1 DEF IInv, SelectionInv, InRounds
  <2>5. taken[q] = IF q < query THEN k + 1 ELSE k
    BY <2>3, <2>4
  <2>6. /\ Len(kept[p]) \in Nat /\ Queries \subseteq Nat /\ query \in Nat
    BY TypeFacts, QueriesFinite, AcquisitionAssumption DEF IInv, TypeOK
  <2>7. taken[p] <= IF p < query THEN k + 1 ELSE k
    BY <2>4, <2>6
  <2>8. taken[p] <= taken[q] + (IF p < q THEN 1 ELSE 0)
    BY <2>4, <2>5, <2>6, <2>7
  <2> QED
    BY <2>2, <2>8
<1> QED
  BY <1>1, AcquisitionInvariant, PTL

\* What is kept is what is eligible on any page.
LEMMA EligibleIs ==
  \A p : p \in Eligible <=> (\E q \in Queries : p \in Range(page[q])) /\ p \notin Refused
<1> DEFINE found == UNION {Range(page[q]) : q \in Queries}
<1>1. \A p : p \in found <=> \E q \in Queries : p \in Range(page[q])
  OBVIOUS
<1>2. Eligible = found \ Refused
  BY DEF Eligible, Refused
<1> HIDE DEF found
<1> QED
  BY <1>1, <1>2

LEMMA SeenIsEligible ==
  ASSUME IInv, step \in Deduplicated
  PROVE  Seen = Eligible
<1>1. /\ \A q \in Queries : \A p \in Posts :
           p \in Range(records[q]) <=> p \in Range(page[q]) \ Refused
      /\ KeptInv /\ step \in Classified /\ step # "deduplicate"
  BY DEF IInv, ClassifiedInv, Classified, Deduplicated
<1>2. \A q \in Queries : /\ page[q] \in Seq(Posts) /\ records[q] \in Seq(Posts)
                         /\ kept[q] \in Seq(Posts) /\ Sorted[q] = Len(records[q])
  BY <1>1, TypeFacts DEF IInv, Sorted
<1>3. ASSUME NEW p, p \in Seen PROVE p \in Eligible
  <2>1. PICK q \in Queries : p \in Range(kept[q])
    BY <1>3 DEF Seen
  <2>2. PICK n \in 1 .. Len(kept[q]) : kept[q][n] = p
    BY <1>2, <2>1, RangeIs
  <2>3. PICK k \in 1 .. Len(records[q]) : records[q][k] = p
    BY <1>1, <1>2, <2>2, KeptFacts
  <2>4. p \in Range(records[q]) /\ p \in Posts
    BY <1>2, <2>3, RangeIs
  <2> QED
    BY <1>1, <2>4, EligibleIs
<1>4. ASSUME NEW p, p \in Eligible PROVE p \in Seen
  <2>1. PICK q \in Queries : p \in Range(page[q]) /\ p \notin Refused
    BY <1>4, EligibleIs
  <2>2. p \in Posts
    BY <1>2, <2>1, RangeIs
  <2>3. p \in Range(records[q])
    BY <1>1, <2>1, <2>2
  <2>4. PICK k \in 1 .. Len(records[q]) : records[q][k] = p
    BY <1>2, <2>3, RangeIs
  <2> QED
    BY <1>1, <1>2, <2>4, KeptFacts
<1> QED
  BY <1>3, <1>4

\* A bridge publishes as many of the eligible posts as the cap admits.
THEOREM CapIsFilled == Spec => []CapIsUsed
<1>1. IInv => CapIsUsed
  <2> SUFFICES ASSUME IInv, branch.manifest # {}
               PROVE  Cardinality(branch.evidence) =
                        IF Cardinality(Eligible) < MaxRecords
                        THEN Cardinality(Eligible) ELSE MaxRecords
    BY DEF CapIsUsed
  <2>1. step \in Deduplicated /\ step = "pushed" /\ branch.evidence = Range(selected)
    BY PushedIs
  <2>2. /\ Cardinality(Range(selected)) = Len(selected) /\ Len(selected) = Total(taken)
        /\ Total(taken) <= Total(Lengths(kept))
        /\ Len(selected) \in Nat /\ Total(Lengths(kept)) \in Nat
        /\ taken \in [Queries -> Nat] /\ Lengths(kept) \in [Queries -> Nat]
        /\ \A q \in Queries : Lengths(kept)[q] = Len(kept[q])
    BY <2>1, SumsAgree
  <2>3. Cardinality(Eligible) = Total(Lengths(kept))
    <3>1. Cardinality(Seen) = Total(Lengths(kept))
      BY <2>1, KeptFacts DEF IInv, Classified
    <3> QED
      BY <2>1, <3>1, SeenIsEligible
  <2>4. /\ Len(selected) <= MaxRecords
        /\ Len(selected) >= MaxRecords \/ \A q \in Queries : taken[q] = Len(kept[q])
    BY <2>1 DEF IInv, SelectionInv, CapReached
  <2>5. CASE Len(selected) >= MaxRecords
    BY <2>1, <2>2, <2>3, <2>4, <2>5, AcquisitionAssumption
  <2>6. CASE \A q \in Queries : taken[q] = Len(kept[q])
    <3>1. taken = Lengths(kept)
      BY <2>2, <2>6
    <3> QED
      BY <2>1, <2>2, <2>3, <2>4, <3>1, AcquisitionAssumption
  <2> QED
    BY <2>4, <2>5, <2>6
<1> QED
  BY <1>1, AcquisitionInvariant, PTL

\* What is pushed is eligible and goes to the first query that found it; the
\* provenance rows name every query that did.
THEOREM RecordsHaveOwners == Spec => []RecordsAreAttributed
<1>1. ASSUME IInv, branch.manifest # {}, NEW r \in branch.evidence
      PROVE  /\ r.post \in Eligible /\ r.query = FirstMatch(r.post)
             /\ matches[r.post] = {q \in Queries : r.post \in Range(page[q])}
  <2>1. step \in Deduplicated /\ step = "pushed" /\ r \in Drawn
    BY <1>1, PushedIs DEF IInv, SelectionInv
  <2>2. PICK u \in Units(taken) : r = [post |-> kept[u[1]][u[2]], query |-> u[1]]
    BY <2>1 DEF Drawn
  <2>3. PICK q \in Queries : \E n \in 1 .. taken[q] : u = <<q, n>>
    BY UnitsAre
  <2>4. PICK n \in 1 .. taken[q] : u = <<q, n>>
    BY <2>3
  <2>5. n \in 1 .. Len(kept[q])
    <3>1. /\ taken[q] <= Len(kept[q]) /\ taken \in [Queries -> Nat]
          /\ Len(kept[q]) \in Nat
      BY <1>1, <2>1, SumsAgree, TypeFacts DEF IInv
    <3> QED
      BY <3>1
  <2>6. r.post = kept[q][n] /\ r.query = q
    BY <2>2, <2>4
  <2>7. /\ KeptInv /\ step \in Classified /\ Seen = Eligible
        /\ \A s \in Queries : \A p \in Posts :
             p \in Range(records[s]) <=> p \in Range(page[s]) \ Refused
        /\ \A s \in Queries : kept[s] \in Seq(Posts) /\ records[s] \in Seq(Posts)
        /\ Sorted[q] = Len(records[q])
    <3>1. KeptInv /\ step \in Classified /\ Seen = Eligible
      BY <1>1, <2>1, SeenIsEligible DEF IInv, Classified
    <3>2. \A s \in Queries : kept[s] \in Seq(Posts) /\ records[s] \in Seq(Posts)
      BY <1>1, TypeFacts DEF IInv
    <3>3. Sorted[q] = Len(records[q])
      BY <2>1 DEF Sorted
    <3> QED
      BY <1>1, <3>1, <3>2, <3>3 DEF IInv, ClassifiedInv
  <2>8. r.post \in Posts /\ r.post \in Eligible
    <3>1. r.post \in Range(kept[q])
      BY <2>5, <2>6, <2>7, RangeIs
    <3>2. r.post \in Posts
      BY <2>7, <3>1, RangeIs
    <3> QED
      BY <2>7, <3>1, <3>2 DEF Seen
  <2>9. r.post \in Range(page[q]) /\ r.post \notin Refused
    <3>1. PICK k \in 1 .. Len(records[q]) : records[q][k] = r.post
      BY <2>5, <2>6, <2>7, KeptFacts
    <3>2. r.post \in Range(records[q])
      BY <2>7, <3>1, RangeIs
    <3> QED
      BY <2>7, <2>8, <3>2
  <2>10. \A s \in Queries : s < q => r.post \notin Range(page[s])
    <3>1. \A s \in Queries : s < q => r.post \notin Range(records[s])
      BY <2>5, <2>6, <2>7, KeptFacts
    <3> QED
      BY <2>7, <2>8, <2>9, <3>1
  <2>11. FirstMatch(r.post) = q
    <3>1. \A s \in Queries : r.post \in Range(page[s]) => q <= s
      BY <2>10, QueriesFinite
    <3>2. \A s \in Queries :
            r.post \in Range(page[s]) /\ (\A t \in Queries : r.post \in Range(page[t]) => s <= t)
            => s = q
      BY <2>9, <3>1, QueriesFinite
    <3> QED
      BY <2>9, <3>1, <3>2 DEF FirstMatch
  <2>12. matches[r.post] = {s \in Queries : r.post \in Range(page[s])}
    <3>1. matches[r.post] = {s \in Queries : r.post \in Range(records[s])}
      BY <1>1, <2>8 DEF IInv, MatchesInv
    <3> QED
      BY <2>7, <2>8, <2>9, <3>1
  <2> QED
    BY <2>6, <2>8, <2>11, <2>12
<1>2. IInv => RecordsAreAttributed
  <2> SUFFICES ASSUME IInv PROVE RecordsAreAttributed
    OBVIOUS
  <2>1. CASE branch.manifest = {}
    BY <2>1, NothingPushed DEF RecordsAreAttributed
  <2>2. CASE branch.manifest # {}
    <3>1. \A r \in branch.evidence :
            /\ r.post \in Eligible /\ r.query = FirstMatch(r.post)
            /\ matches[r.post] = {q \in Queries : r.post \in Range(page[q])}
      BY <1>1, <2>2
    <3>2. bridge = "stackoverflow" =>
            branch.provenance = {ProvenanceOf(r) : r \in branch.evidence}
      BY <2>2, PushedIs
    <3>3. \A r \in branch.evidence : ProvenanceOf(r) =
            [post |-> r.post, matched |-> {q \in Queries : r.post \in Range(page[q])}]
      BY <3>1 DEF ProvenanceOf
    <3> QED
      BY <3>1, <3>2, <3>3 DEF RecordsAreAttributed
  <2> QED
    BY <2>1, <2>2
<1> QED
  BY <1>2, AcquisitionInvariant, PTL

\* The stackoverflow bridge publishes nothing without an answer to every query.
THEOREM NoQueryIsSwallowed == Spec => []FailureIsLoud
<1>1. IInv => FailureIsLoud
  BY PushedIs DEF FailureIsLoud, IInv, ClassifiedInv, Classified
<1> QED
  BY <1>1, AcquisitionInvariant, PTL

=============================================================================
