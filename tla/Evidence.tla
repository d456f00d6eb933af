------------------------------ MODULE Evidence ------------------------------
(***************************************************************************)
(* Evidence items, the duplicate groups among them and what is counted     *)
(* once (ingest/deduplicate.py, scoring/independence.py).  An item is its  *)
(* rank in the order (published_at, id).  Whether two items match is given *)
(* by Similar, the pairs for which deduplicate_evidence records an edge:   *)
(* URLs and content hashes match whatever is beside them, but two texts    *)
(* are compared by word frequencies of all texts in the window, so that    *)
(* they may match in one window and not in another.                        *)
(***************************************************************************)
EXTENDS Naturals, FiniteSets

CONSTANTS
  Items,       \* evidence items, ranked by publication
  Similar,     \* for a window: pairs {i, j} joined by URL, content hash or text
  AuthorOf,    \* author.stable_hash of an item
  FamilyOf     \* source_family of an item

ASSUME ItemsAssumption ==
  /\ Items \subseteq Nat \ {0}
  /\ IsFiniteSet(Items)
  /\ Similar \in [SUBSET Items -> SUBSET SUBSET Items]

\* The absence of a duplicate link.
NoLink == 0

----------------------------------------------------------------------------
(* deduplicate_evidence *)

Closed(S, window) ==
  \A i \in S, j \in window : {i, j} \in Similar[window] => j \in S

\* The union-find group of an item among the items of a window.
GroupOf(i, window) ==
  {j \in window : \A S \in SUBSET window : i \in S /\ Closed(S, window) => j \in S}

Earliest(S) == CHOOSE i \in S : \A j \in S : i <= j

CanonicalOf(i, window) == Earliest(GroupOf(i, window))

\* Faulty variant: the canonical item is looked for on the wrong side.
DuplicatesBefore(window) == {i \in window : CanonicalOf(i, window) > i}

DuplicatesIn(window) == {i \in window : CanonicalOf(i, window) # i}

----------------------------------------------------------------------------
(* gather_independence_inputs and compute_independence *)

CanonicalMembers(members, link) == {i \in members : link[i] = NoLink}

DuplicateGroups(members, link) ==
  {link[i] : i \in members \ CanonicalMembers(members, link)}

UniqueAuthors(members, link) ==
  Cardinality({AuthorOf[i] : i \in CanonicalMembers(members, link)})

SourceFamilies(members, link) ==
  Cardinality({FamilyOf[i] : i \in CanonicalMembers(members, link)})

\* What repeats another item in whatever window the two are seen.
Reposts ==
  {pair \in SUBSET Items :
     \A window \in SUBSET Items : pair \subseteq window => pair \in Similar[window]}

\* No item of the set is a repost of another one.
Independent(S) == \A i, j \in S : i # j => {i, j} \notin Reposts
=============================================================================
