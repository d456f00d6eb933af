------------------------------- MODULE Ingest -------------------------------
(***************************************************************************)
(* `ingest` and `ingest-rss` (src/demand_radar/ingest): a file or a feed   *)
(* is parsed as a whole, then its records become rows one by one, each     *)
(* committed at once.  Several commands may work on the store together,    *)
(* and each may be killed and repeated.                                    *)
(*                                                                         *)
(* A line stands for a line of a file or an entry of a feed.  Its id       *)
(* stands for the evidence id, a hash of product, source kind and source   *)
(* id; its text for everything else a row is made of.                      *)
(***************************************************************************)
EXTENDS Migrations, FiniteSets

CONSTANTS
  Ids, Texts, Names,
  NoName,         \* a name that is missing or empty
  Inputs,         \* files and feeds that may be ingested
  MaxCommands,    \* bound on the commands started
  MaxCrashes      \* bound on the commands killed

\* What a line turns out to be: blank, not parsable or without a required
\* field, a record, or a record that no EvidenceItem can hold (a text of more
\* than 20000 characters, a source kind of more than 60, a language "english").
Shapes == {"blank", "malformed", "record", "oversized"}

Line == [shape : Shapes, id : Ids, text : Texts,
         creator : Names \cup {NoName}, author : Names \cup {NoName}]

\* whole: whether the input can be read at all.  A file may hold bytes that are
\* not UTF-8; a feed may not be XML, or have a root that is no feed.  No line of
\* such an input is ever seen.
Input == [kind : {"file", "feed"}, whole : {"ok", "broken", "no_feed"}, lines : Seq(Line)]

ASSUME IngestAssumption ==
  /\ NoName \notin Names
  /\ \A f \in Inputs :
       /\ f \in Input
       /\ f.whole = "no_feed" => f.kind = "feed"
       /\ f.whole # "ok" => f.lines = <<>>
  /\ MaxCommands \in Nat
  /\ MaxCrashes \in Nat

VARIABLES
  evidence,       \* evidence_items: at most one row per id
  command,        \* what each process last ingested, and how far it is
  started, crashes

ivars == <<evidence, command, started, crashes>>
vars == <<ivars, mvars>>

Idle == [input |-> [kind |-> "file", whole |-> "ok", lines |-> <<>>], batch |-> 0,
         todo |-> {}, errors |-> 0, inserted |-> {}, present |-> 0, exit |-> "none"]

Init ==
  /\ evidence = [i \in Ids |-> {}]
  /\ command = [p \in Processes |-> Idle]
  /\ started = 0
  /\ crashes = 0
  /\ MInit

----------------------------------------------------------------------------
(* RawEvidenceRecord and build_evidence_item *)

\* Faulty variant: the post is part of every author's identity.
AuthorOfPost(line) == [name |-> line.author, post |-> line.id]

\* stable_author_hash.  In parse_feed, `creator or author` takes an element
\* without children for false, which a name always is: the creator is passed over.
AuthorHash(line) ==
  IF line.author # NoName THEN [name |-> line.author, post |-> "any"]
                          ELSE [name |-> NoName, post |-> line.id]

Row(line, batch) == [line |-> line, author |-> AuthorHash(line), batch |-> batch]

----------------------------------------------------------------------------
(* parse_jsonl_records, parse_feed *)

\* Faulty variant: what follows a malformed line is not read.
RecordsBeforeError(f) ==
  {n \in DOMAIN f.lines :
     /\ f.lines[n].shape \in {"record", "oversized"}
     /\ \A m \in 1 .. n : f.lines[m].shape # "malformed"}

\* The positions of what is inserted, in the order of the input.
Records(f) == {n \in DOMAIN f.lines : f.lines[n].shape \in {"record", "oversized"}}

Malformed(f) == Cardinality({n \in DOMAIN f.lines : f.lines[n].shape = "malformed"})

Running(p) == command[p].exit = "running"

\* The whole input is parsed before anything is inserted.  Without a store that
\* can be opened the command ends before, and leaves everything as it is.
Start(p, f) ==
  /\ ~Running(p) /\ ~Initializing(p) /\ Opens
  /\ f.whole = "ok"
  /\ started < MaxCommands
  /\ started' = started + 1
  /\ command' = [command EXCEPT ![p] =
       [input |-> f, batch |-> started', todo |-> Records(f),
        errors |-> Malformed(f), inserted |-> {}, present |-> 0, exit |-> "running"]]
  /\ UNCHANGED <<evidence, crashes, mvars>>

\* A feed that is not XML is one error; the other cases raise.
StartUnreadable(p, f) ==
  /\ ~Running(p) /\ ~Initializing(p) /\ Opens
  /\ f.whole # "ok"
  /\ started < MaxCommands
  /\ started' = started + 1
  /\ LET reported == f.kind = "feed" /\ f.whole = "broken"
     IN command' = [command EXCEPT ![p] =
          [Idle EXCEPT !.input = f, !.batch = started',
                       !.errors = IF reported THEN 1 ELSE 0,
                       !.exit = IF reported THEN "errors" ELSE "raised"]]
  /\ UNCHANGED <<evidence, crashes, mvars>>

----------------------------------------------------------------------------
(* ingest_jsonl_file, ingest_rss_feed, insert_evidence_item *)

LineAt(p, n) == command[p].input.lines[n]

\* The record at n is the one whose turn it is.
AtRecord(p, n) ==
  /\ Running(p) /\ n \in command[p].todo
  /\ \A m \in command[p].todo : n <= m

\* Faulty variant: INSERT OR REPLACE.
Replace(p) == \E n \in command[p].todo :
  /\ AtRecord(p, n) /\ LineAt(p, n).shape = "record"
  /\ LET i == LineAt(p, n).id IN
     /\ evidence' = [evidence EXCEPT ![i] = {Row(LineAt(p, n), command[p].batch)}]
     /\ command' = [command EXCEPT ![p].todo = @ \ {n}, ![p].inserted = @ \cup {i}]
  /\ UNCHANGED <<started, crashes, mvars>>

\* Faulty variant: INSERT OR IGNORE, but every row counts as inserted.
InsertAndCount(p) == \E n \in command[p].todo :
  /\ AtRecord(p, n) /\ LineAt(p, n).shape = "record"
  /\ LET i == LineAt(p, n).id IN
     /\ evidence' = [evidence EXCEPT ![i] =
                       IF @ = {} THEN {Row(LineAt(p, n), command[p].batch)} ELSE @]
     /\ command' = [command EXCEPT ![p].todo = @ \ {n}, ![p].inserted = @ \cup {i}]
  /\ UNCHANGED <<started, crashes, mvars>>

\* INSERT OR IGNORE and its row count.
Insert(p) == \E n \in command[p].todo :
  /\ AtRecord(p, n) /\ LineAt(p, n).shape = "record"
  /\ LET i == LineAt(p, n).id IN
     \/ /\ evidence[i] = {}
        /\ evidence' = [evidence EXCEPT ![i] = {Row(LineAt(p, n), command[p].batch)}]
        /\ command' = [command EXCEPT ![p].todo = @ \ {n}, ![p].inserted = @ \cup {i}]
     \/ /\ evidence[i] # {}
        /\ command' = [command EXCEPT ![p].todo = @ \ {n}, ![p].present = @ + 1]
        /\ UNCHANGED evidence
  /\ UNCHANGED <<started, crashes, mvars>>

\* build_evidence_item raises out of the loop; nothing catches it.
InsertRaises(p) ==
  /\ \E n \in command[p].todo : AtRecord(p, n) /\ LineAt(p, n).shape = "oversized"
  /\ command' = [command EXCEPT ![p].exit = "raised"]
  /\ UNCHANGED <<evidence, started, crashes, mvars>>

Finish(p) ==
  /\ Running(p) /\ command[p].todo = {}
  /\ command' = [command EXCEPT ![p].exit = IF command[p].errors = 0 THEN "ok" ELSE "errors"]
  /\ UNCHANGED <<evidence, started, crashes, mvars>>

Crash(p) ==
  /\ Running(p)
  /\ crashes < MaxCrashes
  /\ crashes' = crashes + 1
  /\ command' = [command EXCEPT ![p].exit = "killed"]
  /\ UNCHANGED <<evidence, started, mvars>>

Next ==
  \E p \in Processes :
    \/ ~Running(p) /\ InitStep(p) /\ UNCHANGED ivars
    \/ \E f \in Inputs : Start(p, f) \/ StartUnreadable(p, f)
    \/ Insert(p) \/ InsertRaises(p) \/ Finish(p) \/ Crash(p)

Spec == Init /\ [][Next]_vars

----------------------------------------------------------------------------
(* Properties *)

Author == [name : Names, post : {"any"}] \cup [name : {NoName}, post : Ids]

\* Rows and commands hold values of their kinds; an id has one row at most.
TypeOK ==
  /\ \A i \in Ids : \A row \in evidence[i] :
       /\ evidence[i] = {row}
       /\ row.line.id = i
       /\ row.author \in Author
       /\ row.batch \in 1 .. MaxCommands
  /\ \A p \in Processes :
       /\ command[p].inserted \subseteq Ids
       /\ command[p].exit \in {"none", "running", "ok", "errors", "raised", "killed"}
  /\ started \in 0 .. MaxCommands
  /\ crashes \in 0 .. MaxCrashes
  /\ created \subseteq Tables /\ applied \subseteq Versions
  /\ \A p \in Processes :
       /\ init[p].at \in {"none", "migrate", "ok", "raised", "killed"}
       /\ init[p].already \cup init[p].pending \subseteq Versions

\* A command that passes the guard of Store.open finds every table: whichever
\* inits were killed or overlapped, no version is on record before its tables.
\* And init is "idempotent: safe to re-run on an existing one": one that was killed
\* can be repeated, and one that fails was overtaken by another that completed.
OpenedIsComplete ==
  /\ Opens => created = Tables
  /\ \A p \in Processes : init[p].at = "raised" => applied = Versions

\* "One bad line reports an error and is skipped; it never aborts the batch":
\* a command that was not killed has put every record of its input in the store.
NothingIsDropped ==
  \A p \in Processes : command[p].exit \in {"ok", "errors", "raised"} =>
    \A n \in DOMAIN command[p].input.lines :
      command[p].input.lines[n].shape = "record" =>
        evidence[command[p].input.lines[n].id] # {}

\* INSERT OR IGNORE, with the record committed at once: whichever commands run
\* together, are killed and repeated with other texts for the same ids, a row that
\* is in the store stays as it is, and a new one is the first line of its id in
\* the input of a command at work, under the batch of this command.
RowsAreFirstLines ==
  [][\A i \in Ids : evidence'[i] # evidence[i] =>
       /\ evidence[i] = {}
       /\ \E p \in Processes : Running(p) /\
            \E n \in DOMAIN command[p].input.lines :
              /\ LineAt(p, n).shape = "record" /\ LineAt(p, n).id = i
              /\ evidence'[i] = {Row(LineAt(p, n), command[p].batch)}
              /\ \A m \in 1 .. n - 1 :
                   LineAt(p, m).shape = "record" => LineAt(p, m).id # i]_vars

\* The command's summary: what it calls inserted are the rows of its own batch,
\* and when it has ended every line that is not blank has been counted once.
ReportIsTrue ==
  \A p \in Processes :
    LET c == command[p]
        lines == {n \in DOMAIN c.input.lines : c.input.lines[n].shape # "blank"}
    IN
    /\ c.inserted = {i \in Ids : \E row \in evidence[i] : row.batch = c.batch}
    /\ c.exit \in {"ok", "errors"} /\ c.input.whole = "ok" =>
         Cardinality(c.inserted) + c.present + c.errors = Cardinality(lines)

PersonOf(line) == IF line.creator # NoName THEN line.creator ELSE line.author

\* "Salted hash of the author identity": two posts have one author in the store
\* exactly when the same person is named for both.  Independence counts rest on it,
\* and a feed that names its authors as dc:creator refutes it (MCIngestSignedTwice).
SamePersonSameAuthor ==
  \A i, j \in Ids : \A a \in evidence[i], b \in evidence[j] :
    i # j => (a.author = b.author <=>
                /\ PersonOf(a.line) = PersonOf(b.line)
                /\ PersonOf(a.line) # NoName)
=============================================================================
