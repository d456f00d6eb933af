---------------------------- MODULE Migrations ----------------------------
(***************************************************************************)
(* `init` and the guard of every other command: run_migrations             *)
(* (storage/migrations.py) and Store.__init__ (storage/sqlite.py).         *)
(*                                                                         *)
(* sqlite3 commits before a script and after each of its statements; the   *)
(* version a migration has reached is recorded in a transaction that the   *)
(* next script or the end of run_migrations commits.                       *)
(***************************************************************************)
EXTENDS Naturals, Sequences

CONSTANTS
  Processes,      \* commands that may run at the same time
  Statements,     \* MIGRATIONS: the number of statements of each
  MaxInits        \* bound on the inits started

ASSUME MigrationsAssumption ==
  /\ Statements \in Seq(Nat)
  /\ MaxInits \in Nat

Versions == DOMAIN Statements
Tables == UNION {{v} \X (1 .. Statements[v]) : v \in Versions}

VARIABLES
  created,      \* tables in the file
  applied,      \* committed rows of schema_migrations
  init,         \* what each process does as `init`
  inits

mvars == <<created, applied, init, inits>>

NoInit == [at |-> "none", already |-> {}, version |-> 1, next |-> 1, pending |-> {}]

MInit ==
  /\ created = {} /\ applied = {}
  /\ init = [p \in Processes |-> NoInit]
  /\ inits = 0

\* Store.open: the database must exist and have a version on record.
Opens == applied # {}

Ended(p, how) == init' = [init EXCEPT ![p] = [NoInit EXCEPT !.at = how]]

Initializing(p) == init[p].at \notin {"none", "ok", "raised", "killed"}

InitStart(p) ==
  /\ ~Initializing(p) /\ inits < MaxInits
  /\ init' = [init EXCEPT ![p] = [NoInit EXCEPT !.at = "migrate", !.already = applied]]
  /\ inits' = inits + 1
  /\ UNCHANGED <<created, applied>>

Migrating(p) == init[p].at = "migrate" /\ init[p].version \in Versions

SkipMigration(p) ==
  /\ Migrating(p) /\ init[p].version \in init[p].already
  /\ init' = [init EXCEPT ![p].version = @ + 1]
  /\ UNCHANGED <<created, applied, inits>>

\* executescript commits what is pending, then each statement as it goes.
CreateTable(p) ==
  /\ Migrating(p) /\ init[p].version \notin init[p].already
  /\ init[p].next <= Statements[init[p].version]
  /\ created' = created \cup {<<init[p].version, init[p].next>>}
  /\ init' = [init EXCEPT ![p].next = @ + 1, ![p].pending = {}]
  /\ applied' = applied \cup init[p].pending
  /\ UNCHANGED inits

\* Another process that holds the write lock commits at once.
Locked(p) == \E q \in Processes \ {p} : init[q].pending # {}

\* Faulty variant: the version is recorded before the script, which commits it.
RecordFirst(p) ==
  /\ Migrating(p) /\ init[p].version \notin init[p].already
  /\ init[p].next = 1
  /\ ~Locked(p)
  /\ init' = [init EXCEPT ![p].at = IF init[p].version \in applied THEN "raised" ELSE @,
                          ![p].pending = {init[p].version}]
  /\ UNCHANGED <<created, applied, inits>>

RecordVersion(p) ==
  /\ Migrating(p) /\ init[p].version \notin init[p].already
  /\ init[p].next > Statements[init[p].version]
  /\ ~Locked(p)
  /\ \/ /\ init[p].version \notin applied
        /\ init' = [init EXCEPT ![p].version = @ + 1, ![p].next = 1,
                                ![p].pending = @ \cup {init[p].version}]
     \/ /\ init[p].version \in applied    \* the primary key is taken
        /\ Ended(p, "raised")
  /\ UNCHANGED <<created, applied, inits>>

InitEnd(p) ==
  /\ init[p].at = "migrate" /\ init[p].version \notin Versions
  /\ Ended(p, "ok")
  /\ applied' = applied \cup init[p].pending
  /\ UNCHANGED <<created, inits>>

InitCrash(p) ==
  /\ Initializing(p)
  /\ Ended(p, "killed")
  /\ UNCHANGED <<created, applied, inits>>

InitStep(p) ==
  \/ InitStart(p) \/ SkipMigration(p) \/ CreateTable(p) \/ RecordVersion(p)
  \/ InitEnd(p) \/ InitCrash(p)
=============================================================================
