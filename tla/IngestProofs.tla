---------------------------- MODULE IngestProofs ----------------------------
(***************************************************************************)
(* Proofs about Ingest, for all sets of inputs, commands and crashes.      *)
(***************************************************************************)
EXTENDS Ingest, FiniteSetTheorems, TLAPS

----------------------------------------------------------------------------
(* The inductive invariant *)

InitRecord == [at : {"none", "migrate", "ok", "raised", "killed"},
               already : SUBSET Versions, version : Nat \ {0}, next : Nat \ {0},
               pending : SUBSET Versions]

MTypes ==
  /\ created \subseteq Tables
  /\ applied \subseteq Versions
  /\ init \in [Processes -> InitRecord]
  /\ inits \in Nat

Complete(v) == \A n \in 1 .. Statements[v] : <<v, n>> \in created

\* A version that is on record, or is about to be, has all its tables, and a
\* process that executes the script of a version has left every earlier statement
\* in the file: what it commits is never taken back, by its own crash or another's.
VersionsAreComplete ==
  /\ \A v \in applied : Complete(v)
  /\ \A p \in Processes :
       /\ init[p].already \subseteq applied
       /\ \A v \in init[p].pending : Complete(v)
       /\ \A n \in 1 .. init[p].next - 1 : <<init[p].version, n>> \in created
       /\ init[p].version \in init[p].already => init[p].next = 1
       /\ init[p].at = "raised" => applied # {}

MInv == MTypes /\ VersionsAreComplete

Exits == {"none", "running", "ok", "errors", "raised", "killed"}

Command == [input : Inputs \cup {Idle.input}, batch : Nat, todo : SUBSET Nat,
            errors : Nat, inserted : SUBSET Ids, present : Nat, exit : Exits]

EvidenceRow == [line : Line, author : Author, batch : Nat]

ITypes ==
  /\ evidence \in [Ids -> SUBSET EvidenceRow]
  /\ command \in [Processes -> Command]
  /\ started \in 0 .. MaxCommands
  /\ crashes \in 0 .. MaxCrashes

\* An id has one row at most, made of a line with this id.
RowsHaveTheirId ==
  \A i \in Ids : \A row \in evidence[i] :
    /\ evidence[i] = {row}
    /\ row.line.id = i
    /\ row.batch \in 1 .. started

\* The batch tells the commands apart.
BatchesAreOwn ==
  \A p, q \in Processes :
    p # q /\ command[p].batch = command[q].batch => command[p].batch = 0

\* Who is at work has a batch.
HasABatch(p) ==
  /\ command[p].batch <= started
  /\ Running(p) => command[p].batch # 0

\* What is not to do any more is in the store.
StoresItsRecords(p) ==
  /\ command[p].todo \subseteq Records(command[p].input)
  /\ \A n \in Records(command[p].input) \ command[p].todo :
       evidence[LineAt(p, n).id] # {}

\* A command ends with nothing left to do, or at a record that raises.
EndsForAReason(p) ==
  /\ command[p].exit \in {"ok", "errors"} => command[p].todo = {}
  /\ command[p].exit = "raised" =>
       \/ command[p].input.lines = <<>>
       \/ \E n \in command[p].todo :
            /\ LineAt(p, n).shape = "oversized"
            /\ \A m \in command[p].todo : n <= m

NotBlank(f) == {n \in DOMAIN f.lines : f.lines[n].shape # "blank"}

InsertedBy(b) == {i \in Ids : \E row \in evidence[i] : row.batch = b}

\* Every line is still to do, or in one of the three counts.
CountsExactly(p) ==
  /\ command[p].inserted = InsertedBy(command[p].batch)
  /\ IsFiniteSet(command[p].inserted)
  /\ command[p].input.whole = "ok" =>
       Cardinality(command[p].inserted) + command[p].present + command[p].errors
         + Cardinality(command[p].todo) = Cardinality(NotBlank(command[p].input))

CommandInv(p) ==
  HasABatch(p) /\ StoresItsRecords(p) /\ EndsForAReason(p) /\ CountsExactly(p)

IInv == /\ ITypes /\ RowsHaveTheirId /\ BatchesAreOwn
        /\ \A p \in Processes : CommandInv(p)

----------------------------------------------------------------------------
(* Migrations: the store that a command opens is complete *)

LEMMA NoInitType == NoInit \in InitRecord
  BY DEF NoInit, InitRecord

\* Initially nothing is created and nothing on record.
LEMMA MInitMInv == MInit => MInv
  BY NoInitType, MigrationsAssumption
     DEF MInit, MInv, MTypes, VersionsAreComplete, NoInit

LEMMA VersionsAreNumbers == Versions \subseteq Nat \ {0} /\ \A v \in Versions : Statements[v] \in Nat
  BY MigrationsAssumption DEF Versions

\* What changes at one process only is judged by its own record and what has
\* been committed: more tables and more versions leave the others as they were.
LEMMA MigrationStep ==
  ASSUME MInv, NEW p \in Processes,
         init' = [init EXCEPT ![p] = init'[p]],
         init'[p] \in InitRecord,
         inits' \in Nat,
         created \subseteq created', created' \subseteq Tables,
         applied \subseteq applied', applied' \subseteq applied \cup init[p].pending,
         init'[p].already \subseteq applied',
         \A v \in init'[p].pending : Complete(v)',
         \A n \in 1 .. init'[p].next - 1 : <<init'[p].version, n>> \in created',
         init'[p].version \in init'[p].already => init'[p].next = 1,
         init'[p].at = "raised" => applied' # {}
  PROVE  MInv'
<1>1. MTypes'
  BY DEF MInv, MTypes, InitRecord
<1>2. \A v : Complete(v) => Complete(v)'
  BY DEF Complete
<1>3. \A v \in applied' : Complete(v)'
  BY <1>2 DEF MInv, VersionsAreComplete
<1>4. ASSUME NEW q \in Processes
      PROVE  /\ init'[q].already \subseteq applied'
             /\ \A v \in init'[q].pending : Complete(v)'
             /\ \A n \in 1 .. init'[q].next - 1 : <<init'[q].version, n>> \in created'
             /\ init'[q].version \in init'[q].already => init'[q].next = 1
             /\ init'[q].at = "raised" => applied' # {}
  <2>1. CASE q = p
    BY <2>1
  <2>2. CASE q # p
    <3>1. init'[q] = init[q]
      BY <2>2 DEF MInv, MTypes
    <3> QED
      BY <3>1, <1>2 DEF MInv, VersionsAreComplete
  <2> QED
    BY <2>1, <2>2
<1> QED
  BY <1>1, <1>3, <1>4 DEF MInv, VersionsAreComplete

\* A process whose init starts or ends holds no version and no script.
LEMMA MigrationReset ==
  ASSUME MInv, NEW p \in Processes,
         init' = [init EXCEPT ![p] = init'[p]],
         NEW a \in {"migrate", "ok", "raised", "killed"}, NEW k \in SUBSET applied,
         init'[p] = [at |-> a, already |-> k, version |-> 1, next |-> 1, pending |-> {}],
         a = "raised" => applied # {},
         inits' \in Nat, created' = created,
         applied' = applied \/ applied' = applied \cup init[p].pending
  PROVE  MInv'
<1>1. init[p] \in InitRecord /\ created \subseteq Tables /\ applied \subseteq Versions
  BY DEF MInv, MTypes
<1>2. k \subseteq Versions
  BY <1>1
<1>i. init'[p] \in InitRecord
  BY <1>2 DEF InitRecord
<1>3. /\ init'[p].at = a /\ init'[p].already = k
      /\ init'[p].pending = {} /\ init'[p].next = 1
  OBVIOUS
<1>4. \A n \in 1 .. init'[p].next - 1 : <<init'[p].version, n>> \in created'
  BY <1>3
<1> QED
  BY <1>1, <1>i, <1>3, <1>4, MigrationStep

\* No step of any init, its crash included, takes a version's tables away or
\* puts a version on record whose tables are missing.
LEMMA InitStepMInv == ASSUME MInv, NEW p \in Processes, InitStep(p) PROVE MInv'
<1>t. /\ init[p] \in InitRecord /\ inits \in Nat
      /\ created \subseteq Tables /\ applied \subseteq Versions
      /\ init = [q \in Processes |-> init[q]]
  BY DEF MInv, MTypes
<1>c. /\ \A v \in applied : Complete(v)
      /\ init[p].already \subseteq applied
      /\ \A v \in init[p].pending : Complete(v)
      /\ \A n \in 1 .. init[p].next - 1 : <<init[p].version, n>> \in created
      /\ init[p].version \in init[p].already => init[p].next = 1
  BY DEF MInv, VersionsAreComplete
<1>1. CASE InitStart(p)
  <2>1. /\ init' = [init EXCEPT ![p] = init'[p]]
        /\ init'[p] = [NoInit EXCEPT !.at = "migrate", !.already = applied]
        /\ inits' \in Nat /\ created' = created /\ applied' = applied
    BY <1>1, <1>t DEF InitStart
  <2>2. init'[p] = [at |-> "migrate", already |-> applied, version |-> 1, next |-> 1,
                    pending |-> {}]
    BY <2>1 DEF NoInit
  <2> QED
    BY <2>1, <2>2, MigrationReset
<1>2. CASE SkipMigration(p)
  <2>1. /\ init' = [init EXCEPT ![p] = init'[p]]
        /\ init'[p] = [init[p] EXCEPT !.version = @ + 1]
        /\ inits' = inits /\ created' = created /\ applied' = applied
    BY <1>2, <1>t DEF SkipMigration
  <2>2. /\ init'[p] \in InitRecord /\ init'[p].already = init[p].already
        /\ init'[p].pending = init[p].pending
        /\ init'[p].next = init[p].next /\ init'[p].at = init[p].at
    BY <1>t, <2>1 DEF InitRecord
  <2>3. init'[p].next = 1 /\ init'[p].at = "migrate"
    BY <1>2, <1>c, <2>2 DEF SkipMigration, Migrating
  <2>4. \A v : Complete(v) => Complete(v)'
    BY <2>1 DEF Complete
  <2>5. \A n \in 1 .. init'[p].next - 1 : <<init'[p].version, n>> \in created'
    BY <2>3
  <2> QED
    BY <2>1, <2>2, <2>3, <2>4, <2>5, <1>t, <1>c, MigrationStep
<1>3. CASE CreateTable(p)
  <2>1. /\ init' = [init EXCEPT ![p] = init'[p]]
        /\ init'[p] = [init[p] EXCEPT !.next = @ + 1, !.pending = {}]
        /\ inits' = inits
        /\ created' = created \cup {<<init[p].version, init[p].next>>}
        /\ applied' = applied \cup init[p].pending
    BY <1>3, <1>t DEF CreateTable
  <2>r. init'[p] = [at |-> init[p].at, already |-> init[p].already, pending |-> {},
                    version |-> init[p].version, next |-> init[p].next + 1]
    BY <1>t, <2>1 DEF InitRecord
  <2>2. /\ init'[p] \in InitRecord /\ init'[p].already = init[p].already
        /\ init'[p].pending = {} /\ init'[p].next = init[p].next + 1
        /\ init'[p].version = init[p].version /\ init'[p].at = init[p].at
    BY <1>t, <2>r DEF InitRecord
  <2>3. /\ init[p].version \in Versions /\ init[p].version \notin init[p].already
        /\ init[p].next \in 1 .. Statements[init[p].version]
        /\ init[p].at = "migrate"
    BY <1>3, <1>t, VersionsAreNumbers DEF CreateTable, Migrating, InitRecord
  <2>4. <<init[p].version, init[p].next>> \in Tables
    BY <2>3 DEF Tables
  <2>5. \A n \in 1 .. init'[p].next - 1 : <<init'[p].version, n>> \in created'
    BY <2>1, <2>2, <2>3, <1>c, VersionsAreNumbers
  <2> QED
    BY <2>1, <2>2, <2>3, <2>4, <2>5, <1>t, <1>c, MigrationStep
<1>4. CASE RecordVersion(p)
  <2>0. /\ init[p].version \in Versions /\ init[p].next > Statements[init[p].version]
        /\ init[p].at = "migrate" /\ inits' = inits /\ created' = created /\ applied' = applied
    BY <1>4 DEF RecordVersion, Migrating
  <2>1. CASE init[p].version \notin applied
    <3>1. /\ init' = [init EXCEPT ![p] = init'[p]]
          /\ init'[p] = [init[p] EXCEPT !.version = @ + 1, !.next = 1,
                                        !.pending = @ \cup {init[p].version}]
      BY <1>4, <2>1, <1>t DEF RecordVersion
    <3>r. init'[p] = [at |-> init[p].at, already |-> init[p].already, next |-> 1,
                      pending |-> init[p].pending \cup {init[p].version},
                      version |-> init[p].version + 1]
      BY <1>t, <3>1 DEF InitRecord
    <3>2. /\ init'[p] \in InitRecord /\ init'[p].already = init[p].already
          /\ init'[p].pending = init[p].pending \cup {init[p].version}
          /\ init'[p].next = 1 /\ init'[p].at = init[p].at
      BY <1>t, <2>0, <3>r DEF InitRecord
    <3>3. Complete(init[p].version)
      BY <2>0, <1>c, <1>t, VersionsAreNumbers DEF Complete, InitRecord
    <3>4. \A v : Complete(v) => Complete(v)'
      BY <2>0 DEF Complete
    <3>5. \A v \in init'[p].pending : Complete(v)'
      BY <3>2, <3>3, <3>4, <1>c
    <3>6. \A n \in 1 .. init'[p].next - 1 : <<init'[p].version, n>> \in created'
      BY <3>2
    <3> QED
      BY <3>1, <3>2, <3>5, <3>6, <2>0, <1>t, <1>c, MigrationStep
  <2>2. CASE init[p].version \in applied
    <3>1. /\ init' = [init EXCEPT ![p] = init'[p]]
          /\ init'[p] = [NoInit EXCEPT !.at = "raised"]
      BY <1>4, <2>2, <1>t DEF RecordVersion, Ended
    <3>2. init'[p] = [at |-> "raised", already |-> {}, version |-> 1, next |-> 1, pending |-> {}]
      BY <3>1 DEF NoInit
    <3> QED
      BY <3>1, <3>2, <2>0, <2>2, <1>t, MigrationReset
  <2> QED
    BY <2>1, <2>2
<1>5. CASE InitEnd(p)
  <2>1. /\ init' = [init EXCEPT ![p] = init'[p]]
        /\ init'[p] = [NoInit EXCEPT !.at = "ok"]
        /\ inits' \in Nat /\ created' = created
        /\ applied' = applied \cup init[p].pending
    BY <1>5, <1>t DEF InitEnd, Ended
  <2>2. init'[p] = [at |-> "ok", already |-> {}, version |-> 1, next |-> 1, pending |-> {}]
    BY <2>1 DEF NoInit
  <2> QED
    BY <2>1, <2>2, MigrationReset
<1>6. CASE InitCrash(p)
  <2>1. /\ init' = [init EXCEPT ![p] = init'[p]]
        /\ init'[p] = [NoInit EXCEPT !.at = "killed"]
        /\ inits' \in Nat /\ created' = created /\ applied' = applied
    BY <1>6, <1>t DEF InitCrash, Ended
  <2>2. init'[p] = [at |-> "killed", already |-> {}, version |-> 1, next |-> 1, pending |-> {}]
    BY <2>1 DEF NoInit
  <2> QED
    BY <2>1, <2>2, MigrationReset
<1> QED
  BY <1>1, <1>2, <1>3, <1>4, <1>5, <1>6 DEF InitStep

LEMMA MInvStutter == MInv /\ UNCHANGED mvars => MInv'
  BY DEF MInv, MTypes, VersionsAreComplete, Complete, mvars

LEMMA NextMInv == MInv /\ [Next]_vars => MInv'
<1>1. ASSUME MInv, NEW p \in Processes, InitStep(p) PROVE MInv'
  BY <1>1, InitStepMInv
<1>2. ASSUME MInv, UNCHANGED mvars PROVE MInv'
  BY <1>2, MInvStutter
<1> QED
  BY <1>1, <1>2 DEF Next, Start, StartUnreadable, Insert, InsertRaises, Finish, Crash, vars

\* A version on record, or about to be committed as one, has all its tables: for
\* any number of migrations, with two processes executing a script at once and
\* any of them killed in the middle of it.
THEOREM MigrationsInvariant == Spec => []MInv
<1>1. Init => MInv
  BY MInitMInv DEF Init
<1> QED
  BY <1>1, NextMInv, PTL DEF Spec

\* What every command relies on after Store.open: with the one migration that
\* MIGRATIONS has, a store with a version on record has all its tables, and an
\* init fails only where the store has been completed by another.
THEOREM OpenedStoreIsComplete == Len(Statements) = 1 => (Spec => []OpenedIsComplete)
<1> SUFFICES ASSUME Len(Statements) = 1 PROVE Spec => []OpenedIsComplete
  OBVIOUS
<1>1. Versions = {1} /\ Statements[1] \in Nat
  <2>1. Versions = 1 .. 1
    BY MigrationsAssumption DEF Versions
  <2> QED
    BY <2>1, VersionsAreNumbers
<1>2. ASSUME MInv PROVE OpenedIsComplete
  <2>1. applied # {} => applied = {1}
    BY <1>1, <1>2 DEF MInv, MTypes
  <2>2. applied # {} => created = Tables
    <3>1. Tables = {1} \X (1 .. Statements[1])
      BY <1>1 DEF Tables
    <3> QED
      BY <1>2, <2>1, <3>1 DEF MInv, MTypes, VersionsAreComplete, Complete
  <2> QED
    BY <1>1, <1>2, <2>1, <2>2 DEF MInv, VersionsAreComplete, OpenedIsComplete, Opens
<1> QED
  BY <1>2, MigrationsInvariant, PTL

----------------------------------------------------------------------------
(* Commands *)

\* What the lines of an input are, and how many there are of each kind.
LEMMA InputFacts ==
  ASSUME NEW f \in Inputs \cup {Idle.input}
  PROVE  /\ f \in Input
         /\ f.lines \in Seq(Line) /\ DOMAIN f.lines = 1 .. Len(f.lines)
         /\ f.whole # "ok" => f.lines = <<>>
         /\ \A n \in DOMAIN f.lines : f.lines[n] \in Line
         /\ Records(f) \in SUBSET (Nat \ {0}) /\ IsFiniteSet(Records(f))
         /\ Cardinality(Records(f)) \in Nat /\ Malformed(f) \in Nat
         /\ Cardinality(Records(f)) + Malformed(f) = Cardinality(NotBlank(f))
<1>1. Idle.input = [kind |-> "file", whole |-> "ok", lines |-> <<>>]
  BY DEF Idle
<1>2. f \in Input /\ (f.whole # "ok" => f.lines = <<>>)
  <2>1. CASE f \in Inputs
    BY <2>1, IngestAssumption
  <2>2. CASE f = Idle.input
    BY <2>2, <1>1 DEF Input
  <2> QED
    BY <2>1, <2>2
<1>3. f.lines \in Seq(Line)
  BY <1>2 DEF Input
<1>4. DOMAIN f.lines = 1 .. Len(f.lines) /\ Len(f.lines) \in Nat
  BY <1>3
<1>5. \A n \in DOMAIN f.lines : f.lines[n] \in Line
  BY <1>3
<1>6. IsFiniteSet(DOMAIN f.lines)
  <2>1. 1 \in Int /\ Len(f.lines) \in Int
    BY <1>4
  <2>2. IsFiniteSet(1 .. Len(f.lines))
    BY <2>1, FS_Interval
  <2> QED
    BY <1>4, <2>2
<1> DEFINE M == {n \in DOMAIN f.lines : f.lines[n].shape = "malformed"}
<1>7. IsFiniteSet(Records(f)) /\ IsFiniteSet(M)
  <2>1. Records(f) \in SUBSET DOMAIN f.lines /\ M \in SUBSET DOMAIN f.lines
    BY DEF Records
  <2> QED
    BY <1>6, <2>1, FS_Subset
<1>8. Records(f) \cap M = {} /\ Records(f) \cup M = NotBlank(f)
  BY <1>5 DEF Records, NotBlank, Line, Shapes
<1>9. Cardinality(Records(f)) \in Nat /\ Cardinality(M) \in Nat
  BY <1>7, FS_CardinalityType
<1>10. Cardinality(Records(f) \cup M)
         = Cardinality(Records(f)) + Cardinality(M) - Cardinality(Records(f) \cap M)
  BY <1>7, FS_Union
<1>11. Cardinality(NotBlank(f)) = Cardinality(Records(f)) + Malformed(f)
  <2>1. Malformed(f) = Cardinality(M)
    BY DEF Malformed
  <2>2. Cardinality(Records(f) \cap M) = 0
    BY <1>8, FS_EmptySet
  <2> HIDE DEF M
  <2>3. Cardinality(NotBlank(f)) = Cardinality(Records(f)) + Cardinality(M) - 0
    BY <1>8, <1>10, <2>2
  <2> QED
    BY <2>1, <2>3, <1>9
<1>12. Records(f) \in SUBSET (Nat \ {0})
  BY <1>4 DEF Records
<1> QED
  BY <1>2, <1>3, <1>4, <1>5, <1>7, <1>9, <1>11, <1>12 DEF Malformed

LEMMA InitIInv == Init => IInv
<1> SUFFICES ASSUME Init PROVE IInv
  OBVIOUS
<1>1. Idle \in Command
  BY DEF Idle, Command, Exits
<1>2. ITypes /\ RowsHaveTheirId
  BY <1>1, IngestAssumption DEF Init, ITypes, RowsHaveTheirId
<1>3. BatchesAreOwn
  BY DEF Init, BatchesAreOwn, Idle
<1>4. ASSUME NEW p \in Processes PROVE CommandInv(p)
  <2>1. /\ command[p].input.lines = <<>> /\ command[p].todo = {} /\ command[p].batch = 0
        /\ command[p].inserted = {} /\ command[p].present = 0 /\ command[p].errors = 0
        /\ command[p].exit = "none" /\ started = 0
    BY DEF Init, Idle
  <2>2. Records(command[p].input) = {} /\ NotBlank(command[p].input) = {}
    BY <2>1 DEF Records, NotBlank
  <2>3. InsertedBy(0) = {}
    BY DEF Init, InsertedBy
  <2>4. CountsExactly(p)
    BY <2>1, <2>2, <2>3, FS_EmptySet DEF CountsExactly
  <2> QED
    BY <2>1, <2>2, <2>4 DEF CommandInv, HasABatch, StoresItsRecords, EndsForAReason, Running
<1> QED
  BY <1>2, <1>3, <1>4 DEF IInv

\* A step that leaves the rows alone is judged by the command that takes it.
LEMMA CommandStep ==
  ASSUME IInv, NEW p \in Processes,
         command' = [command EXCEPT ![p] = command'[p]],
         command'[p] \in Command,
         evidence' = evidence,
         started' \in started .. MaxCommands,
         crashes' \in 0 .. MaxCrashes,
         command'[p].batch = command[p].batch \/ command'[p].batch > started,
         CommandInv(p)'
  PROVE  IInv'
<1>1. ITypes'
  BY IngestAssumption DEF IInv, ITypes
<1>2. RowsHaveTheirId'
  BY IngestAssumption DEF IInv, ITypes, RowsHaveTheirId
<1>3. \A q \in Processes \ {p} : command'[q] = command[q]
  BY DEF IInv, ITypes
<1>4. BatchesAreOwn'
  <2>1. \A q \in Processes : command[q].batch \in Nat /\ command[q].batch <= started
    BY DEF IInv, ITypes, Command, CommandInv, HasABatch
  <2> QED
    BY <1>3, <2>1 DEF IInv, ITypes, BatchesAreOwn
<1>5. ASSUME NEW q \in Processes \ {p} PROVE CommandInv(q)'
  <2>1. CommandInv(q) /\ command'[q] = command[q] /\ command[q].batch \in Nat
    BY <1>3 DEF IInv, ITypes, Command
  <2>2. HasABatch(q)'
    BY <2>1 DEF IInv, ITypes, CommandInv, HasABatch, Running
  <2>3. StoresItsRecords(q)' /\ EndsForAReason(q)'
    BY <2>1 DEF CommandInv, StoresItsRecords, EndsForAReason, LineAt
  <2>4. CountsExactly(q)'
    <3>1. InsertedBy(command[q].batch)' = InsertedBy(command[q].batch)
      BY <2>1 DEF InsertedBy
    <3> QED
      BY <2>1, <3>1 DEF CommandInv, CountsExactly
  <2> QED
    BY <2>2, <2>3, <2>4 DEF CommandInv
<1> QED
  BY <1>1, <1>2, <1>4, <1>5 DEF IInv

\* A new command has all of its input before it.
LEMMA StartIInv ==
  ASSUME IInv, NEW p \in Processes, NEW f \in Inputs, Start(p, f)
  PROVE  IInv'
<1> USE DEF Exits
<1>1. started \in Nat /\ started' = started + 1 /\ started' <= MaxCommands
      /\ f.whole = "ok" /\ crashes' = crashes /\ crashes \in 0 .. MaxCrashes
      /\ evidence' = evidence
  BY IngestAssumption DEF IInv, ITypes, Start
<1>2. /\ command' = [command EXCEPT ![p] = command'[p]]
      /\ command'[p] = [input |-> f, batch |-> started', todo |-> Records(f),
                        errors |-> Malformed(f), inserted |-> {}, present |-> 0,
                        exit |-> "running"]
  BY DEF IInv, ITypes, Start
<1>3. command'[p] \in Command
  BY <1>1, <1>2, InputFacts DEF Command
<1>4. HasABatch(p)' /\ StoresItsRecords(p)' /\ EndsForAReason(p)'
  BY <1>1, <1>2 DEF HasABatch, StoresItsRecords, EndsForAReason, Running
<1>5. CountsExactly(p)'
  <2>1. InsertedBy(started') = {}
    BY <1>1 DEF IInv, ITypes, RowsHaveTheirId, InsertedBy
  <2>2. (InsertedBy(command[p].batch))' = {}
    BY <1>1, <1>2, <2>1 DEF InsertedBy
  <2> QED
    BY <1>2, <2>2, InputFacts, FS_EmptySet DEF CountsExactly
<1> QED
  BY <1>1, <1>2, <1>3, <1>4, <1>5, CommandStep DEF CommandInv

\* An input that cannot be read leaves no record behind.
LEMMA StartUnreadableIInv ==
  ASSUME IInv, NEW p \in Processes, NEW f \in Inputs, StartUnreadable(p, f)
  PROVE  IInv'
<1> USE DEF Exits
<1>1. started \in Nat /\ started' = started + 1 /\ started' <= MaxCommands
      /\ f.whole # "ok" /\ crashes' = crashes /\ crashes \in 0 .. MaxCrashes
      /\ evidence' = evidence /\ f.lines = <<>>
  BY IngestAssumption DEF IInv, ITypes, StartUnreadable
<1>2. PICK k \in {0, 1}, x \in {"errors", "raised"} :
        /\ command' = [command EXCEPT ![p] = command'[p]]
        /\ command'[p] = [Idle EXCEPT !.input = f, !.batch = started',
                                      !.errors = k, !.exit = x]
  BY DEF IInv, ITypes, StartUnreadable
<1>r. command'[p] = [input |-> f, batch |-> started', todo |-> {}, errors |-> k,
                     inserted |-> {}, present |-> 0, exit |-> x]
  BY <1>2 DEF Idle
<1>3. command'[p] \in Command
  BY <1>1, <1>r DEF Command
<1>4. Records(f) = {}
  BY <1>1 DEF Records
<1>5. HasABatch(p)' /\ StoresItsRecords(p)' /\ EndsForAReason(p)'
  BY <1>1, <1>r, <1>4 DEF HasABatch, StoresItsRecords, EndsForAReason, Running
<1>6. CountsExactly(p)'
  <2>1. InsertedBy(started') = {}
    BY <1>1 DEF IInv, ITypes, RowsHaveTheirId, InsertedBy
  <2>2. (InsertedBy(command[p].batch))' = {}
    BY <1>1, <1>r, <2>1 DEF InsertedBy
  <2> QED
    BY <1>1, <1>r, <2>2, FS_EmptySet DEF CountsExactly
<1>7. CommandInv(p)'
  BY <1>5, <1>6 DEF CommandInv
<1>8. started' \in started .. MaxCommands /\ command'[p].batch > started
  BY <1>1, <1>r, IngestAssumption
<1> QED
  BY <1>1, <1>2, <1>3, <1>7, <1>8, CommandStep

\* Only the way a command has ended changes.
LEMMA ExitStep ==
  ASSUME IInv, NEW p \in Processes, NEW x \in Exits \ {"running"},
         command' = [command EXCEPT ![p].exit = x],
         evidence' = evidence, started' = started, crashes' \in 0 .. MaxCrashes,
         x \in {"ok", "errors"} => command[p].todo = {},
         x = "raised" => \E n \in command[p].todo :
                           /\ LineAt(p, n).shape = "oversized"
                           /\ \A m \in command[p].todo : n <= m
  PROVE  IInv'
<1>1. command[p] \in Command /\ CommandInv(p) /\ started \in 0 .. MaxCommands
  BY DEF IInv, ITypes
<1>2. /\ command' = [command EXCEPT ![p] = command'[p]]
      /\ command'[p] = [command[p] EXCEPT !.exit = x]
  BY DEF IInv, ITypes
<1>3. /\ command'[p] \in Command /\ command'[p].exit = x
      /\ command'[p].input = command[p].input /\ command'[p].batch = command[p].batch
      /\ command'[p].todo = command[p].todo /\ command'[p].errors = command[p].errors
      /\ command'[p].inserted = command[p].inserted
      /\ command'[p].present = command[p].present
  BY <1>1, <1>2 DEF Command
<1>4. HasABatch(p)' /\ StoresItsRecords(p)' /\ EndsForAReason(p)'
  BY <1>1, <1>3 DEF CommandInv, HasABatch, StoresItsRecords, EndsForAReason, Running, LineAt
<1>5. CountsExactly(p)'
  <2>1. InsertedBy(command[p].batch)' = InsertedBy(command[p].batch)
    BY <1>3 DEF InsertedBy
  <2> QED
    BY <1>1, <1>3, <2>1 DEF CommandInv, CountsExactly
<1>6. CommandInv(p)'
  BY <1>4, <1>5 DEF CommandInv
<1>7. started' \in started .. MaxCommands
  BY <1>1, IngestAssumption
<1> QED
  BY <1>2, <1>3, <1>6, <1>7, CommandStep

LEMMA EndIInv ==
  ASSUME IInv, NEW p \in Processes, InsertRaises(p) \/ Finish(p) \/ Crash(p)
  PROVE  IInv'
<1> USE DEF Exits
<1>0. crashes \in 0 .. MaxCrashes /\ MaxCrashes \in Nat
  BY IngestAssumption DEF IInv, ITypes
<1>1. CASE InsertRaises(p)
  <2>1. PICK n \in command[p].todo : AtRecord(p, n) /\ LineAt(p, n).shape = "oversized"
    BY <1>1 DEF InsertRaises
  <2> QED
    BY <1>0, <1>1, <2>1, ExitStep DEF InsertRaises, AtRecord
<1>2. CASE Finish(p)
  <2>1. PICK x \in {"ok", "errors"} : command' = [command EXCEPT ![p].exit = x]
    BY <1>2 DEF Finish
  <2> QED
    BY <1>0, <1>2, <2>1, ExitStep DEF Finish
<1>3. CASE Crash(p)
  <2>1. command' = [command EXCEPT ![p].exit = "killed"]
        /\ evidence' = evidence /\ started' = started /\ crashes' \in 0 .. MaxCrashes
    BY <1>0, <1>3 DEF Crash
  <2> QED
    BY <2>1, ExitStep
<1> QED
  BY <1>1, <1>2, <1>3

\* INSERT OR IGNORE, its row ignored.
LEMMA PresentIInv ==
  ASSUME IInv, NEW p \in Processes, NEW n \in command[p].todo,
         AtRecord(p, n), LineAt(p, n).shape = "record",
         evidence[LineAt(p, n).id] # {},
         command' = [command EXCEPT ![p] = command'[p]],
         command'[p] = [input |-> command[p].input, batch |-> command[p].batch,
                        todo |-> command[p].todo \ {n}, errors |-> command[p].errors,
                        inserted |-> command[p].inserted,
                        present |-> command[p].present + 1, exit |-> command[p].exit],
         UNCHANGED <<evidence, started, crashes>>
  PROVE  IInv'
<1>1. command[p] \in Command /\ CommandInv(p) /\ started \in 0 .. MaxCommands
      /\ crashes \in 0 .. MaxCrashes
  BY DEF IInv, ITypes
<1>2. command'[p] \in Command
  BY <1>1 DEF Command
<1>3. HasABatch(p)' /\ StoresItsRecords(p)' /\ EndsForAReason(p)'
  BY <1>1 DEF CommandInv, HasABatch, StoresItsRecords, EndsForAReason, Running,
     LineAt, AtRecord
<1>4. CountsExactly(p)'
  <2>1. InsertedBy(command[p].batch)' = InsertedBy(command[p].batch)
    BY DEF InsertedBy
  <2>2. command[p].todo \in SUBSET Records(command[p].input)
    BY <1>1 DEF CommandInv, StoresItsRecords
  <2>3. IsFiniteSet(command[p].todo)
    BY <1>1, <2>2, InputFacts, FS_Subset DEF Command
  <2>4. /\ Cardinality(command[p].todo) \in Nat
        /\ Cardinality(command[p].todo \ {n}) = Cardinality(command[p].todo) - 1
    BY <2>3, FS_RemoveElement, FS_CardinalityType
  <2>5. command[p].present \in Nat /\ command[p].errors \in Nat
        /\ Cardinality(command[p].inserted) \in Nat
    BY <1>1, FS_CardinalityType DEF CommandInv, CountsExactly, Command
  <2> QED
    BY <1>1, <2>1, <2>4, <2>5 DEF CommandInv, CountsExactly
<1>5. CommandInv(p)'
  BY <1>3, <1>4 DEF CommandInv
<1>6. started' \in started .. MaxCommands /\ command'[p].batch = command[p].batch
  BY <1>1, IngestAssumption
<1> QED
  BY <1>1, <1>2, <1>5, <1>6, CommandStep

\* INSERT OR IGNORE, with a row: the first of its id, of a batch of its own.
LEMMA InsertedIInv ==
  ASSUME IInv, NEW p \in Processes, NEW n \in command[p].todo,
         AtRecord(p, n), LineAt(p, n).shape = "record",
         NEW i \in Ids, i = LineAt(p, n).id, evidence[i] = {},
         evidence' = [evidence EXCEPT ![i] = {Row(LineAt(p, n), command[p].batch)}],
         command' = [command EXCEPT ![p] = command'[p]],
         command'[p] = [input |-> command[p].input, batch |-> command[p].batch,
                        todo |-> command[p].todo \ {n}, errors |-> command[p].errors,
                        inserted |-> command[p].inserted \cup {i},
                        present |-> command[p].present, exit |-> command[p].exit],
         UNCHANGED <<started, crashes>>
  PROVE  IInv'
<1>1. /\ command[p] \in Command /\ CommandInv(p) /\ started \in 0 .. MaxCommands
      /\ crashes \in 0 .. MaxCrashes /\ evidence \in [Ids -> SUBSET EvidenceRow]
      /\ command \in [Processes -> Command]
  BY DEF IInv, ITypes
<1>2. command'[p] \in Command
  BY <1>1 DEF Command
<1>3. /\ n \in Records(command[p].input) /\ command[p].input \in Inputs \cup {Idle.input}
      /\ n \in DOMAIN command[p].input.lines
  BY <1>1 DEF CommandInv, StoresItsRecords, Command, Records
<1>4. command[p].input \in Inputs
  BY <1>3 DEF Idle
<1>5. LineAt(p, n) \in Line
  BY <1>3, InputFacts DEF LineAt
<1>6. command[p].batch \in 1 .. started
  BY <1>1 DEF CommandInv, HasABatch, AtRecord, Command
<1> DEFINE row == Row(LineAt(p, n), command[p].batch)
<1>7. /\ row \in EvidenceRow /\ row.line = LineAt(p, n) /\ row.batch = command[p].batch
  <2>1. AuthorHash(LineAt(p, n)) \in Author
    BY <1>5 DEF AuthorHash, Author, Line
  <2> QED
    BY <2>1, <1>1, <1>5 DEF Row, EvidenceRow, Command
<1> HIDE DEF row
<1>8. /\ evidence'[i] = {row}
      /\ \A j \in Ids \ {i} : evidence'[j] = evidence[j]
      /\ evidence' \in [Ids -> SUBSET EvidenceRow]
  BY <1>1, <1>7 DEF row
<1>9. ITypes'
  BY <1>1, <1>2, <1>8, IngestAssumption DEF ITypes
<1>10. RowsHaveTheirId'
  <2>1. ASSUME NEW j \in Ids, NEW r \in evidence'[j]
        PROVE  evidence'[j] = {r} /\ r.line.id = j
               /\ r.batch \in 1 .. started'
    <3>1. CASE j = i
      BY <3>1, <2>1, <1>6, <1>7, <1>8
    <3>2. CASE j # i
      BY <3>2, <2>1, <1>8 DEF IInv, RowsHaveTheirId
    <3> QED
      BY <3>1, <3>2
  <2> QED
    BY <2>1 DEF RowsHaveTheirId
<1>12. \A q \in Processes \ {p} :
         /\ command'[q] = command[q] /\ CommandInv(q) /\ command[q] \in Command
         /\ command[q].batch # command[p].batch
  BY <1>1, <1>6 DEF IInv, BatchesAreOwn
<1>13. BatchesAreOwn'
  BY <1>12 DEF IInv, BatchesAreOwn
<1>14. \A j \in Ids : evidence[j] # {} => evidence'[j] # {}
  BY <1>8
<1>15. ASSUME NEW q \in Processes \ {p} PROVE CommandInv(q)'
  <2>1. command'[q] = command[q] /\ CommandInv(q) /\ command[q].batch # command[p].batch
        /\ command[q] \in Command
    BY <1>12
  <2>2. HasABatch(q)' /\ EndsForAReason(q)'
    BY <2>1 DEF CommandInv, HasABatch, EndsForAReason, Running, LineAt
  <2>3. StoresItsRecords(q)'
    <3>1. ASSUME NEW k \in Records(command[q].input) PROVE command[q].input.lines[k].id \in Ids
      BY <2>1, InputFacts DEF Command, Records, Line
    <3> QED
      BY <2>1, <3>1, <1>14 DEF CommandInv, StoresItsRecords, LineAt
  <2>4. CountsExactly(q)'
    <3>1. InsertedBy(command[q].batch)' = InsertedBy(command[q].batch)
      <4>1. ASSUME NEW j \in Ids
            PROVE  (\E r \in evidence'[j] : r.batch = command[q].batch)
                     <=> (\E r \in evidence[j] : r.batch = command[q].batch)
        BY <2>1, <1>7, <1>8
      <4> QED
        BY <4>1, <2>1 DEF InsertedBy
    <3> QED
      BY <2>1, <3>1 DEF CommandInv, CountsExactly
  <2> QED
    BY <2>2, <2>3, <2>4 DEF CommandInv
<1>16. CommandInv(p)'
  <2>1. HasABatch(p)' /\ EndsForAReason(p)'
    BY <1>1 DEF CommandInv, HasABatch, EndsForAReason, Running, AtRecord
  <2>2. StoresItsRecords(p)'
    <3>1. ASSUME NEW k \in Records(command[p].input) PROVE command[p].input.lines[k].id \in Ids
      BY <1>3, InputFacts DEF Records, Line
    <3>2. evidence'[command[p].input.lines[n].id] # {}
      BY <1>8 DEF LineAt
    <3> QED
      BY <1>1, <3>1, <3>2, <1>14 DEF CommandInv, StoresItsRecords, LineAt
  <2>3. CountsExactly(p)'
    <3>1. InsertedBy(command[p].batch)' = InsertedBy(command[p].batch) \cup {i}
      <4>1. ASSUME NEW j \in Ids
            PROVE  (\E r \in evidence'[j] : r.batch = command[p].batch)
                     <=> j = i \/ (\E r \in evidence[j] : r.batch = command[p].batch)
        BY <1>7, <1>8
      <4> QED
        BY <4>1 DEF InsertedBy
    <3>2. i \notin command[p].inserted /\ IsFiniteSet(command[p].inserted)
          /\ command[p].inserted = InsertedBy(command[p].batch)
      BY <1>1 DEF CommandInv, CountsExactly, InsertedBy
    <3>3. /\ IsFiniteSet(command[p].inserted \cup {i})
          /\ Cardinality(command[p].inserted \cup {i}) = Cardinality(command[p].inserted) + 1
          /\ Cardinality(command[p].inserted) \in Nat
      BY <3>2, FS_AddElement, FS_CardinalityType
    <3>4. command[p].todo \in SUBSET Records(command[p].input)
      BY <1>1 DEF CommandInv, StoresItsRecords
    <3>5. IsFiniteSet(command[p].todo)
      BY <1>3, <3>4, InputFacts, FS_Subset
    <3>6. /\ Cardinality(command[p].todo) \in Nat
          /\ Cardinality(command[p].todo \ {n}) = Cardinality(command[p].todo) - 1
      BY <3>5, FS_RemoveElement, FS_CardinalityType
    <3>7. command[p].present \in Nat /\ command[p].errors \in Nat
      BY <1>1 DEF Command
    <3> QED
      BY <1>1, <3>1, <3>2, <3>3, <3>6, <3>7 DEF CommandInv, CountsExactly
  <2> QED
    BY <2>1, <2>2, <2>3 DEF CommandInv
<1> QED
  BY <1>9, <1>10, <1>13, <1>15, <1>16 DEF IInv

LEMMA InsertIInv == ASSUME IInv, NEW p \in Processes, Insert(p) PROVE IInv'
<1>1. PICK n \in command[p].todo :
        /\ AtRecord(p, n) /\ LineAt(p, n).shape = "record"
        /\ \/ /\ evidence[LineAt(p, n).id] = {}
              /\ evidence' = [evidence EXCEPT ![LineAt(p, n).id] =
                                {Row(LineAt(p, n), command[p].batch)}]
              /\ command' = [command EXCEPT ![p].todo = @ \ {n},
                                            ![p].inserted = @ \cup {LineAt(p, n).id}]
           \/ /\ evidence[LineAt(p, n).id] # {}
              /\ command' = [command EXCEPT ![p].todo = @ \ {n}, ![p].present = @ + 1]
              /\ UNCHANGED evidence
        /\ UNCHANGED <<started, crashes>>
  BY DEF Insert
<1>2. command \in [Processes -> Command] /\ command[p] \in Command
  BY DEF IInv, ITypes
<1>3. CASE evidence[LineAt(p, n).id] = {}
  <2>1. PICK i : i = LineAt(p, n).id
    OBVIOUS
  <2>2. i \in Ids
    <3>1. n \in Records(command[p].input) /\ command[p].input \in Inputs \cup {Idle.input}
      BY <1>2 DEF IInv, CommandInv, StoresItsRecords, Command
    <3> QED
      BY <2>1, <3>1, InputFacts DEF Records, LineAt, Line
  <2>3. command' = [command EXCEPT ![p].todo = @ \ {n}, ![p].inserted = @ \cup {i}]
    BY <1>1, <1>3, <2>1
  <2>4. /\ command' = [command EXCEPT ![p] = command'[p]]
        /\ command'[p] = [command[p] EXCEPT !.todo = command[p].todo \ {n},
                                            !.inserted = command[p].inserted \cup {i}]
    BY <1>2, <2>3
  <2>5. command'[p] = [input |-> command[p].input, batch |-> command[p].batch,
                       todo |-> command[p].todo \ {n}, errors |-> command[p].errors,
                       inserted |-> command[p].inserted \cup {i},
                       present |-> command[p].present, exit |-> command[p].exit]
    BY <1>2, <2>4 DEF Command
  <2>6. /\ AtRecord(p, n) /\ LineAt(p, n).shape = "record" /\ evidence[i] = {}
        /\ evidence' = [evidence EXCEPT ![i] = {Row(LineAt(p, n), command[p].batch)}]
        /\ UNCHANGED <<started, crashes>>
    BY <1>1, <1>3, <2>1
  <2>7. command' = [command EXCEPT ![p] = command'[p]]
    BY <2>4
  <2> QED
    BY <2>1, <2>2, <2>5, <2>6, <2>7, InsertedIInv
<1>4. CASE evidence[LineAt(p, n).id] # {}
  <2>1. command' = [command EXCEPT ![p].todo = @ \ {n}, ![p].present = @ + 1]
    BY <1>1, <1>4
  <2>2. /\ command' = [command EXCEPT ![p] = command'[p]]
        /\ command'[p] = [command[p] EXCEPT !.todo = command[p].todo \ {n},
                                            !.present = command[p].present + 1]
    BY <1>2, <2>1
  <2>3. command'[p] = [input |-> command[p].input, batch |-> command[p].batch,
                       todo |-> command[p].todo \ {n}, errors |-> command[p].errors,
                       inserted |-> command[p].inserted,
                       present |-> command[p].present + 1, exit |-> command[p].exit]
    BY <1>2, <2>2 DEF Command
  <2>4. /\ AtRecord(p, n) /\ LineAt(p, n).shape = "record"
        /\ UNCHANGED <<evidence, started, crashes>>
    BY <1>1, <1>4
  <2>5. command' = [command EXCEPT ![p] = command'[p]]
    BY <2>2
  <2> QED
    BY <1>4, <2>3, <2>4, <2>5, PresentIInv
<1> QED
  BY <1>3, <1>4

LEMMA IInvStutter == ASSUME IInv, UNCHANGED ivars PROVE IInv'
<1>1. (\A p \in Processes : CommandInv(p))'
  <2>1. ASSUME NEW p \in Processes PROVE CommandInv(p)'
    <3>1. CommandInv(p) /\ command' = command /\ evidence' = evidence /\ started' = started
      BY DEF IInv, ivars
    <3>2. InsertedBy(command[p].batch)' = InsertedBy(command[p].batch)
      BY <3>1 DEF InsertedBy
    <3> QED
      BY <3>1, <3>2 DEF CommandInv, HasABatch, StoresItsRecords, EndsForAReason,
         CountsExactly, Running, LineAt
  <2> QED
    BY <2>1
<1> QED
  BY <1>1 DEF IInv, ivars, ITypes, RowsHaveTheirId, BatchesAreOwn

LEMMA NextIInv == IInv /\ [Next]_vars => IInv'
<1> SUFFICES ASSUME IInv, [Next]_vars PROVE IInv'
  OBVIOUS
<1>1. CASE UNCHANGED ivars
  BY <1>1, IInvStutter
<1>2. CASE \E p \in Processes : \E f \in Inputs : Start(p, f) \/ StartUnreadable(p, f)
  BY <1>2, StartIInv, StartUnreadableIInv
<1>3. CASE \E p \in Processes : Insert(p)
  BY <1>3, InsertIInv
<1>4. CASE \E p \in Processes : InsertRaises(p) \/ Finish(p) \/ Crash(p)
  BY <1>4, EndIInv
<1> QED
  BY <1>1, <1>2, <1>3, <1>4 DEF Next, vars

THEOREM IngestInvariant == Spec => []IInv
  BY InitIInv, NextIInv, PTL DEF Spec

----------------------------------------------------------------------------
(* The properties *)

\* Rows and commands hold values of their kinds; an id has one row at most,
\* whichever of `ingest`, `ingest-rss` and `init` run together and are killed.
THEOREM TypeCorrect == Spec => []TypeOK
<1>1. MInv /\ IInv => TypeOK
  <2> SUFFICES ASSUME MInv, IInv PROVE TypeOK
    OBVIOUS
  <2>1. ASSUME NEW i \in Ids, NEW row \in evidence[i]
        PROVE  /\ evidence[i] = {row} /\ row.line.id = i
               /\ row.author \in Author /\ row.batch \in 1 .. MaxCommands
    BY IngestAssumption DEF IInv, ITypes, RowsHaveTheirId, EvidenceRow
  <2>2. ASSUME NEW p \in Processes
        PROVE  command[p].inserted \subseteq Ids /\ command[p].exit \in Exits
    BY DEF IInv, ITypes, Command
  <2>3. ASSUME NEW p \in Processes
        PROVE  /\ init[p].at \in {"none", "migrate", "ok", "raised", "killed"}
               /\ init[p].already \cup init[p].pending \subseteq Versions
    BY DEF MInv, MTypes, InitRecord
  <2> QED
    BY <2>1, <2>2, <2>3 DEF TypeOK, IInv, ITypes, MInv, MTypes, Exits
<1> QED
  BY <1>1, MigrationsInvariant, IngestInvariant, PTL

\* What an insertion changes: one row, of an id that had none, made of the first
\* record of this id in the command's input.
LEMMA InsertsAFirstLine ==
  ASSUME IInv, NEW p \in Processes, Insert(p),
         NEW i \in Ids, evidence'[i] # evidence[i]
  PROVE  /\ evidence[i] = {} /\ Running(p)
         /\ \E n \in DOMAIN command[p].input.lines :
              /\ LineAt(p, n).shape = "record" /\ LineAt(p, n).id = i
              /\ evidence'[i] = {Row(LineAt(p, n), command[p].batch)}
              /\ \A m \in 1 .. n - 1 :
                   LineAt(p, m).shape = "record" => LineAt(p, m).id # i
<1>1. /\ command[p] \in Command /\ CommandInv(p) /\ DOMAIN evidence = Ids
  BY DEF IInv, ITypes
<1>2. PICK n \in command[p].todo :
        /\ AtRecord(p, n) /\ LineAt(p, n).shape = "record"
        /\ evidence[LineAt(p, n).id] = {}
        /\ evidence' = [evidence EXCEPT ![LineAt(p, n).id] =
                          {Row(LineAt(p, n), command[p].batch)}]
  BY DEF Insert
<1>3. LineAt(p, n).id = i /\ evidence'[i] = {Row(LineAt(p, n), command[p].batch)}
  BY <1>1, <1>2
<1>4. /\ n \in Records(command[p].input) /\ command[p].input \in Inputs \cup {Idle.input}
      /\ n \in DOMAIN command[p].input.lines
  BY <1>1 DEF CommandInv, StoresItsRecords, Command, Records
<1>5. ASSUME NEW m \in 1 .. n - 1, LineAt(p, m).shape = "record"
      PROVE  LineAt(p, m).id # i
  <2>1. m \in DOMAIN command[p].input.lines
    BY <1>4, InputFacts
  <2>2. m \in Records(command[p].input)
    BY <1>5, <2>1 DEF Records, LineAt
  <2>3. m \notin command[p].todo
    BY <1>2, <1>4, InputFacts DEF AtRecord
  <2> QED
    BY <1>1, <1>2, <1>3, <2>2, <2>3 DEF CommandInv, StoresItsRecords
<1> QED
  BY <1>2, <1>3, <1>4, <1>5 DEF AtRecord

\* INSERT OR IGNORE (insert_evidence_item), however commands overlap, die and are
\* repeated: no step replaces a row or takes it away, and one that adds a row takes
\* the first line of this id in the input of a command at work.
THEOREM FirstLineStays == Spec => RowsAreFirstLines
<1> DEFINE Added(i) ==
      /\ evidence[i] = {}
      /\ \E p \in Processes : Running(p) /\
           \E n \in DOMAIN command[p].input.lines :
             /\ LineAt(p, n).shape = "record" /\ LineAt(p, n).id = i
             /\ evidence'[i] = {Row(LineAt(p, n), command[p].batch)}
             /\ \A m \in 1 .. n - 1 :
                  LineAt(p, m).shape = "record" => LineAt(p, m).id # i
<1> DEFINE Action == \A i \in Ids : evidence'[i] # evidence[i] => Added(i)
<1>1. ASSUME IInv, [Next]_vars PROVE [Action]_vars
  <2> SUFFICES ASSUME NEW i \in Ids, evidence'[i] # evidence[i] PROVE Added(i)
    OBVIOUS
  <2>1. PICK p \in Processes : Insert(p)
    BY <1>1 DEF Next, Start, StartUnreadable, InsertRaises, Finish, Crash, vars, ivars
  <2> QED
    BY <1>1, <2>1, InsertsAFirstLine
<1>2. RowsAreFirstLines <=> [][Action]_vars
  BY DEF RowsAreFirstLines
<1> QED
  BY <1>1, <1>2, IngestInvariant, PTL DEF Spec

\* The summary that `ingest` prints is true of the store, whatever other commands
\* insert meanwhile.
THEOREM SummaryIsTrue == Spec => []ReportIsTrue
<1>1. IInv => ReportIsTrue
  <2> SUFFICES ASSUME IInv, NEW p \in Processes
               PROVE  /\ command[p].inserted = InsertedBy(command[p].batch)
                      /\ command[p].exit \in {"ok", "errors"} /\ command[p].input.whole = "ok" =>
                           Cardinality(command[p].inserted) + command[p].present
                             + command[p].errors = Cardinality(NotBlank(command[p].input))
    BY DEF ReportIsTrue, InsertedBy, NotBlank
  <2>1. CommandInv(p) /\ command[p] \in Command
    BY DEF IInv, ITypes
  <2>2. ASSUME command[p].exit \in {"ok", "errors"}, command[p].input.whole = "ok"
        PROVE  Cardinality(command[p].inserted) + command[p].present
                 + command[p].errors = Cardinality(NotBlank(command[p].input))
    <3>1. Cardinality(command[p].todo) = 0
      BY <2>1, <2>2, FS_EmptySet DEF CommandInv, EndsForAReason
    <3>2. /\ command[p].present \in Nat /\ command[p].errors \in Nat
          /\ Cardinality(command[p].inserted) \in Nat
      BY <2>1, FS_CardinalityType DEF CommandInv, CountsExactly, Command
    <3> QED
      BY <2>1, <2>2, <3>1, <3>2 DEF CommandInv, CountsExactly
  <2> QED
    BY <2>1, <2>2 DEF CommandInv, CountsExactly
<1> QED
  BY <1>1, IngestInvariant, PTL

\* A bad line is skipped and aborts nothing, unless it is a record that no
\* EvidenceItem can hold: the one exception, and the only one, is that records
\* follow such a record in its input.
OversizedIsLast ==
  \A f \in Inputs : \A n, m \in DOMAIN f.lines :
    n < m /\ f.lines[n].shape = "oversized" => f.lines[m].shape # "record"

THEOREM NothingIsLost == OversizedIsLast => (Spec => []NothingIsDropped)
<1> SUFFICES ASSUME OversizedIsLast PROVE Spec => []NothingIsDropped
  OBVIOUS
<1>1. IInv => NothingIsDropped
  <2> SUFFICES ASSUME IInv, NEW p \in Processes,
                      command[p].exit \in {"ok", "errors", "raised"},
                      NEW n \in DOMAIN command[p].input.lines,
                      command[p].input.lines[n].shape = "record"
               PROVE  evidence[command[p].input.lines[n].id] # {}
    BY DEF NothingIsDropped
  <2>1. /\ CommandInv(p) /\ command[p] \in Command
        /\ command[p].input \in Inputs \cup {Idle.input}
    BY DEF IInv, ITypes, Command
  <2>2. command[p].input \in Inputs /\ n \in Nat /\ command[p].input.lines # <<>>
    BY <2>1, InputFacts DEF Idle
  <2>3. n \in Records(command[p].input)
    BY DEF Records
  <2>4. n \notin command[p].todo
    <3> SUFFICES ASSUME n \in command[p].todo PROVE FALSE
      OBVIOUS
    <3>1. PICK m \in command[p].todo : /\ command[p].input.lines[m].shape = "oversized"
                                       /\ m <= n
      BY <2>1, <2>2 DEF CommandInv, EndsForAReason, LineAt
    <3>2. m \in DOMAIN command[p].input.lines /\ m \in Nat
      BY <2>1, InputFacts DEF CommandInv, StoresItsRecords, Records
    <3>3. m # n
      BY <3>1
    <3> QED
      BY <2>2, <3>1, <3>2, <3>3 DEF OversizedIsLast
  <2> QED
    BY <2>1, <2>3, <2>4 DEF CommandInv, StoresItsRecords, LineAt
<1> QED
  BY <1>1, IngestInvariant, PTL
=============================================================================
