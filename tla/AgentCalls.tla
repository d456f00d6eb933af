----------------------------- MODULE AgentCalls -----------------------------
(***************************************************************************)
(* How a node asks an agent: call_agent_with_retry and                     *)
(* persist_call_artifacts (agents/base.py), O7InvokeRunner.run             *)
(* (agents/o7_invoke.py), and the loop of generate_opportunities           *)
(* (graph/nodes/agents.py), which classify and critic_review repeat.       *)
(*                                                                         *)
(* Every attempt has a directory; the process o7 leaves its result there,  *)
(* and the runner reads it when o7 has ended.  A killed execution leaves   *)
(* the directories behind, and possibly an o7 that is still at work, and   *)
(* the next execution of the node starts over in the same directories.     *)
(*                                                                         *)
(* The process o7 is external: it reports any status of EngineStatuses,    *)
(* ends without a report, or does not end in time.  A prompt is a version  *)
(* of what it is built from: the product file and rows of the store, which *)
(* other commands may change.                                              *)
(***************************************************************************)
EXTENDS Naturals

CONSTANTS
  NumElements,     \* elements of the node's loop
  EngineStatuses,  \* what o7 may report
  NoAnswer,
  MaxRetries,      \* max_agent_retries
  MaxDeaths,       \* bound on the number of executions that die
  MaxRewrites      \* bound on the changes of prompts

Elements == 1 .. NumElements
Prompts == 1 .. MaxRewrites + 1
Answers == [element : Elements, prompt : Prompts]

Systemic == {"BLOCKED_AUTH", "BLOCKED_USAGE"}
Blocked == {"BLOCKED_TIMEOUT", "BLOCKED_NOT_INSTALLED"}
Statuses == {"PASS", "FAIL_INVALID_OUTPUT", "FAIL_SCHEMA"} \cup Systemic \cup Blocked

ASSUME CallsAssumption ==
  /\ NoAnswer \notin Answers
  /\ EngineStatuses \subseteq Statuses
  /\ NumElements \in Nat /\ MaxRetries \in Nat /\ MaxDeaths \in Nat /\ MaxRewrites \in Nat

VARIABLES
  phase, handled, errs, stopped,   \* the node, as in AgentNode
  row,
  prompt,    \* the version a prompt is built from at present
  call,      \* the call that is being made
  out,       \* attempt-<n>/o7-out: [status, answer], or Empty
  record,    \* meta.json of the call, beside its attempts: the status
  orphans,   \* o7 processes whose caller was killed
  questions, \* history: what this execution has asked about its elements
  deserted,  \* history: what executions that died had asked
  deaths, rewrites

node == <<phase, handled, errs, stopped>>
disk == <<row, out, record>>
history == <<questions, deserted>>
world == <<prompt, orphans, history, deaths, rewrites>>
vars == <<node, disk, world, call>>

Attempts == 1 .. MaxRetries + 1
Directories == Elements \X Attempts

Empty == [status |-> "none", answer |-> NoAnswer]
NoCall == [at |-> "none"]

Init ==
  /\ phase = "idle"
  /\ handled = {} /\ errs = {} /\ stopped = FALSE
  /\ row = [e \in Elements |-> NoAnswer]
  /\ prompt = [e \in Elements |-> 1]
  /\ call = NoCall
  /\ out = [d \in Directories |-> Empty]
  /\ record = [e \in Elements |-> "none"]
  /\ orphans = {} /\ questions = {} /\ deserted = {}
  /\ deaths = 0 /\ rewrites = 0

----------------------------------------------------------------------------
(* The loop of the node *)

Start ==
  /\ phase = "idle"
  /\ phase' = "running"
  /\ UNCHANGED <<handled, errs, stopped, disk, world, call>>

Ask(e) ==
  /\ phase = "running" /\ ~stopped
  /\ call = NoCall /\ handled = 1 .. e - 1
  /\ call' = [at |-> "asking", element |-> e, asked |-> prompt[e],
              attempt |-> 1, status |-> "none"]
  /\ questions' = questions \cup {[element |-> e, prompt |-> prompt[e]]}
  /\ UNCHANGED <<node, disk, prompt, orphans, deserted, deaths, rewrites>>

Return ==
  /\ phase = "running" /\ call = NoCall
  /\ stopped \/ handled = Elements
  /\ phase' = "returned"
  /\ UNCHANGED <<handled, errs, stopped, disk, world, call>>

----------------------------------------------------------------------------
(* O7InvokeRunner.run *)

\* Faulty variant: the directories of a node, not of a call.
SharedDirectory(e, n) == <<1, n>>

Directory(e, n) == <<e, n>>

\* What a process that was asked p about e leaves in its directory: meta.json,
\* and a result if there is one.
Reported(d, s, e, p) ==
  [out EXCEPT ![d] = [status |-> s,
                      answer |-> IF s = "PASS" THEN [element |-> e, prompt |-> p]
                                               ELSE @.answer]]

Here == Directory(call.element, call.attempt)

EngineReports(s) ==
  /\ call.at = "asking"
  /\ out' = Reported(Here, s, call.element, call.asked)
  /\ call' = [call EXCEPT !.at = "ended"]
  /\ UNCHANGED <<node, row, record, world>>

EngineIsSilent ==
  /\ call.at = "asking"
  /\ call' = [call EXCEPT !.at = "ended"]
  /\ UNCHANGED <<node, disk, world>>

\* subprocess.run kills o7, which may just have reported.
EngineTimesOut ==
  /\ call.at = "asking"
  /\ \/ \E s \in EngineStatuses : out' = Reported(Here, s, call.element, call.asked)
     \/ UNCHANGED out
  /\ call' = [call EXCEPT !.at = "result", !.status = "BLOCKED_TIMEOUT"]
  /\ UNCHANGED <<node, row, record, world>>

NotInstalled ==
  /\ call.at = "asking"
  /\ call' = [call EXCEPT !.at = "result", !.status = "BLOCKED_NOT_INSTALLED"]
  /\ UNCHANGED <<node, disk, world>>

ReadMeta ==
  /\ call.at = "ended"
  /\ call' = [call EXCEPT !.at = "result",
       !.status = IF out[Here] = Empty THEN "FAIL_INVALID_OUTPUT" ELSE out[Here].status]
  /\ UNCHANGED <<node, disk, world>>

----------------------------------------------------------------------------
(* call_agent_with_retry, persist_call_artifacts *)

Transient == {"BLOCKED_TIMEOUT"}

Repeats == call.status \in Transient /\ call.attempt <= MaxRetries

\* Faulty variant: max_retries counts the repetitions from zero.
RetryOnceMore ==
  /\ call.at = "result"
  /\ call.status \in Transient /\ call.attempt <= MaxRetries + 1
  /\ call' = [call EXCEPT !.at = "asking", !.attempt = @ + 1]
  /\ UNCHANGED <<node, disk, world>>

\* Faulty variant: the attempts are not counted.
RetryUncounted ==
  /\ call.at = "result" /\ Repeats
  /\ call' = [call EXCEPT !.at = "asking"]
  /\ UNCHANGED <<node, disk, world>>

Retry ==
  /\ call.at = "result" /\ Repeats
  /\ call' = [call EXCEPT !.at = "asking", !.attempt = @ + 1]
  /\ UNCHANGED <<node, disk, world>>

\* Faulty variant: a systemic failure is not worth a record.
PersistUsable ==
  /\ call.at = "result" /\ ~Repeats
  /\ record' = IF call.status \in Systemic THEN record
               ELSE [record EXCEPT ![call.element] = call.status]
  /\ call' = [call EXCEPT !.at = "settle"]
  /\ UNCHANGED <<node, row, out, world>>

Persist ==
  /\ call.at = "result" /\ ~Repeats
  /\ record' = [record EXCEPT ![call.element] = call.status]
  /\ call' = [call EXCEPT !.at = "settle"]
  /\ UNCHANGED <<node, row, out, world>>

----------------------------------------------------------------------------
(* What the node makes of the result *)

CauseOf(s) == IF s \in Systemic THEN "systemic"
              ELSE IF s \in Blocked THEN "blocked" ELSE "invalid"

Settle ==
  /\ call.at = "settle"
  /\ handled' = handled \cup {call.element}
  /\ call' = NoCall
  /\ UNCHANGED <<phase, out, record, world>>

Fails(cause) ==
  /\ Settle
  /\ errs' = errs \cup {[element |-> call.element, cause |-> cause]}
  /\ stopped' = (cause = "systemic")
  /\ UNCHANGED row

\* Faulty variant: the node goes on to the next element.
CallFailsOnly ==
  /\ Settle
  /\ call.status # "PASS"
  /\ errs' = errs \cup {[element |-> call.element, cause |-> CauseOf(call.status)]}
  /\ UNCHANGED <<stopped, row>>

CallFails == call.at = "settle" /\ call.status # "PASS" /\ Fails(CauseOf(call.status))

\* An answer the node's own validation refuses.
AnswerIsInvalid == call.at = "settle" /\ call.status = "PASS" /\ Fails("invalid")

\* The node reads the file of the result only now.
StoreAnswer ==
  /\ Settle
  /\ call.status = "PASS"
  /\ row' = [row EXCEPT ![call.element] = out[Here].answer]
  /\ UNCHANGED <<errs, stopped>>

----------------------------------------------------------------------------
(* Deaths, and what goes on meanwhile *)

Die ==
  /\ phase = "running" /\ deaths < MaxDeaths
  /\ deaths' = deaths + 1
  /\ phase' = "idle"
  /\ handled' = {} /\ errs' = {} /\ stopped' = FALSE
  /\ call' = NoCall
  /\ deserted' = deserted \cup questions /\ questions' = {}

Orphan == [element |-> call.element, asked |-> call.asked, attempt |-> call.attempt]

\* The command is killed, and its o7 with it or not.
Crash ==
  /\ Die
  /\ \/ UNCHANGED orphans
     \/ call.at = "asking" /\ orphans' = orphans \cup {Orphan}
  /\ UNCHANGED <<disk, prompt, rewrites>>

\* meta.json cannot be parsed, or not as an AgentResult; no node catches this.
Raise ==
  /\ call.at = "ended"
  /\ out[Here] # Empty
  /\ Die
  /\ UNCHANGED <<disk, prompt, orphans, rewrites>>

\* It may also end without a report, which changes nothing.
OrphanReports(o, s) ==
  /\ out' = Reported(Directory(o.element, o.attempt), s, o.element, o.asked)
  /\ orphans' = orphans \ {o}
  /\ UNCHANGED <<node, row, record, prompt, history, deaths, rewrites, call>>

\* Only the start of a call reads what a prompt is built from.
Rewrite(e) ==
  /\ call = NoCall /\ rewrites < MaxRewrites
  /\ prompt' = [prompt EXCEPT ![e] = @ + 1]
  /\ rewrites' = rewrites + 1
  /\ UNCHANGED <<node, disk, orphans, history, deaths, call>>

----------------------------------------------------------------------------

NodeStep ==
  \/ \E e \in Elements : Ask(e)
  \/ \E s \in EngineStatuses : EngineReports(s)
  \/ EngineIsSilent \/ EngineTimesOut \/ NotInstalled \/ ReadMeta
  \/ Retry \/ Persist
  \/ CallFails \/ AnswerIsInvalid \/ StoreAnswer
  \/ Return

Next ==
  \/ Start \/ NodeStep \/ Crash \/ Raise
  \/ \E o \in orphans, s \in EngineStatuses : OrphanReports(o, s)
  \/ \E e \in Elements : Rewrite(e)

\* The command goes on executing: subprocess.run returns, at the latest when its
\* timeout has passed.
Spec == Init /\ [][Next]_vars /\ WF_vars(NodeStep)

----------------------------------------------------------------------------
(* Properties *)

\* Every variable has its type; above all, a call is attempted max_retries + 1
\* times at most, by one execution.
TypeOK ==
  /\ phase \in {"idle", "running", "returned"}
  /\ handled \subseteq Elements
  /\ errs \subseteq [element : Elements, cause : {"invalid", "blocked", "systemic"}]
  /\ stopped \in BOOLEAN
  /\ row \in [Elements -> Answers \cup {NoAnswer}]
  /\ prompt \in [Elements -> Prompts]
  /\ call = NoCall \/
     call \in [at : {"asking", "ended", "result", "settle"},
               element : Elements, asked : Prompts, attempt : Attempts,
               status : Statuses \cup {"none"}]
  /\ out \in [Directories -> [status : EngineStatuses \cup {"none"},
                              answer : Answers \cup {NoAnswer}]]
  /\ record \in [Elements -> Statuses \cup {"none"}]
  /\ orphans \subseteq [element : Elements, asked : Prompts, attempt : Attempts]
  /\ questions \subseteq Answers /\ deserted \subseteq Answers
  /\ deaths \in 0 .. MaxDeaths /\ rewrites \in 0 .. MaxRewrites

\* Retries, timeouts, reports read from files, records and dead executions
\* included, the node does what Pipeline takes it to do: one outcome for every
\* element, a loop that ends at a systemic failure, an answer in every row.
NodeIsAtomic == INSTANCE AgentNode
NodeIsAtomicSpec == NodeIsAtomic!NSpec

\* What an execution stores for an element is the answer to the prompt it asked,
\* after any number of attempts, or to the very prompt that a dead execution asked
\* about the same element: the report of its o7 may be taken for the new one.
AnswersAreToTheirPrompt ==
  [][\A e \in handled' \ handled :
       \/ \E r \in errs' : r.element = e
       \/ row'[e] = [element |-> e, prompt |-> call.asked]
       \/ row'[e] \in deserted /\ row'[e].element = e]_vars

\* The record of a call (one per element, written over by every execution) tells
\* what became of it: a row for an element the node reports no error for, the
\* cause of the error otherwise, also for the failure that ends the loop.
RecordsTellTheOutcome ==
  \A e \in handled :
    LET causes == {r.cause : r \in {x \in errs : x.element = e}} IN
    /\ record[e] \in Statuses
    /\ causes = {} => record[e] = "PASS" /\ row[e] # NoAnswer
    /\ causes # {} => causes = IF record[e] = "PASS" THEN {"invalid"}
                               ELSE {CauseOf(record[e])}

\* A node that was started returns, unless its execution dies: the retries end.
NodeReturns == (phase = "running") ~> (phase # "running")
=============================================================================
