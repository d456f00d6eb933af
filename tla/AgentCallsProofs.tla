-------------------------- MODULE AgentCallsProofs --------------------------
(***************************************************************************)
(* Proofs about the agent calls of a node, for any elements, statuses and  *)
(* bounds: types, records, the answers that are stored, and the refinement *)
(* to AgentNode.  Executions die, and their o7 reports late, at any step.  *)
(***************************************************************************)
EXTENDS AgentCalls, TLAPS

Call == [at : {"asking", "ended", "result", "settle"},
         element : Elements, asked : Prompts, attempt : Attempts,
         status : Statuses \cup {"none"}]

----------------------------------------------------------------------------
(* The inductive invariant *)

\* A prompt is changed by rewrites only.
PromptsAreCounted == \A e \in Elements : prompt[e] <= rewrites + 1

\* A call belongs to a running execution, and is about an element that has no
\* outcome; errors belong to elements that have one.
OneCallAtATime ==
  /\ phase = "idle" => handled = {} /\ errs = {} /\ ~stopped
  /\ call # NoCall => phase = "running" /\ ~stopped /\ call.element \notin handled
  /\ \A r \in errs : r.element \in handled

\* A directory is empty or has a whole report; a PASS comes with an answer.
ReportsAreWhole ==
  \A d \in Directories :
    \/ out[d] = Empty
    \/ /\ out[d].status \in EngineStatuses
       /\ out[d].status = "PASS" => out[d].answer # NoAnswer

\* The status of an ended call is one there is; a PASS has left an answer, which
\* no other process takes away; the record has been written before the outcome.
ResultsAreBacked ==
  /\ call.at \in {"result", "settle"} =>
       /\ call.status \in Statuses
       /\ call.status = "PASS" => out[Here].answer # NoAnswer
  /\ call.at = "settle" => record[call.element] = call.status

\* An execution asks about an element once: for the call that is being made, or
\* for one that has its outcome.
QuestionsAreCalls ==
  /\ \A q \in questions :
       \/ q.element \in handled
       \/ call # NoCall /\ q = [element |-> call.element, prompt |-> call.asked]
  /\ call # NoCall => [element |-> call.element, prompt |-> call.asked] \in questions

\* Whoever reports late was asked by a dead execution.  A directory holds no
\* answer to another question than this or a dead execution asked about its element.
DirectoriesAreOwned ==
  /\ \A o \in orphans : [element |-> o.element, prompt |-> o.asked] \in deserted
  /\ \A e \in Elements, n \in Attempts :
       out[<<e, n>>].answer # NoAnswer =>
         /\ out[<<e, n>>].answer \in questions \cup deserted
         /\ out[<<e, n>>].answer.element = e

IInv ==
  /\ TypeOK
  /\ PromptsAreCounted
  /\ OneCallAtATime
  /\ ReportsAreWhole
  /\ ResultsAreBacked
  /\ RecordsTellTheOutcome
  /\ QuestionsAreCalls
  /\ DirectoriesAreOwned

----------------------------------------------------------------------------
(* Facts about the operators *)

\* A call that is being made is a record with all its fields, and its directory
\* is one of the directories there are.
LEMMA CallAtHand ==
  ASSUME TypeOK, call.at # "none"
  PROVE  call \in Call /\ call # NoCall /\ Here \in Directories
BY DEF TypeOK, Call, NoCall, Here, Directory, Directories

\* The answer to a prompt is no missing answer.
LEMMA AnswerIsGiven ==
  ASSUME NEW e \in Elements, NEW p \in Prompts
  PROVE  [element |-> e, prompt |-> p] \in Answers
         /\ [element |-> e, prompt |-> p] # NoAnswer
BY CallsAssumption DEF Answers

\* A report changes its own directory, and there no answer to none.
LEMMA ReportWritten ==
  ASSUME TypeOK, ReportsAreWhole,
         NEW d \in Directories, NEW s \in EngineStatuses,
         NEW e \in Elements, NEW p \in Prompts,
         out' = Reported(d, s, e, p)
  PROVE  /\ out' \in [Directories -> [status : EngineStatuses \cup {"none"},
                                      answer : Answers \cup {NoAnswer}]]
         /\ ReportsAreWhole'
         /\ \A x \in Directories : x # d => out'[x] = out[x]
         /\ out'[d].answer \in {out[d].answer, [element |-> e, prompt |-> p]}
         /\ \A x \in Directories : out[x].answer # NoAnswer => out'[x].answer # NoAnswer
<1> DEFINE a == IF s = "PASS" THEN [element |-> e, prompt |-> p] ELSE out[d].answer
           r == [status |-> s, answer |-> a]
<1>1. out' = [out EXCEPT ![d] = r]
  BY DEF Reported
<1>2. a \in Answers \cup {NoAnswer} /\ (s = "PASS" => a # NoAnswer)
      /\ (out[d].answer # NoAnswer => a # NoAnswer)
      /\ a \in {out[d].answer, [element |-> e, prompt |-> p]}
  BY AnswerIsGiven DEF TypeOK
<1>3. /\ r \in [status : EngineStatuses \cup {"none"}, answer : Answers \cup {NoAnswer}]
      /\ r.status = s /\ r.answer = a
  BY <1>2
<1> HIDE DEF a, r
<1>4. /\ out' \in [Directories -> [status : EngineStatuses \cup {"none"},
                                   answer : Answers \cup {NoAnswer}]]
      /\ out'[d] = r
      /\ \A x \in Directories : x # d => out'[x] = out[x]
  BY <1>1, <1>3 DEF TypeOK
<1>5. ReportsAreWhole'
  BY <1>2, <1>3, <1>4 DEF ReportsAreWhole
<1>. QED
  BY <1>2, <1>3, <1>4, <1>5

\* What becomes of a call that goes on within the loop of the same element.
GoesOn ==
  /\ call \in Call /\ call' \in Call
  /\ call # NoCall /\ call' # NoCall
  /\ call'.element = call.element /\ call'.asked = call.asked

LEMMA CallGoesOn ==
  ASSUME TypeOK, call.at # "none",
         NEW a \in {"asking", "ended", "result", "settle"},
         NEW n \in Attempts, NEW s \in Statuses \cup {"none"},
         call' = [call EXCEPT !.at = a, !.attempt = n, !.status = s]
  PROVE  GoesOn /\ call'.at = a /\ call'.attempt = n /\ call'.status = s
<1>1. call \in Call /\ call # NoCall
  BY CallAtHand
<1>2. /\ call' \in Call /\ call'.at = a /\ call'.attempt = n /\ call'.status = s
      /\ call'.element = call.element /\ call'.asked = call.asked
  BY <1>1 DEF Call
<1>3. call' # NoCall
  BY <1>2 DEF NoCall
<1>. QED
  BY <1>1, <1>2, <1>3 DEF GoesOn

\* RecordsTellTheOutcome, for one element.
Told(e) ==
  LET causes == {r.cause : r \in {x \in errs : x.element = e}} IN
  /\ record[e] \in Statuses
  /\ causes = {} => record[e] = "PASS" /\ row[e] # NoAnswer
  /\ causes # {} => causes = IF record[e] = "PASS" THEN {"invalid"}
                             ELSE {CauseOf(record[e])}

\* An element nobody is at work on keeps its record, its row and its errors.
LEMMA OutcomeStays ==
  ASSUME NEW e \in Elements, Told(e),
         record'[e] = record[e], row'[e] = row[e],
         \A r : r.element = e => (r \in errs' <=> r \in errs)
  PROVE  Told(e)'
<1>1. {x \in errs' : x.element = e} = {x \in errs : x.element = e}
  OBVIOUS
<1>. QED
  BY <1>1 DEF Told, CauseOf

LEMMA OutcomesAreTold == RecordsTellTheOutcome <=> \A e \in handled : Told(e)
BY DEF RecordsTellTheOutcome, Told

----------------------------------------------------------------------------
(* The steps of the node *)

LEMMA InitIInv == Init => IInv
<1> SUFFICES ASSUME Init PROVE IInv
  OBVIOUS
<1>1. TypeOK
  <2>1. 1 \in Prompts /\ 0 \in 0 .. MaxDeaths /\ 0 \in 0 .. MaxRewrites
    BY CallsAssumption DEF Prompts
  <2>2. /\ row \in [Elements -> Answers \cup {NoAnswer}]
        /\ prompt \in [Elements -> Prompts]
        /\ record \in [Elements -> Statuses \cup {"none"}]
        /\ out \in [Directories -> [status : EngineStatuses \cup {"none"},
                                    answer : Answers \cup {NoAnswer}]]
    BY <2>1 DEF Init, Empty
  <2>. QED
    BY <2>1, <2>2 DEF Init, TypeOK
<1>2. PromptsAreCounted /\ OneCallAtATime
  BY DEF Init, PromptsAreCounted, OneCallAtATime, Elements
<1>3. ReportsAreWhole
  BY DEF Init, ReportsAreWhole
<1>4. ResultsAreBacked /\ RecordsTellTheOutcome
  BY DEF Init, ResultsAreBacked, RecordsTellTheOutcome, NoCall
<1>5. DirectoriesAreOwned
  BY DEF Init, DirectoriesAreOwned, Directories, Empty
<1>6. QuestionsAreCalls
  BY DEF Init, QuestionsAreCalls
<1>. QED
  BY <1>1, <1>2, <1>3, <1>4, <1>5, <1>6 DEF IInv

\* A step of the call that writes nothing: only what it says of its result can
\* be wrong.
LEMMA CallMoves ==
  ASSUME IInv, GoesOn, UNCHANGED <<node, disk, world>>, ResultsAreBacked'
  PROVE  IInv'
<1>1. TypeOK'
  BY DEF IInv, TypeOK, GoesOn, Call, node, disk, world, history
<1>2. PromptsAreCounted' /\ OneCallAtATime'
  BY DEF IInv, PromptsAreCounted, OneCallAtATime, GoesOn, node, disk, world
<1>3. ReportsAreWhole'
  BY DEF IInv, ReportsAreWhole, disk
<1>4. RecordsTellTheOutcome'
  BY DEF IInv, RecordsTellTheOutcome, CauseOf, node, disk
<1>5. QuestionsAreCalls' /\ DirectoriesAreOwned'
  BY DEF IInv, QuestionsAreCalls, DirectoriesAreOwned, GoesOn, node, disk, world, history
<1>. QED
  BY <1>1, <1>2, <1>3, <1>4, <1>5 DEF IInv

\* A step in which o7 leaves a report in the directory of the attempt.
LEMMA EngineWrites ==
  ASSUME IInv, GoesOn, NEW s \in EngineStatuses,
         call.at = "asking", out' = Reported(Here, s, call.element, call.asked),
         UNCHANGED <<node, row, record, world>>, ResultsAreBacked'
  PROVE  IInv'
<1>1. Here \in Directories /\ call.element \in Elements /\ call.asked \in Prompts
  BY CallAtHand DEF IInv, GoesOn, Call
<1>2. TypeOK /\ ReportsAreWhole
  BY DEF IInv
<1>3. /\ out' \in [Directories -> [status : EngineStatuses \cup {"none"},
                                   answer : Answers \cup {NoAnswer}]]
      /\ ReportsAreWhole'
      /\ \A x \in Directories : x # Here => out'[x] = out[x]
      /\ out'[Here].answer \in {out[Here].answer,
                                [element |-> call.element, prompt |-> call.asked]}
  BY <1>1, <1>2, ReportWritten
<1>4. TypeOK'
  BY <1>2, <1>3 DEF TypeOK, GoesOn, Call, node, world, history
<1>5. PromptsAreCounted' /\ OneCallAtATime'
  BY DEF IInv, PromptsAreCounted, OneCallAtATime, GoesOn, node, world
<1>6. RecordsTellTheOutcome'
  BY DEF IInv, RecordsTellTheOutcome, CauseOf, node
<1>7. DirectoriesAreOwned'
  <2>1. UNCHANGED <<orphans, questions, deserted>>
    BY DEF world, history
  <2>2. [element |-> call.element, prompt |-> call.asked] \in questions
    BY DEF IInv, QuestionsAreCalls, GoesOn
  <2>3. ASSUME NEW e \in Elements, NEW n \in Attempts, out'[<<e, n>>].answer # NoAnswer
        PROVE  /\ out'[<<e, n>>].answer \in questions \cup deserted
               /\ out'[<<e, n>>].answer.element = e
    <3>1. CASE <<e, n>> = Here /\ out'[Here].answer # out[Here].answer
      <4>1. out'[<<e, n>>].answer = [element |-> call.element, prompt |-> call.asked]
        BY <1>3, <3>1
      <4>2. e = call.element
        BY <3>1 DEF Here, Directory
      <4>. QED
        BY <2>2, <4>1, <4>2
    <3>2. CASE <<e, n>> # Here \/ out'[Here].answer = out[Here].answer
      <4>1. out'[<<e, n>>].answer = out[<<e, n>>].answer
        BY <1>3, <3>2 DEF Directories
      <4>. QED
        BY <2>3, <4>1 DEF IInv, DirectoriesAreOwned
    <3>. QED
      BY <3>1, <3>2
  <2>. QED
    BY <2>1, <2>3 DEF IInv, DirectoriesAreOwned
<1>8. QuestionsAreCalls'
  BY DEF IInv, QuestionsAreCalls, GoesOn, node, world, history
<1>. QED
  BY <1>3, <1>4, <1>5, <1>6, <1>7, <1>8 DEF IInv

LEMMA StartStep ==
  ASSUME IInv, Start
  PROVE  IInv'
<1>1. TypeOK' /\ PromptsAreCounted' /\ ReportsAreWhole' /\ ResultsAreBacked'
      /\ QuestionsAreCalls' /\ DirectoriesAreOwned'
  BY DEF IInv, Start, TypeOK, PromptsAreCounted, ReportsAreWhole, ResultsAreBacked,
         QuestionsAreCalls, DirectoriesAreOwned, Here, disk, world, history
<1>2. OneCallAtATime'
  BY DEF IInv, Start, OneCallAtATime, disk, world
<1>3. RecordsTellTheOutcome'
  BY DEF IInv, Start, RecordsTellTheOutcome, CauseOf, disk
<1>. QED
  BY <1>1, <1>2, <1>3 DEF IInv

LEMMA AskStep ==
  ASSUME IInv, NEW e \in Elements, Ask(e)
  PROVE  IInv'
<1>1. /\ call' \in Call /\ call' # NoCall /\ call'.at = "asking"
      /\ call'.element = e /\ call'.asked = prompt[e]
  BY CallsAssumption DEF IInv, TypeOK, Ask, Call, NoCall, Attempts
<1>2. e \notin handled /\ phase = "running" /\ ~stopped /\ call = NoCall
      /\ UNCHANGED <<node, disk, prompt, orphans, deserted, deaths, rewrites>>
      /\ questions' = questions \cup {[element |-> e, prompt |-> prompt[e]]}
  BY DEF Ask, Elements
<1>3. TypeOK'
  <2>1. prompt[e] \in Prompts
    BY DEF IInv, TypeOK
  <2>2. questions' \subseteq Answers
    BY <1>2, <2>1, AnswerIsGiven DEF IInv, TypeOK
  <2>. QED
    BY <1>1, <1>2, <2>2 DEF IInv, TypeOK, Call, node, disk
<1>4. PromptsAreCounted' /\ OneCallAtATime' /\ ReportsAreWhole'
  BY <1>1, <1>2 DEF IInv, PromptsAreCounted, OneCallAtATime, ReportsAreWhole,
                    node, disk
<1>5. ResultsAreBacked'
  BY <1>1 DEF ResultsAreBacked
<1>6. RecordsTellTheOutcome'
  BY <1>2 DEF IInv, RecordsTellTheOutcome, CauseOf, node, disk
<1>7. DirectoriesAreOwned' /\ QuestionsAreCalls'
  BY <1>1, <1>2 DEF IInv, DirectoriesAreOwned, QuestionsAreCalls, node, disk
<1>. QED
  BY <1>3, <1>4, <1>5, <1>6, <1>7 DEF IInv

LEMMA ReturnStep ==
  ASSUME IInv, Return
  PROVE  IInv'
<1>1. TypeOK' /\ PromptsAreCounted' /\ ReportsAreWhole' /\ ResultsAreBacked'
      /\ QuestionsAreCalls' /\ DirectoriesAreOwned'
  BY DEF IInv, Return, TypeOK, PromptsAreCounted, ReportsAreWhole, ResultsAreBacked,
         QuestionsAreCalls, DirectoriesAreOwned, Here, disk, world, history
<1>2. OneCallAtATime'
  BY DEF IInv, Return, OneCallAtATime, disk, world
<1>3. RecordsTellTheOutcome'
  BY DEF IInv, Return, RecordsTellTheOutcome, CauseOf, disk
<1>. QED
  BY <1>1, <1>2, <1>3 DEF IInv

LEMMA EngineReportsStep ==
  ASSUME IInv, NEW s \in EngineStatuses, EngineReports(s)
  PROVE  IInv'
<1>1. TypeOK /\ call.at = "asking"
  BY DEF IInv, EngineReports
<1>2. call' = [call EXCEPT !.at = "ended", !.attempt = call.attempt, !.status = call.status]
      /\ call.attempt \in Attempts /\ call.status \in Statuses \cup {"none"}
  BY <1>1, CallAtHand DEF EngineReports, Call
<1>3. GoesOn /\ call'.at = "ended"
  BY <1>1, <1>2, CallGoesOn
<1>4. ResultsAreBacked'
  BY <1>3 DEF ResultsAreBacked
<1>. QED
  BY <1>1, <1>3, <1>4, EngineWrites DEF EngineReports

LEMMA EngineIsSilentStep ==
  ASSUME IInv, EngineIsSilent
  PROVE  IInv'
<1>1. TypeOK /\ call.at = "asking"
  BY DEF IInv, EngineIsSilent
<1>2. call' = [call EXCEPT !.at = "ended", !.attempt = call.attempt, !.status = call.status]
      /\ call.attempt \in Attempts /\ call.status \in Statuses \cup {"none"}
  BY <1>1, CallAtHand DEF EngineIsSilent, Call
<1>3. GoesOn /\ call'.at = "ended"
  BY <1>1, <1>2, CallGoesOn
<1>4. ResultsAreBacked'
  BY <1>3 DEF ResultsAreBacked
<1>. QED
  BY <1>3, <1>4, CallMoves DEF EngineIsSilent

LEMMA EngineTimesOutStep ==
  ASSUME IInv, EngineTimesOut
  PROVE  IInv'
<1>1. TypeOK /\ call.at = "asking"
  BY DEF IInv, EngineTimesOut
<1>2. call' = [call EXCEPT !.at = "result", !.attempt = call.attempt,
                           !.status = "BLOCKED_TIMEOUT"]
      /\ call.attempt \in Attempts /\ "BLOCKED_TIMEOUT" \in Statuses
  BY <1>1, CallAtHand DEF EngineTimesOut, Call, Statuses, Blocked
<1>3. GoesOn /\ call'.at = "result" /\ call'.status = "BLOCKED_TIMEOUT"
  BY <1>1, <1>2, CallGoesOn
<1>4. ResultsAreBacked'
  BY <1>2, <1>3 DEF ResultsAreBacked
<1>5. ASSUME NEW s \in EngineStatuses, out' = Reported(Here, s, call.element, call.asked)
      PROVE  IInv'
  BY <1>1, <1>3, <1>4, <1>5, EngineWrites DEF EngineTimesOut
<1>6. ASSUME UNCHANGED out
      PROVE  IInv'
  <2>1. UNCHANGED <<node, disk, world>>
    BY <1>6 DEF EngineTimesOut, disk
  <2>. QED
    BY <1>3, <1>4, <2>1, CallMoves
<1>. QED
  BY <1>5, <1>6 DEF EngineTimesOut

LEMMA NotInstalledStep ==
  ASSUME IInv, NotInstalled
  PROVE  IInv'
<1>1. TypeOK /\ call.at = "asking"
  BY DEF IInv, NotInstalled
<1>2. call' = [call EXCEPT !.at = "result", !.attempt = call.attempt,
                           !.status = "BLOCKED_NOT_INSTALLED"]
      /\ call.attempt \in Attempts /\ "BLOCKED_NOT_INSTALLED" \in Statuses
  BY <1>1, CallAtHand DEF NotInstalled, Call, Statuses, Blocked
<1>3. GoesOn /\ call'.at = "result" /\ call'.status = "BLOCKED_NOT_INSTALLED"
  BY <1>1, <1>2, CallGoesOn
<1>4. ResultsAreBacked'
  BY <1>2, <1>3 DEF ResultsAreBacked
<1>. QED
  BY <1>3, <1>4, CallMoves DEF NotInstalled

\* What meta.json says is a status of o7, and a PASS in it comes with an answer.
LEMMA ReadMetaStep ==
  ASSUME IInv, ReadMeta
  PROVE  IInv'
<1> DEFINE s == IF out[Here] = Empty THEN "FAIL_INVALID_OUTPUT" ELSE out[Here].status
<1>1. TypeOK /\ call.at = "ended" /\ Here \in Directories
  BY CallAtHand DEF IInv, ReadMeta
<1>2. s \in Statuses /\ (s = "PASS" => out[Here].answer # NoAnswer)
  BY <1>1, CallsAssumption DEF IInv, ReportsAreWhole, Statuses
<1>3. call' = [call EXCEPT !.at = "result", !.attempt = call.attempt, !.status = s]
      /\ call.attempt \in Attempts
  BY <1>1, CallAtHand DEF ReadMeta, Call
<1>4. GoesOn /\ call'.at = "result" /\ call'.status = s /\ call'.attempt = call.attempt
  <2> HIDE DEF s
  <2>. QED
    BY <1>1, <1>2, <1>3, CallGoesOn
<1>5. Here' = Here /\ UNCHANGED <<node, disk, world>>
  BY <1>4 DEF Here, Directory, GoesOn, ReadMeta
<1>6. ResultsAreBacked'
  <2> HIDE DEF s
  <2>. QED
    BY <1>2, <1>4, <1>5 DEF ResultsAreBacked, disk
<1>. QED
  BY <1>4, <1>5, <1>6, CallMoves

LEMMA RetryStep ==
  ASSUME IInv, Retry
  PROVE  IInv'
<1>1. TypeOK /\ call.at = "result" /\ call.attempt <= MaxRetries
  BY DEF IInv, Retry, Repeats
<1>2. call.attempt \in Attempts /\ call.status \in Statuses \cup {"none"}
  BY <1>1, CallAtHand DEF Call
<1>3. call' = [call EXCEPT !.at = "asking", !.attempt = call.attempt + 1,
                           !.status = call.status]
  BY <1>1, CallAtHand DEF Retry, Call
<1>4. call.attempt + 1 \in Attempts
  BY <1>1, <1>2, CallsAssumption DEF Attempts
<1>5. GoesOn /\ call'.at = "asking"
  BY <1>1, <1>2, <1>3, <1>4, CallGoesOn
<1>6. ResultsAreBacked'
  BY <1>5 DEF ResultsAreBacked
<1>. QED
  BY <1>5, <1>6, CallMoves DEF Retry

LEMMA PersistStep ==
  ASSUME IInv, Persist
  PROVE  IInv'
<1>1. TypeOK /\ call.at = "result"
  BY DEF IInv, Persist
<1>2. call \in Call /\ call.status \in Statuses /\ call.element \in Elements
      /\ (call.status = "PASS" => out[Here].answer # NoAnswer)
  BY <1>1, CallAtHand DEF IInv, ResultsAreBacked, Call
<1>3. call' = [call EXCEPT !.at = "settle", !.attempt = call.attempt, !.status = call.status]
      /\ call.attempt \in Attempts
  BY <1>2 DEF Persist, Call
<1>4. GoesOn /\ call'.at = "settle" /\ call'.attempt = call.attempt
      /\ call'.status = call.status
  BY <1>1, <1>2, <1>3, CallGoesOn
<1>5. /\ record' \in [Elements -> Statuses \cup {"none"}]
      /\ record'[call.element] = call.status
      /\ \A e \in Elements : e # call.element => record'[e] = record[e]
      /\ UNCHANGED <<node, row, out, world>>
  BY <1>1, <1>2 DEF TypeOK, Persist
<1>6. TypeOK'
  BY <1>1, <1>4, <1>5 DEF TypeOK, GoesOn, Call, node, world, history
<1>7. PromptsAreCounted' /\ OneCallAtATime' /\ ReportsAreWhole'
  BY <1>4, <1>5 DEF IInv, PromptsAreCounted, OneCallAtATime, ReportsAreWhole, GoesOn,
                    node, world
<1>8. ResultsAreBacked'
  BY <1>2, <1>4, <1>5 DEF ResultsAreBacked, Here, Directory, GoesOn
<1>9. RecordsTellTheOutcome'
  <2>1. ASSUME NEW e \in handled
        PROVE  Told(e)'
    <3>1. e \in Elements /\ e # call.element /\ Told(e)
      BY <1>1, <1>4, OutcomesAreTold DEF IInv, TypeOK, OneCallAtATime, GoesOn
    <3>. QED
      BY <1>5, <3>1, OutcomeStays DEF node
  <2>2. handled' = handled
    BY <1>5 DEF node
  <2>. QED
    BY <2>1, <2>2 DEF RecordsTellTheOutcome, Told
<1>10. QuestionsAreCalls' /\ DirectoriesAreOwned'
  BY <1>4, <1>5 DEF IInv, QuestionsAreCalls, DirectoriesAreOwned, GoesOn, node, world, history
<1>. QED
  BY <1>6, <1>7, <1>8, <1>9, <1>10 DEF IInv

\* The end of a call, whatever the node makes of its result.
LEMMA CallSettles ==
  ASSUME IInv, Settle, NEW el \in Elements, el = call.element, Told(el)',
         row' \in [Elements -> Answers \cup {NoAnswer}],
         errs' \subseteq [element : Elements, cause : {"invalid", "blocked", "systemic"}],
         stopped' \in BOOLEAN,
         \A e \in Elements : e # call.element => row'[e] = row[e],
         \A r : r \in errs' => r \in errs \/ r.element = call.element,
         errs \subseteq errs'
  PROVE  IInv'
<1>1. /\ TypeOK /\ call # NoCall /\ call.element \in Elements
      /\ phase = "running" /\ call.element \notin handled
  BY CallAtHand DEF IInv, Settle, OneCallAtATime, Call
<1>2. /\ handled' = handled \cup {call.element} /\ call' = NoCall
      /\ UNCHANGED <<phase, out, record, world>>
  BY DEF Settle
<1>3. TypeOK'
  BY <1>1, <1>2 DEF TypeOK, world, history
<1>4. PromptsAreCounted' /\ ReportsAreWhole'
  BY <1>2 DEF IInv, PromptsAreCounted, ReportsAreWhole, world
<1>5. OneCallAtATime'
  BY <1>1, <1>2 DEF IInv, OneCallAtATime
<1>6. ResultsAreBacked'
  BY <1>2 DEF ResultsAreBacked, NoCall
<1>7. RecordsTellTheOutcome'
  <2>1. ASSUME NEW e \in handled
        PROVE  Told(e)'
    <3>1. e \in Elements /\ e # call.element /\ Told(e)
      BY <1>1, OutcomesAreTold DEF IInv, TypeOK
    <3>2. \A r : r.element = e => (r \in errs' <=> r \in errs)
      BY <3>1
    <3>. QED
      BY <1>2, <3>1, <3>2, OutcomeStays
  <2>2. \A e \in handled' : Told(e)'
    BY <1>2, <2>1
  <2>. QED
    BY <2>2 DEF RecordsTellTheOutcome, Told
<1>8. QuestionsAreCalls' /\ DirectoriesAreOwned'
  BY <1>2 DEF IInv, QuestionsAreCalls, DirectoriesAreOwned, world, history
<1>. QED
  BY <1>3, <1>4, <1>5, <1>6, <1>7, <1>8 DEF IInv

\* An error about the element is the only one, and of the cause in the record.
LEMMA FailureIsTold ==
  ASSUME IInv, NEW c \in {"invalid", "blocked", "systemic"}, Fails(c),
         c = IF call.status = "PASS" THEN "invalid" ELSE CauseOf(call.status)
  PROVE  IInv'
<1>1. PICK e \in Elements : e = call.element
  BY CallAtHand DEF IInv, Fails, Settle, Call
<1> DEFINE r == [element |-> e, cause |-> c]
<1>2. /\ Settle /\ e \notin handled
      /\ record[e] = call.status /\ call.status \in Statuses
  BY <1>1, CallAtHand DEF IInv, Fails, Settle, OneCallAtATime, ResultsAreBacked, Call
<1>3. errs' = errs \cup {r} /\ stopped' = (c = "systemic") /\ row' = row
      /\ record' = record
  BY <1>1 DEF Fails, Settle
<1>4. \A x \in errs : x.element # e
  BY <1>2 DEF IInv, OneCallAtATime
<1>5. Told(e)'
  <2>1. {x \in errs' : x.element = e} = {r}
    BY <1>3, <1>4
  <2>2. {x.cause : x \in {r}} = {c}
    OBVIOUS
  <2>. QED
    BY <1>2, <1>3, <2>1, <2>2 DEF Told, CauseOf
<1>6. /\ row' \in [Elements -> Answers \cup {NoAnswer}]
      /\ errs' \subseteq [element : Elements, cause : {"invalid", "blocked", "systemic"}]
      /\ stopped' \in BOOLEAN
  BY <1>3 DEF IInv, TypeOK
<1>. QED
  BY <1>1, <1>2, <1>3, <1>5, <1>6, CallSettles

LEMMA CallFailsStep ==
  ASSUME IInv, CallFails
  PROVE  IInv'
BY FailureIsTold DEF CallFails, CauseOf

LEMMA AnswerIsInvalidStep ==
  ASSUME IInv, AnswerIsInvalid
  PROVE  IInv'
BY FailureIsTold DEF AnswerIsInvalid

\* What is stored is an answer: the file was there when meta.json said so.
LEMMA StoredIsAnswer ==
  ASSUME IInv, StoreAnswer
  PROVE  /\ call.element \in Elements /\ call.element \notin handled
         /\ out[Here].answer \in Answers
         /\ row' = [row EXCEPT ![call.element] = out[Here].answer]
         /\ record[call.element] = "PASS"
BY CallAtHand DEF IInv, TypeOK, StoreAnswer, Settle, OneCallAtATime, ResultsAreBacked, Call

LEMMA StoreAnswerStep ==
  ASSUME IInv, StoreAnswer
  PROVE  IInv'
<1>1. PICK e \in Elements : e = call.element
  BY StoredIsAnswer
<1>2. /\ e \notin handled /\ out[Here].answer \in Answers
      /\ row' = [row EXCEPT ![e] = out[Here].answer]
      /\ record[e] = "PASS"
  BY <1>1, StoredIsAnswer
<1>3. Settle /\ errs' = errs /\ stopped' = stopped /\ record' = record
  BY DEF StoreAnswer, Settle
<1>4. /\ row' \in [Elements -> Answers \cup {NoAnswer}]
      /\ row'[e] = out[Here].answer
      /\ \A x \in Elements : x # e => row'[x] = row[x]
  BY <1>2 DEF IInv, TypeOK
<1>5. Told(e)'
  <2>1. {x \in errs' : x.element = e} = {}
    BY <1>2, <1>3 DEF IInv, OneCallAtATime
  <2>2. row'[e] # NoAnswer /\ "PASS" \in Statuses
    BY <1>2, <1>4, CallsAssumption DEF Statuses
  <2>3. {x.cause : x \in {}} = {}
    OBVIOUS
  <2>. QED
    BY <1>2, <1>3, <2>1, <2>2, <2>3 DEF Told, CauseOf
<1>. QED
  BY <1>1, <1>3, <1>4, <1>5, CallSettles DEF IInv, TypeOK

----------------------------------------------------------------------------
(* Deaths, and what goes on meanwhile *)

\* A dead execution keeps its rows and its directories; its questions are deserted.
LEMMA ExecutionDies ==
  ASSUME IInv, Die, UNCHANGED <<disk, prompt, rewrites>>,
         orphans' \subseteq [element : Elements, asked : Prompts, attempt : Attempts],
         \A o \in orphans' : o \in orphans \/
           (call # NoCall /\ o.element = call.element /\ o.asked = call.asked)
  PROVE  IInv'
<1>1. TypeOK /\ (call # NoCall => call.element \in Elements)
  BY DEF IInv, TypeOK
<1>2. /\ phase' = "idle" /\ handled' = {} /\ errs' = {} /\ stopped' = FALSE
      /\ call' = NoCall /\ deaths' = deaths + 1 /\ deaths < MaxDeaths
      /\ deserted' = deserted \cup questions /\ questions' = {}
  BY <1>1 DEF Die, TypeOK
<1>3. TypeOK'
  <2>1. deaths' \in 0 .. MaxDeaths
    BY <1>1, <1>2, CallsAssumption DEF TypeOK
  <2>. QED
    BY <1>1, <1>2, <2>1 DEF TypeOK, disk
<1>4. PromptsAreCounted' /\ OneCallAtATime' /\ ReportsAreWhole' /\ ResultsAreBacked'
      /\ RecordsTellTheOutcome'
  BY <1>2 DEF IInv, PromptsAreCounted, OneCallAtATime, ReportsAreWhole, ResultsAreBacked,
              RecordsTellTheOutcome, NoCall, disk
<1>5. QuestionsAreCalls' /\ DirectoriesAreOwned'
  BY <1>2 DEF IInv, QuestionsAreCalls, DirectoriesAreOwned, disk
<1>. QED
  BY <1>3, <1>4, <1>5 DEF IInv

LEMMA CrashStep ==
  ASSUME IInv, Crash
  PROVE  IInv'
<1>1. ASSUME call.at = "asking"
      PROVE  Orphan \in [element : Elements, asked : Prompts, attempt : Attempts]
             /\ call # NoCall /\ Orphan.element = call.element /\ Orphan.asked = call.asked
  BY <1>1, CallAtHand DEF IInv, Orphan, Call
<1>2. orphans \subseteq [element : Elements, asked : Prompts, attempt : Attempts]
  BY DEF IInv, TypeOK
<1>3. Die /\ UNCHANGED <<disk, prompt, rewrites>>
      /\ (orphans' = orphans \/ (call.at = "asking" /\ orphans' = orphans \cup {Orphan}))
  BY DEF Crash
<1>. QED
  BY <1>1, <1>2, <1>3, ExecutionDies

LEMMA RaiseStep ==
  ASSUME IInv, Raise
  PROVE  IInv'
<1>1. Die /\ UNCHANGED <<disk, prompt, orphans, rewrites>>
  BY DEF Raise
<1>2. orphans \subseteq [element : Elements, asked : Prompts, attempt : Attempts]
  BY DEF IInv, TypeOK
<1>. QED
  BY <1>1, <1>2, ExecutionDies

\* A late report is one to a deserted question, about the element of its directory,
\* and leaves an answer there if there was one.
LEMMA OrphanReportsStep ==
  ASSUME IInv, NEW o \in orphans, NEW s \in EngineStatuses, OrphanReports(o, s)
  PROVE  IInv'
<1>1. /\ TypeOK /\ ReportsAreWhole
      /\ o.element \in Elements /\ o.asked \in Prompts /\ o.attempt \in Attempts
      /\ [element |-> o.element, prompt |-> o.asked] \in deserted
  BY DEF IInv, TypeOK, DirectoriesAreOwned
<1>2. PICK d \in Directories : d = <<o.element, o.attempt>>
  BY <1>1 DEF Directories
<1>3. out' = Reported(d, s, o.element, o.asked)
  BY <1>2 DEF OrphanReports, Directory
<1>4. UNCHANGED <<node, row, record, prompt, history, deaths, rewrites, call>>
      /\ orphans' = orphans \ {o}
  BY DEF OrphanReports
<1>5. /\ out' \in [Directories -> [status : EngineStatuses \cup {"none"},
                                   answer : Answers \cup {NoAnswer}]]
      /\ ReportsAreWhole'
      /\ \A x \in Directories : x # d => out'[x] = out[x]
      /\ out'[d].answer \in {out[d].answer, [element |-> o.element, prompt |-> o.asked]}
      /\ \A x \in Directories : out[x].answer # NoAnswer => out'[x].answer # NoAnswer
  BY <1>1, <1>3, ReportWritten
<1>6. TypeOK'
  BY <1>1, <1>4, <1>5 DEF TypeOK, node, history
<1>7. PromptsAreCounted' /\ OneCallAtATime'
  BY <1>4 DEF IInv, PromptsAreCounted, OneCallAtATime, node
<1>8. ResultsAreBacked'
  BY <1>1, <1>4, <1>5, CallAtHand DEF IInv, ResultsAreBacked, Here, Directory
<1>9. RecordsTellTheOutcome'
  BY <1>4 DEF IInv, RecordsTellTheOutcome, CauseOf, node
<1>10. DirectoriesAreOwned'
  <2>1. UNCHANGED <<questions, deserted>>
    BY <1>4 DEF history
  <2>2. ASSUME NEW e \in Elements, NEW n \in Attempts, out'[<<e, n>>].answer # NoAnswer
        PROVE  /\ out'[<<e, n>>].answer \in questions \cup deserted
               /\ out'[<<e, n>>].answer.element = e
    <3>1. CASE <<e, n>> = d /\ out'[d].answer # out[d].answer
      <4>1. out'[<<e, n>>].answer = [element |-> o.element, prompt |-> o.asked] /\ e = o.element
        BY <1>2, <1>5, <3>1
      <4>. QED
        BY <1>1, <4>1
    <3>2. CASE <<e, n>> # d \/ out'[d].answer = out[d].answer
      <4>1. out'[<<e, n>>].answer = out[<<e, n>>].answer
        BY <1>5, <3>2 DEF Directories
      <4>. QED
        BY <2>2, <4>1 DEF IInv, DirectoriesAreOwned
    <3>. QED
      BY <3>1, <3>2
  <2>. QED
    BY <1>4, <2>1, <2>2 DEF IInv, DirectoriesAreOwned
<1>11. QuestionsAreCalls'
  BY <1>4 DEF IInv, QuestionsAreCalls, node, history
<1>. QED
  BY <1>5, <1>6, <1>7, <1>8, <1>9, <1>10, <1>11 DEF IInv

LEMMA RewriteStep ==
  ASSUME IInv, NEW e \in Elements, Rewrite(e)
  PROVE  IInv'
<1>1. /\ prompt' = [prompt EXCEPT ![e] = prompt[e] + 1] /\ rewrites' = rewrites + 1
      /\ rewrites < MaxRewrites /\ rewrites \in 0 .. MaxRewrites
      /\ prompt \in [Elements -> Prompts] /\ prompt[e] <= rewrites + 1
      /\ UNCHANGED <<node, disk, orphans, history, deaths, call>>
  BY DEF IInv, TypeOK, PromptsAreCounted, Rewrite
<1>2. rewrites' \in 0 .. MaxRewrites /\ prompt[e] + 1 \in Prompts
  BY <1>1, CallsAssumption DEF Prompts
<1>3. prompt' \in [Elements -> Prompts] /\ PromptsAreCounted'
  BY <1>1, <1>2, CallsAssumption DEF IInv, PromptsAreCounted, Prompts
<1>4. TypeOK'
  BY <1>1, <1>2, <1>3 DEF IInv, TypeOK, node, disk, history
<1>5. OneCallAtATime' /\ ReportsAreWhole' /\ ResultsAreBacked'
  BY <1>1 DEF IInv, OneCallAtATime, ReportsAreWhole, ResultsAreBacked, Here, node, disk
<1>6. RecordsTellTheOutcome' /\ QuestionsAreCalls' /\ DirectoriesAreOwned'
  BY <1>1 DEF IInv, RecordsTellTheOutcome, CauseOf, QuestionsAreCalls, DirectoriesAreOwned,
              node, disk, history
<1>. QED
  BY <1>3, <1>4, <1>5, <1>6 DEF IInv

----------------------------------------------------------------------------
(* The theorems *)

LEMMA NextIInv == IInv /\ [Next]_vars => IInv'
<1> SUFFICES ASSUME IInv, [Next]_vars PROVE IInv'
  OBVIOUS
<1>1. CASE Start BY <1>1, StartStep
<1>2. ASSUME NEW e \in Elements, Ask(e) PROVE IInv' BY <1>2, AskStep
<1>3. ASSUME NEW s \in EngineStatuses, EngineReports(s) PROVE IInv'
  BY <1>3, EngineReportsStep
<1>4. CASE EngineIsSilent BY <1>4, EngineIsSilentStep
<1>5. CASE EngineTimesOut BY <1>5, EngineTimesOutStep
<1>6. CASE NotInstalled BY <1>6, NotInstalledStep
<1>7. CASE ReadMeta BY <1>7, ReadMetaStep
<1>8. CASE Retry BY <1>8, RetryStep
<1>9. CASE Persist BY <1>9, PersistStep
<1>10. CASE CallFails BY <1>10, CallFailsStep
<1>11. CASE AnswerIsInvalid BY <1>11, AnswerIsInvalidStep
<1>12. CASE StoreAnswer BY <1>12, StoreAnswerStep
<1>13. CASE Return BY <1>13, ReturnStep
<1>14. CASE Crash BY <1>14, CrashStep
<1>15. CASE Raise BY <1>15, RaiseStep
<1>16. ASSUME NEW o \in orphans, NEW s \in EngineStatuses, OrphanReports(o, s)
       PROVE  IInv'
  BY <1>16, OrphanReportsStep
<1>17. ASSUME NEW e \in Elements, Rewrite(e) PROVE IInv' BY <1>17, RewriteStep
<1>18. CASE UNCHANGED vars
  <2>1. TypeOK' /\ PromptsAreCounted' /\ OneCallAtATime' /\ ReportsAreWhole'
    BY <1>18 DEF IInv, TypeOK, PromptsAreCounted, OneCallAtATime, ReportsAreWhole,
                 vars, node, disk, world, history
  <2>2. /\ ResultsAreBacked' /\ RecordsTellTheOutcome'
        /\ QuestionsAreCalls' /\ DirectoriesAreOwned'
    BY <1>18 DEF IInv, ResultsAreBacked, Here, RecordsTellTheOutcome, CauseOf,
                 QuestionsAreCalls, DirectoriesAreOwned, vars, node, disk, world, history
  <2>. QED
    BY <2>1, <2>2 DEF IInv
<1>. QED
  BY <1>1, <1>2, <1>3, <1>4, <1>5, <1>6, <1>7, <1>8, <1>9, <1>10, <1>11, <1>12,
     <1>13, <1>14, <1>15, <1>16, <1>17, <1>18 DEF Next, NodeStep

LEMMA InvariantHolds == Spec => []IInv
BY InitIInv, NextIInv, PTL DEF Spec

\* Types, for any number of elements, retries and deaths: an execution never
\* attempts a call more than max_retries + 1 times.
THEOREM TypeCorrect == Spec => []TypeOK
<1>1. IInv => TypeOK
  BY DEF IInv
<1>. QED
  BY <1>1, InvariantHolds, PTL

\* persist_call_artifacts: whatever is killed, repeated or reported late, the
\* record of a call tells what the node has made of it.
THEOREM RecordsAreTrue == Spec => []RecordsTellTheOutcome
<1>1. IInv => RecordsTellTheOutcome
  BY DEF IInv
<1>. QED
  BY <1>1, InvariantHolds, PTL

\* An element is handled when its call fails or its answer is stored.
LEMMA OnlyOutcomesHandle ==
  ASSUME [Next]_vars, ~CallFails, ~AnswerIsInvalid, ~StoreAnswer
  PROVE  handled' \subseteq handled
BY DEF Next, NodeStep, Start, Ask, EngineReports, EngineIsSilent, EngineTimesOut,
       NotInstalled, ReadMeta, Retry, Persist, Return, Crash, Raise, Die,
       OrphanReports, Rewrite, vars, node

\* No step stores an answer to another prompt than the one its call asked, or a
\* dead execution asked about the same element.
LEMMA StepStoresItsAnswer ==
  ASSUME IInv, [Next]_vars
  PROVE  \A e \in handled' \ handled :
           \/ \E r \in errs' : r.element = e
           \/ row'[e] = [element |-> e, prompt |-> call.asked]
           \/ row'[e] \in deserted /\ row'[e].element = e
<1> SUFFICES ASSUME NEW e \in handled' \ handled
             PROVE  \/ \E r \in errs' : r.element = e
                    \/ row'[e] = [element |-> e, prompt |-> call.asked]
                    \/ row'[e] \in deserted /\ row'[e].element = e
  OBVIOUS
<1>1. CallFails \/ AnswerIsInvalid \/ StoreAnswer
  BY OnlyOutcomesHandle
<1>2. Settle /\ e = call.element
  BY <1>1 DEF CallFails, AnswerIsInvalid, Fails, StoreAnswer, Settle
<1>3. CASE CallFails \/ AnswerIsInvalid
  <2>1. PICK c : [element |-> e, cause |-> c] \in errs'
    BY <1>2, <1>3 DEF CallFails, AnswerIsInvalid, Fails
  <2>2. [element |-> e, cause |-> c].element = e
    OBVIOUS
  <2>. QED
    BY <2>1, <2>2
<1>4. CASE StoreAnswer
  <2>1. /\ e \in Elements /\ out[Here].answer \in Answers
        /\ row' = [row EXCEPT ![e] = out[Here].answer]
    BY <1>2, <1>4, StoredIsAnswer
  <2>2. row'[e] = out[Here].answer
    BY <2>1 DEF IInv, TypeOK
  <2>3. call # NoCall /\ call.attempt \in Attempts /\ Here = <<e, call.attempt>>
    BY <1>2, CallAtHand DEF IInv, Settle, Call, Here, Directory
  <2>4. /\ out[Here].answer \in questions \cup deserted
        /\ out[Here].answer.element = e
    BY <2>1, <2>3, CallsAssumption DEF IInv, DirectoriesAreOwned
  <2>5. ASSUME out[Here].answer \in questions
        PROVE  out[Here].answer = [element |-> e, prompt |-> call.asked]
    BY <1>2, <2>4, <2>5 DEF IInv, QuestionsAreCalls
  <2>. QED
    BY <2>2, <2>4, <2>5
<1>. QED
  BY <1>1, <1>3, <1>4

\* call_agent_with_retry and O7InvokeRunner.run: attempts, timeouts and late
\* reports included, what is stored for an element answers the prompt that was
\* asked, or, in place of it, the prompt a dead execution asked about this element.
THEOREM AnswersBelong == Spec => AnswersAreToTheirPrompt
<1>1. IInv /\ [Next]_vars =>
        [\A e \in handled' \ handled :
           \/ \E r \in errs' : r.element = e
           \/ row'[e] = [element |-> e, prompt |-> call.asked]
           \/ row'[e] \in deserted /\ row'[e].element = e]_vars
  BY StepStoresItsAnswer
<1>. QED
  BY <1>1, InvariantHolds, PTL DEF Spec, AnswersAreToTheirPrompt

----------------------------------------------------------------------------
(* The refinement *)

LEMMA InitRefines == Init => NodeIsAtomic!NInit
BY DEF Init, NodeIsAtomic!NInit

\* Only the start, the end and the death of an execution and the end of a call
\* are steps of AgentNode.
LEMMA OtherStepsStutter ==
  ASSUME [Next]_vars, ~Start, ~CallFails, ~AnswerIsInvalid, ~StoreAnswer, ~Return, ~Die
  PROVE  UNCHANGED NodeIsAtomic!nvars
BY DEF Next, NodeStep, Ask, EngineReports, EngineIsSilent, EngineTimesOut, NotInstalled,
       ReadMeta, Retry, Persist, Crash, Raise, OrphanReports, Rewrite,
       vars, node, disk, NodeIsAtomic!nvars

LEMMA FailureRefines ==
  ASSUME IInv, NEW c \in {"invalid", "blocked", "systemic"}, Fails(c)
  PROVE  NodeIsAtomic!NNext
<1>1. /\ call # NoCall /\ call.element \in Elements
      /\ phase = "running" /\ ~stopped /\ call.element \notin handled
  BY CallAtHand DEF IInv, Fails, Settle, Call, OneCallAtATime
<1>2. NodeIsAtomic!Failed(call.element)
  BY <1>1 DEF Fails, Settle, NodeIsAtomic!Failed, NodeIsAtomic!Causes
<1>. QED
  BY <1>1, <1>2 DEF NodeIsAtomic!NNext

LEMMA NextRefines ==
  ASSUME IInv, [Next]_vars
  PROVE  [NodeIsAtomic!NNext]_NodeIsAtomic!nvars
<1>1. CASE Start
  BY <1>1 DEF Start, disk, NodeIsAtomic!NNext, NodeIsAtomic!Execute
<1>2. CASE CallFails
  BY <1>2, FailureRefines DEF CallFails, CauseOf
<1>3. CASE AnswerIsInvalid
  BY <1>3, FailureRefines DEF AnswerIsInvalid
<1>4. CASE StoreAnswer
  <2>1. call # NoCall /\ phase = "running" /\ ~stopped
    BY <1>4, CallAtHand DEF IInv, StoreAnswer, Settle, OneCallAtATime
  <2>2. NodeIsAtomic!Answered(call.element)
    BY <1>4, <2>1, StoredIsAnswer DEF StoreAnswer, Settle, NodeIsAtomic!Answered
  <2>. QED
    BY <1>4, <2>2, StoredIsAnswer DEF NodeIsAtomic!NNext
<1>5. CASE Return
  BY <1>5 DEF Return, disk, NodeIsAtomic!NNext, NodeIsAtomic!NodeEnds
<1>6. CASE Die
  <2>1. row' = row
    BY <1>6 DEF Next, NodeStep, Start, Ask, EngineReports, EngineIsSilent, EngineTimesOut,
       NotInstalled, ReadMeta, Retry, Persist, CallFails, AnswerIsInvalid, Fails,
       Settle, StoreAnswer, Return, Crash, Raise, Die, OrphanReports, Rewrite,
       vars, node, disk
  <2>. QED
    BY <1>6, <2>1 DEF Die, NodeIsAtomic!NNext, NodeIsAtomic!Die
<1>. QED
  BY <1>1, <1>2, <1>3, <1>4, <1>5, <1>6, OtherStepsStutter

\* What Pipeline takes a node with agents to do, generate_opportunities does,
\* with its retries, its timeouts and the remains of dead executions.
THEOREM CallsRefineNode == Spec => NodeIsAtomicSpec
BY InitRefines, NextRefines, InvariantHolds, PTL
   DEF Spec, NodeIsAtomicSpec, NodeIsAtomic!NSpec
=============================================================================
