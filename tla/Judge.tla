------------------------------- MODULE Judge -------------------------------
(***************************************************************************)
(* The deterministic judge (scoring/judge.py) and the verdict on a whole   *)
(* run (verification.py).  Both are functions of stored data.              *)
(***************************************************************************)
EXTENDS Naturals, FiniteSets

CONSTANTS MinAuthors, MinFamilies, MinProblem, MinWorkaround

ASSUME ThresholdsAssumption ==
  /\ {MinAuthors, MinFamilies, MinProblem} \subseteq Nat \ {0}
  /\ MinWorkaround \in Nat

Statuses == {"observed", "investigate", "experiment_ready", "rejected"}

\* A critic verdict: is one of its objections fatal, and what it recommends.
\* reviewed is what the critic was shown; the stored verdict does not say.
Opinions == [fatal : BOOLEAN,
             recommended : {"experiment_ready", "investigate", "rejected"}]

----------------------------------------------------------------------------
(* judge_opportunity *)

\* The volume and independence gates.
Shortfall(facts) ==
  \/ facts.authors < MinAuthors
  \/ facts.families < MinFamilies
  \/ facts.problem < MinProblem
  \/ facts.workaround < MinWorkaround
  \/ facts.dominant

\* Faulty variant: a missing review is not asked about.
JudgeUnreviewed(refsValid, reviews, facts) ==
  CASE ~refsValid -> "rejected"
    [] refsValid /\ \E v \in reviews : v.fatal \/ v.recommended = "rejected"
                  -> "rejected"
    [] OTHER -> IF Shortfall(facts) \/ \E v \in reviews : v.recommended = "investigate"
                THEN "investigate" ELSE "experiment_ready"

\* reviews holds the critic's opinion of the card, or nothing.
JudgeStatus(refsValid, reviews, facts) ==
  CASE ~refsValid                                      -> "rejected"
    [] refsValid /\ reviews = {}                       -> "investigate"
    [] refsValid /\ \E v \in reviews : v.fatal \/ v.recommended = "rejected"
                                                       -> "rejected"
    [] OTHER -> IF Shortfall(facts) \/ \E v \in reviews : v.recommended = "investigate"
                THEN "investigate" ELSE "experiment_ready"

----------------------------------------------------------------------------
(* derive_agent_status and overall_verdict *)

\* The four BLOCKED_ statuses are one here.
AgentStatus(errors, nodes, producedAny) ==
  LET relevant == {e \in errors : e.node \in nodes} IN
  CASE \E e \in relevant : e.blocked -> "BLOCKED"
    [] OTHER -> IF producedAny THEN "PASS"
                ELSE IF relevant # {} THEN "FAIL_INVALID_OUTPUT" ELSE "NOT_RUN"

\* Faulty variant: an agent that never ran does not block.
VerdictWithoutNotRun(checksPass, analyst, critic) ==
  IF "BLOCKED" \in {analyst, critic} THEN "BLOCKED"
  ELSE IF checksPass /\ analyst = "PASS" /\ critic = "PASS" THEN "PASS" ELSE "FAIL"

OverallVerdict(checksPass, analyst, critic) ==
  IF {analyst, critic} \cap {"BLOCKED", "NOT_RUN"} # {} THEN "BLOCKED"
  ELSE IF checksPass /\ analyst = "PASS" /\ critic = "PASS" THEN "PASS" ELSE "FAIL"
=============================================================================
