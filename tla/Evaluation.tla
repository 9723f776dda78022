----------------------------- MODULE Evaluation -----------------------------
(***************************************************************************)
(* evaluation.py and evals/reliability_v1/verify_results.py: one run of    *)
(* the frozen scenario manifest, from its items to the disposition that is *)
(* published.                                                              *)
(*                                                                         *)
(* What a runner finds out is left open: any ScenarioResult.  The three    *)
(* kinds of check (safety, convergence, fail_closed) are treated alike by  *)
(* the code and are the members of Check.  A rate is the pair of its       *)
(* numerator and its denominator.                                          *)
(***************************************************************************)
EXTENDS Integers, FiniteSets, SequencesExt

CONSTANTS
    Check,          \* the kinds of check
    Runner,         \* the names of SCENARIO_RUNNERS, which are their scenario ids
    Unknown,        \* a runner no scenario has
    MaxItems,       \* bound: the length of the manifest
    NotApplicable   \* the value of a check that the scenario does not make

ASSUME ItemsAssumption == MaxItems \in Nat

ASSUME NotApplicableAssumption == NotApplicable \notin BOOLEAN

Item == [id : Runner, runner : Runner \cup {Unknown}, required : [Check -> BOOLEAN]]

\* _result: a check is applicable when the runner gives it a truth value.
ScenarioResult ==
    [scenario_id : Runner, passed : BOOLEAN, check : [Check -> BOOLEAN \cup {NotApplicable}],
     duplicate_effect_violations : {0, 1}]

VARIABLES
    frozen,     \* the protocol is frozen_unexecuted and the manifest has its SHA-256
    manifest,   \* the scenarios
    results,    \* the results of the scenarios run so far
    raised      \* an exception has ended the run

evaluationVars == <<frozen, manifest, results, raised>>

Applicable(result, c) == result.check[c] # NotApplicable

EvaluationInit ==
    /\ frozen \in BOOLEAN
    /\ manifest \in SeqOf(Item, MaxItems)
    /\ results = <<>>
    /\ raised = FALSE

\* evaluate refuses a protocol or a manifest that is not the frozen one.
Refuse ==
    /\ ~ raised /\ ~ frozen
    /\ raised' = TRUE
    /\ UNCHANGED <<frozen, manifest, results>>

\* Seeded fault: applicability is not compared with the fixture.
MatchesId(item, result) == result.scenario_id = item.id

Matches(item, result) ==
    /\ result.scenario_id = item.id
    /\ \A c \in Check : item.required[c] = Applicable(result, c)

item == manifest[Len(results) + 1]

Running == ~ raised /\ frozen /\ Len(results) < Len(manifest)

UnknownRunner ==
    /\ Running
    /\ item.runner = Unknown
    /\ raised' = TRUE
    /\ UNCHANGED <<frozen, manifest, results>>

\* One round of the loop of run_scenario_manifest.
RunScenario(result) ==
    /\ Running
    /\ item.runner = result.scenario_id
    /\ results' = IF Matches(item, result) THEN Append(results, result) ELSE results
    /\ raised' = ~ Matches(item, result)
    /\ UNCHANGED <<frozen, manifest>>

\* summarize_results needs a result.
NothingToSummarize ==
    /\ ~ raised /\ frozen
    /\ manifest = <<>>
    /\ raised' = TRUE
    /\ UNCHANGED <<frozen, manifest, results>>

EvaluationNext ==
    \/ Refuse
    \/ UnknownRunner
    \/ \E result \in ScenarioResult : RunScenario(result)
    \/ NothingToSummarize

EvaluationSpec == EvaluationInit /\ [][EvaluationNext]_evaluationVars
-----------------------------------------------------------------------------
Finished == ~ raised /\ results # <<>> /\ Len(results) = Len(manifest)

Rate(c) ==
    <<Cardinality({i \in DOMAIN results : results[i].check[c] = TRUE}),
      Cardinality({i \in DOMAIN results : Applicable(results[i], c)})>>

scenario_pass_rate ==
    <<Cardinality({i \in DOMAIN results : results[i].passed}), Len(results)>>

duplicate_effect_violations ==
    LET total[n \in 0 .. Len(results)] ==
            IF n = 0 THEN 0 ELSE total[n - 1] + results[n].duplicate_effect_violations
    IN total[Len(results)]

\* A rate of nothing applicable is 1.0, and so is a rate of everything.
EqualsOne(rate) == rate[1] = rate[2]

\* derive_gate_results of a finished run, and the disposition "pass".
DispositionPasses ==
    /\ Finished
    /\ EqualsOne(scenario_pass_rate)
    /\ \A c \in Check : EqualsOne(Rate(c))
    /\ duplicate_effect_violations = 0

\* The published disposition is "pass" exactly when every scenario of the frozen
\* manifest was run by its own runner and passed, and every check the manifest
\* requires of it came out true: a rate never passes for want of applicable results
\* (evaluation.py:443-449), because applicability is compared with the manifest.
PassMeansEveryRequiredCheckHeld ==
    DispositionPasses <=>
        /\ frozen /\ manifest # <<>> /\ ~ raised
        /\ Len(results) = Len(manifest)
        /\ \A i \in DOMAIN manifest :
            /\ results[i].scenario_id = manifest[i].id
            /\ manifest[i].runner = manifest[i].id
            /\ results[i].passed
            /\ results[i].duplicate_effect_violations = 0
            /\ \A c \in Check : manifest[i].required[c] => results[i].check[c] = TRUE
            /\ \A c \in Check : ~ manifest[i].required[c] => results[i].check[c] = NotApplicable
=============================================================================
