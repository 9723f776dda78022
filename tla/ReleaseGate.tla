---------------------------- MODULE ReleaseGate ----------------------------
(***************************************************************************)
(* evals/: from the frozen protocols to a verified release.  Each source   *)
(* (reliability_v1, trace_integrity_v1) is executed, published and         *)
(* verified; the release gate (release_gate_v1) pins the publications,     *)
(* evaluates them, one source per step, in RequiredRuns runs, and its own  *)
(* publication is verified.                                                *)
(*                                                                         *)
(* The files are those of a working tree: between any two steps one may be *)
(* edited, and restored.  A file whose only right content is frozen is a   *)
(* Boolean (its bytes are the frozen ones); a digest is what it digests.   *)
(* The publications are written by hand, so any can be wrong.  MaxSlips    *)
(* bounds how much goes wrong: edits, wrong publications and runs whose    *)
(* output is not the expected one.  Commits, and with them the pinned      *)
(* blobs, do not change; the gate's own evaluator and the outputs of its   *)
(* runs are not edited.                                                    *)
(***************************************************************************)
EXTENDS Integers, SequencesExt, FiniteSetsExt

CONSTANTS
    Source,         \* the evidence sources
    Manifest,       \* the frozen order of the sources in EVIDENCE.json
    RequiredRuns,   \* independent_runs_required, of sources and gate alike
    MaxSlips,       \* bound
    None

ASSUME ManifestAssumption ==
    /\ Manifest \in Seq(Source)
    /\ Len(Manifest) = Cardinality(Source)
    /\ Manifest # <<>>
    /\ Range(Manifest) = Source

ASSUME BoundAssumption == RequiredRuns \in Nat \ {0} /\ MaxSlips \in Nat

Run == 1 .. RequiredRuns

Evaluation == [run : Run, sources : Seq(Source), passed : Seq(BOOLEAN)]

GateRun == [sources : Seq(Source), passed : Seq(BOOLEAN), release_ready : BOOLEAN]

GateRelease == [runs : [Run -> GateRun], release_ready : BOOLEAN]

ASSUME NoneAssumption == None \notin Evaluation \cup GateRun \cup GateRelease

\* The normalized output of one execution: "met" and "also_met" differ in their
\* bytes and meet the frozen gates.
Output == {"met", "also_met", "unmet"}

VARIABLES
    intact,         \* the protocol, inputs and verifier of each source that are frozen
    runs,           \* artifacts/run-{i}.json of each source
    published,      \* RESULTS.json of each source
    pinned,         \* the publications whose SHA-256 EVIDENCE.json names
    evidence,       \* the sources of EVIDENCE.json
    boundary,       \* verify_protocol.py of the gate has passed
    evaluating,     \* the run of evaluate.py in progress: its index, manifest and results
    gateRuns,       \* artifacts/run-{i}.json of the gate: sources, which passed, readiness
    release,        \* RESULTS.json of the gate
    backed,         \* history: per gate run, whether each source was backed when evaluated
    slips           \* bound: what went wrong so far

vars == <<intact, runs, published, pinned, evidence, boundary, evaluating,
          gateRuns, release, backed, slips>>

source_vars == <<intact, runs, published>>
gate_vars == <<pinned, evidence, boundary, evaluating, gateRuns, release, backed>>

Frozen == {"protocol", "inputs", "verifier"}

MeetsGates(output) == output # "unmet"

\* The publication that the artifacts call for.
Honest(artifacts) ==
    [runs |-> artifacts, passed |-> MeetsGates(artifacts[1]),
     byte_identical |-> \A i \in Run : artifacts[i] = artifacts[1]]

Publication == [runs : [Run -> Output], passed : BOOLEAN, byte_identical : BOOLEAN]

Slip(n) == slips + n <= MaxSlips /\ slips' = slips + n

Init ==
    /\ intact = [s \in Source |-> Frozen]
    /\ runs = [s \in Source |-> [i \in Run |-> None]]
    /\ published = [s \in Source |-> None]
    /\ pinned = [s \in Source |-> None]
    /\ evidence = Manifest
    /\ boundary = FALSE
    /\ evaluating = None
    /\ gateRuns = [i \in Run |-> None]
    /\ release = None
    /\ backed = [i \in Run |-> <<>>]
    /\ slips = 0
-----------------------------------------------------------------------------
(* The sources. *)

\* Protocol, scenarios, traces, detector are what the verifiers of a source expect.
InputsAreFrozen(s) == {"protocol", "inputs"} \subseteq intact[s]

\* verify_protocol.py: the frozen inputs, and no result yet.
ProtocolVerified(s) == InputsAreFrozen(s) /\ published[s] = None

\* One independent execution, of a protocol that has just been verified.
Execute(s, i, output) ==
    /\ ProtocolVerified(s)
    /\ runs[s][i] = None
    /\ runs' = [runs EXCEPT ![s][i] = output]
    /\ Slip(IF output = "met" THEN 0 ELSE 1)
    /\ UNCHANGED <<intact, published, gate_vars>>

\* RESULTS.json is written by hand.
Publish(s, publication) ==
    /\ published[s] = None
    /\ None \notin Range(runs[s])
    /\ published' = [published EXCEPT ![s] = publication]
    /\ Slip(IF publication = Honest(runs[s]) THEN 0 ELSE 1)
    /\ UNCHANGED <<intact, runs, gate_vars>>

\* Seeded fault: the runs are not compared with each other.
VerifyOneRun(s) ==
    /\ published[s] # None
    /\ None \notin Range(runs[s])
    /\ InputsAreFrozen(s)
    /\ published[s].runs = runs[s]
    /\ published[s].passed = MeetsGates(runs[s][1])

\* verify_results.py of a source: the exact protocol and inputs, byte-identical
\* runs, and a publication that follows from the first of them.
VerifyResults(s) ==
    /\ published[s] # None
    /\ None \notin Range(runs[s])
    /\ InputsAreFrozen(s)
    /\ \A i \in Run : runs[s][i] = runs[s][1]
    /\ published[s] = Honest(runs[s])

\* What a publication of a source stands for.
Backed(s) ==
    /\ InputsAreFrozen(s)
    /\ \E output \in Output : MeetsGates(output) /\ \A i \in Run : runs[s][i] = output
-----------------------------------------------------------------------------
(* The release gate. *)

\* EVIDENCE.json is frozen with the publications as they are.
Pin ==
    /\ pinned = [s \in Source |-> None]
    /\ None \notin Range(published)
    /\ pinned' = published
    /\ UNCHANGED <<source_vars, evidence, boundary, evaluating, gateRuns, release, backed, slips>>

\* Protocol, publication and verifier have the pinned bytes.
IdentityMatches(s) == {"protocol", "verifier"} \subseteq intact[s] /\ published[s] = pinned[s]

\* verify_protocol.py of the gate, before the first run.
VerifyBoundary ==
    /\ ~ boundary
    /\ None \notin Range(pinned)
    /\ evidence = Manifest
    /\ \A s \in Range(evidence) : IdentityMatches(s)
    /\ release = None
    /\ boundary' = TRUE
    /\ UNCHANGED <<source_vars, pinned, evidence, evaluating, gateRuns, release, backed, slips>>

\* Seeded fault: a run may overwrite the output of an earlier one.
StartGateRunAgain(i) ==
    /\ boundary
    /\ evaluating = None
    /\ evaluating' = [run |-> i, sources |-> evidence, passed |-> <<>>]
    /\ UNCHANGED <<source_vars, pinned, evidence, boundary, gateRuns, release, backed, slips>>

\* main of evaluate.py reads the manifest.
StartGateRun(i) ==
    /\ boundary
    /\ evaluating = None
    /\ gateRuns[i] = None
    /\ evaluating' = [run |-> i, sources |-> evidence, passed |-> <<>>]
    /\ UNCHANGED <<source_vars, pinned, evidence, boundary, gateRuns, release, backed, slips>>

\* Seeded fault: the current bytes of the verifier are not compared with the pinned.
EvaluateAnyVerifier(s) ==
    /\ "protocol" \in intact[s] /\ published[s] = pinned[s]
    /\ published[s].passed /\ published[s].byte_identical
    /\ "verifier" \in intact[s] => VerifyResults(s)

\* evaluate_source finds no error.  A verifier that is not the pinned one may say
\* anything, and is not asked.
EvaluateSource(s) ==
    /\ IdentityMatches(s)
    /\ published[s].passed /\ published[s].byte_identical
    /\ VerifyResults(s)

ReleaseReady(sources, passed) ==
    Len(sources) = Cardinality(Source) /\ Range(passed) = {TRUE}

\* The next source of the manifest; after the last one the run's output is written.
EvaluateNext ==
    /\ evaluating # None
    /\ LET i == evaluating.run
           s == evaluating.sources[Len(evaluating.passed) + 1]
           passed == Append(evaluating.passed, EvaluateSource(s))
       IN /\ backed' = [backed EXCEPT ![i] = Append(@, Backed(s))]
          /\ IF Len(passed) < Len(evaluating.sources)
             THEN evaluating' = [evaluating EXCEPT !.passed = passed] /\ UNCHANGED gateRuns
             ELSE /\ evaluating' = None
                  /\ gateRuns' = [gateRuns EXCEPT ![i] =
                        [sources |-> evaluating.sources, passed |-> passed,
                         release_ready |-> ReleaseReady(evaluating.sources, passed)]]
    /\ UNCHANGED <<source_vars, pinned, evidence, boundary, release, slips>>

\* The gate's RESULTS.json is written by hand, too.
PublishRelease(ready) ==
    /\ release = None
    /\ None \notin Range(gateRuns)
    /\ release' = [runs |-> gateRuns, release_ready |-> ready]
    /\ Slip(IF ready = gateRuns[1].release_ready THEN 0 ELSE 1)
    /\ UNCHANGED <<source_vars, pinned, evidence, boundary, evaluating, gateRuns, backed>>

\* Seeded fault: the gate's runs are not compared with each other.
VerifyFirstGateRun ==
    /\ release # None
    /\ evidence = Manifest
    /\ release = [runs |-> gateRuns, release_ready |-> gateRuns[1].release_ready]

\* verify_results.py of the gate: byte-identical runs over the frozen manifest, and
\* a publication that repeats them.
VerifyRelease ==
    /\ release # None
    /\ evidence = Manifest
    /\ \A i \in Run : gateRuns[i] = gateRuns[1]
    /\ release = [runs |-> gateRuns, release_ready |-> gateRuns[1].release_ready]
    /\ gateRuns[1].release_ready = ReleaseReady(gateRuns[1].sources, gateRuns[1].passed)
-----------------------------------------------------------------------------
(* The working tree. *)

EditFrozen(s, file) ==
    /\ intact' = [intact EXCEPT ![s] = @ \ {file}]
    /\ file \in intact[s]
    /\ Slip(1)
    /\ UNCHANGED <<runs, published, gate_vars>>

EditRun(s, i, output) ==
    /\ runs[s][i] \notin {None, output}
    /\ runs' = [runs EXCEPT ![s][i] = output]
    /\ Slip(1)
    /\ UNCHANGED <<intact, published, gate_vars>>

EditResults(s, publication) ==
    /\ published[s] \notin {None, publication}
    /\ published' = [published EXCEPT ![s] = publication]
    /\ Slip(1)
    /\ UNCHANGED <<intact, runs, gate_vars>>

\* A source is listed in the place of another.
EditEvidence(s) ==
    /\ evidence = Manifest
    /\ evidence' = [i \in DOMAIN Manifest |-> s]
    /\ Slip(1)
    /\ UNCHANGED <<source_vars, pinned, boundary, evaluating, gateRuns, release, backed>>

\* The frozen files, the pinned results and the manifest are checked out again.
Restore ==
    /\ intact' = [s \in Source |-> Frozen]
    /\ published' = [s \in Source |-> IF pinned[s] = None THEN published[s] ELSE pinned[s]]
    /\ evidence' = Manifest
    /\ UNCHANGED <<runs, pinned, boundary, evaluating, gateRuns, release, backed, slips>>

Next ==
    \/ \E s \in Source, i \in Run, output \in Output :
        Execute(s, i, output) \/ EditRun(s, i, output)
    \/ \E s \in Source, publication \in Publication :
        Publish(s, publication) \/ EditResults(s, publication)
    \/ \E s \in Source, file \in Frozen : EditFrozen(s, file)
    \/ \E s \in Source : EditEvidence(s)
    \/ Restore
    \/ Pin
    \/ VerifyBoundary
    \/ \E i \in Run : StartGateRun(i)
    \/ EvaluateNext
    \/ \E ready \in BOOLEAN : PublishRelease(ready)

Spec == Init /\ [][Next]_vars
-----------------------------------------------------------------------------
TypeOK ==
    /\ intact \in [Source -> SUBSET Frozen]
    /\ runs \in [Source -> [Run -> Output \cup {None}]]
    /\ published \in [Source -> Publication \cup {None}]
    /\ pinned \in [Source -> Publication \cup {None}]
    /\ evidence \in Seq(Source) /\ Len(evidence) = Len(Manifest)
    /\ boundary \in BOOLEAN
    /\ evaluating \in Evaluation \cup {None}
    /\ evaluating # None => Len(evaluating.passed) < Len(evaluating.sources)
    /\ gateRuns \in [Run -> GateRun \cup {None}]
    /\ backed \in [Run -> Seq(BOOLEAN)]
    /\ \A i \in Run : gateRuns[i] # None => Len(gateRuns[i].passed) = Len(backed[i])
    /\ release \in GateRelease \cup {None}
    /\ slips \in 0 .. MaxSlips

\* A gate run that says release_ready evaluated each source of its manifest at a
\* moment when RequiredRuns byte-identical executions of the frozen protocol on the
\* frozen inputs met the gates: a hand-written publication that claims more, a file
\* edited after publication or between two sources, and a verifier edited to agree
\* all make the run not ready (release_gate_v1/evaluate.py:67-251).
ReadyIsBacked ==
    \A i \in Run :
        gateRuns[i] # None /\ gateRuns[i].release_ready => Range(backed[i]) = {TRUE}

Released == VerifyRelease /\ release.release_ready

\* A release that verifies was found ready by every one of its runs, with every
\* source that the runs list backed each time; if the runs read the frozen manifest
\* that is every source (release_gate_v1/verify_results.py:24-79).
VerifiedReleaseIsReproduced ==
    Released =>
        \A i \in Run :
            /\ gateRuns[i].release_ready
            /\ Range(backed[i]) = {TRUE}
            /\ gateRuns[i].sources = gateRuns[1].sources

=============================================================================
