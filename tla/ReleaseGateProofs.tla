-------------------------- MODULE ReleaseGateProofs --------------------------
(***************************************************************************)
(* Proofs about the release gate, for any sources, manifest, number of     *)
(* runs and number of slips.                                               *)
(*                                                                         *)
(* The invariant: in a gate run, finished or in progress, a source that    *)
(* passed was backed when it was evaluated.  A source passes only if its   *)
(* verifier, which has the pinned bytes, derives the publication from the  *)
(* run artifacts again, so a true claim in the publication is true of the  *)
(* artifacts at that moment, whoever wrote it.                             *)
(*                                                                         *)
(* The second part is about the scenario harness (Evaluation) whose        *)
(* outputs the runs of a source are: what its disposition "pass" means.    *)
(***************************************************************************)
EXTENDS ReleaseGate, Evaluation, FiniteSetTheorems, TLAPS

\* Each source that passed was backed.
Agrees(passed, truth) ==
    /\ Len(passed) = Len(truth)
    /\ \A k \in 1 .. Len(passed) : passed[k] => truth[k]

EvaluationsAreHonest ==
    /\ \A i \in Run :
        gateRuns[i] = None /\ (evaluating = None \/ evaluating.run # i) => backed[i] = <<>>
    /\ evaluating # None =>
        /\ gateRuns[evaluating.run] = None
        /\ Agrees(evaluating.passed, backed[evaluating.run])
    /\ \A i \in Run : gateRuns[i] # None =>
        /\ Agrees(gateRuns[i].passed, backed[i])
        /\ gateRuns[i].release_ready => Range(gateRuns[i].passed) = {TRUE}
    /\ release # None => \A i \in Run : gateRuns[i] # None

GateInv == TypeOK /\ EvaluationsAreHonest

LEMMA FirstRun == 1 \in Run
  BY BoundAssumption DEF Run

\* A source that passes is backed: the verifier repeats what the publication claims.
LEMMA PassingIsBacked ==
    ASSUME TypeOK, NEW s \in Source, EvaluateSource(s)
    PROVE  Backed(s)
  <1>1. /\ published[s].passed
        /\ InputsAreFrozen(s)
        /\ None \notin Range(runs[s])
        /\ \A i \in Run : runs[s][i] = runs[s][1]
        /\ published[s] = Honest(runs[s])
    BY DEF EvaluateSource, VerifyResults
  <1>2. MeetsGates(runs[s][1])
    BY <1>1 DEF Honest
  <1>3. runs[s] \in [Run -> Output \cup {None}]
    BY DEF TypeOK
  <1>4. runs[s][1] \in Output
    BY <1>1, <1>3, FirstRun DEF Range
  <1> QED
    BY <1>1, <1>2, <1>4 DEF Backed

\* Steps that leave the gate's own run alone.
LEMMA SourceStepPreserves ==
    ASSUME EvaluationsAreHonest, UNCHANGED <<evaluating, gateRuns, backed, release>>
    PROVE  EvaluationsAreHonest'
  BY DEF EvaluationsAreHonest

LEMMA SlipFields ==
    ASSUME TypeOK, NEW n \in {0, 1}, Slip(n)
    PROVE  slips' \in 0 .. MaxSlips
  BY BoundAssumption DEF TypeOK, Slip

LEMMA HonestFields ==
    ASSUME NEW publication \in Publication
    PROVE  publication.passed \in BOOLEAN
  BY DEF Publication

\* The types the other actions leave alone.
LEMMA SourceTypes ==
    ASSUME TypeOK,
           (intact \in [Source -> SUBSET Frozen])',
           (runs \in [Source -> [Run -> Output \cup {None}]])',
           (published \in [Source -> Publication \cup {None}])',
           slips' \in 0 .. MaxSlips,
           UNCHANGED gate_vars
    PROVE  TypeOK'
  BY DEF TypeOK, gate_vars

LEMMA ExecutePreserves ==
    ASSUME GateInv, NEW s \in Source, NEW i \in Run, NEW output \in Output,
           Execute(s, i, output) \/ EditRun(s, i, output)
    PROVE  GateInv'
  <1>1. /\ runs' = [runs EXCEPT ![s][i] = output]
        /\ UNCHANGED <<intact, published, gate_vars>>
        /\ \E n \in {0, 1} : Slip(n)
    BY DEF Execute, EditRun
  <1>2. TypeOK /\ runs \in [Source -> [Run -> Output \cup {None}]]
    BY DEF GateInv, TypeOK
  <1>3. runs' \in [Source -> [Run -> Output \cup {None}]]
    BY <1>1, <1>2
  <1>4. TypeOK'
    BY <1>1, <1>2, <1>3, SlipFields, SourceTypes DEF TypeOK
  <1> QED
    BY <1>1, <1>4, SourceStepPreserves DEF GateInv, gate_vars

LEMMA PublishPreserves ==
    ASSUME GateInv, NEW s \in Source, NEW publication \in Publication,
           Publish(s, publication) \/ EditResults(s, publication)
    PROVE  GateInv'
  <1>1. /\ published' = [published EXCEPT ![s] = publication]
        /\ UNCHANGED <<intact, runs, gate_vars>>
        /\ \E n \in {0, 1} : Slip(n)
    BY DEF Publish, EditResults
  <1>2. TypeOK /\ published \in [Source -> Publication \cup {None}]
    BY DEF GateInv, TypeOK
  <1>3. published' \in [Source -> Publication \cup {None}]
    BY <1>1, <1>2
  <1>4. TypeOK'
    BY <1>1, <1>2, <1>3, SlipFields, SourceTypes DEF TypeOK
  <1> QED
    BY <1>1, <1>4, SourceStepPreserves DEF GateInv, gate_vars

LEMMA EditFrozenPreserves ==
    ASSUME GateInv, NEW s \in Source, NEW file \in Frozen, EditFrozen(s, file)
    PROVE  GateInv'
  <1>1. /\ intact' = [intact EXCEPT ![s] = intact[s] \ {file}]
        /\ UNCHANGED <<runs, published, gate_vars>>
        /\ Slip(1)
    BY DEF EditFrozen
  <1>2. TypeOK /\ intact \in [Source -> SUBSET Frozen]
    BY DEF GateInv, TypeOK
  <1>3. intact' \in [Source -> SUBSET Frozen]
    BY <1>1, <1>2
  <1>4. TypeOK'
    BY <1>1, <1>2, <1>3, SlipFields, SourceTypes DEF TypeOK
  <1> QED
    BY <1>1, <1>4, SourceStepPreserves DEF GateInv, gate_vars

LEMMA EditEvidencePreserves ==
    ASSUME GateInv, NEW s \in Source, EditEvidence(s)
    PROVE  GateInv'
  <1>1. /\ TypeOK
        /\ evidence' = [k \in DOMAIN Manifest |-> s]
        /\ UNCHANGED <<source_vars, pinned, boundary, evaluating, gateRuns, release, backed>>
        /\ Slip(1)
    BY DEF GateInv, EditEvidence
  <1>2. evidence' \in Seq(Source) /\ Len(evidence') = Len(Manifest)
    BY <1>1, ManifestAssumption
  <1>3. TypeOK'
    BY <1>1, <1>2, SlipFields DEF TypeOK, source_vars
  <1> QED
    BY <1>1, <1>3, SourceStepPreserves DEF GateInv

LEMMA RestorePreserves ==
    ASSUME GateInv, Restore
    PROVE  GateInv'
  <1>1. /\ TypeOK
        /\ intact' = [s \in Source |-> Frozen]
        /\ published' = [s \in Source |-> IF pinned[s] = None THEN published[s] ELSE pinned[s]]
        /\ evidence' = Manifest
        /\ UNCHANGED <<runs, pinned, boundary, evaluating, gateRuns, release, backed, slips>>
    BY DEF GateInv, Restore
  <1>2. published' \in [Source -> Publication \cup {None}]
    BY <1>1 DEF TypeOK
  <1>3. TypeOK'
    BY <1>1, <1>2, ManifestAssumption DEF TypeOK
  <1> QED
    BY <1>1, <1>3, SourceStepPreserves DEF GateInv

-----------------------------------------------------------------------------
(* The gate. *)

LEMMA PinPreserves ==
    ASSUME GateInv, Pin
    PROVE  GateInv'
  <1>1. TypeOK /\ pinned' = published
        /\ UNCHANGED <<source_vars, evidence, boundary, evaluating, gateRuns, release, backed, slips>>
    BY DEF GateInv, Pin
  <1>2. TypeOK'
    BY <1>1 DEF TypeOK, source_vars
  <1> QED
    BY <1>1, <1>2, SourceStepPreserves DEF GateInv

LEMMA VerifyBoundaryPreserves ==
    ASSUME GateInv, VerifyBoundary
    PROVE  GateInv'
  <1>1. TypeOK /\ boundary' = TRUE
        /\ UNCHANGED <<source_vars, pinned, evidence, evaluating, gateRuns, release, backed, slips>>
    BY DEF GateInv, VerifyBoundary
  <1>2. TypeOK'
    BY <1>1 DEF TypeOK, source_vars
  <1> QED
    BY <1>1, <1>2, SourceStepPreserves DEF GateInv

LEMMA StartGateRunPreserves ==
    ASSUME GateInv, NEW i \in Run, StartGateRun(i)
    PROVE  GateInv'
  <1> DEFINE started == [run |-> i, sources |-> evidence, passed |-> <<>>]
  <1>1. /\ TypeOK
        /\ evaluating = None
        /\ gateRuns[i] = None
        /\ evaluating' = started
        /\ UNCHANGED <<source_vars, pinned, evidence, boundary, gateRuns, release, backed, slips>>
    BY DEF GateInv, StartGateRun
  <1>2. evidence \in Seq(Source) /\ Len(evidence) = Len(Manifest)
    BY <1>1 DEF TypeOK
  <1>3. /\ started \in Evaluation
        /\ started.run = i
        /\ started.sources = evidence
        /\ started.passed = <<>>
    <2>1. <<>> \in Seq(BOOLEAN)
      OBVIOUS
    <2> QED
      BY <1>2, <2>1 DEF Evaluation
  <1>4. Len(started.passed) < Len(started.sources)
    BY <1>2, <1>3, ManifestAssumption
  <1>5. backed[i] = <<>>
    BY <1>1 DEF GateInv, EvaluationsAreHonest
  <1> HIDE DEF started
  <1>6. TypeOK'
    BY <1>1, <1>3, <1>4 DEF TypeOK, source_vars
  <1>7. EvaluationsAreHonest'
    <2>1. Agrees(started.passed, backed[i])
      BY <1>3, <1>5 DEF Agrees
    <2> QED
      BY <1>1, <1>3, <2>1 DEF GateInv, EvaluationsAreHonest
  <1> QED
    BY <1>6, <1>7 DEF GateInv

LEMMA AppendAgrees ==
    ASSUME NEW passed \in Seq(BOOLEAN), NEW truth \in Seq(BOOLEAN), Agrees(passed, truth),
           NEW x \in BOOLEAN, NEW y \in BOOLEAN, x => y
    PROVE  /\ Agrees(Append(passed, x), Append(truth, y))
           /\ Append(passed, x) \in Seq(BOOLEAN)
           /\ Append(truth, y) \in Seq(BOOLEAN)
           /\ Len(Append(passed, x)) = Len(passed) + 1
  <1>1. /\ Append(passed, x) \in Seq(BOOLEAN)
        /\ Append(truth, y) \in Seq(BOOLEAN)
        /\ Len(Append(passed, x)) = Len(passed) + 1
        /\ Len(Append(truth, y)) = Len(truth) + 1
    OBVIOUS
  <1>2. ASSUME NEW k \in 1 .. Len(passed) + 1, Append(passed, x)[k] PROVE Append(truth, y)[k]
    <2>1. CASE k = Len(passed) + 1
      BY <1>2, <2>1 DEF Agrees
    <2>2. CASE k # Len(passed) + 1
      <3>1. k \in 1 .. Len(passed) /\ k \in 1 .. Len(truth)
        BY <2>2 DEF Agrees
      <3>2. Append(passed, x)[k] = passed[k] /\ Append(truth, y)[k] = truth[k]
        BY <3>1
      <3> QED
        BY <1>2, <3>1, <3>2 DEF Agrees
    <2> QED
      BY <2>1, <2>2
  <1> QED
    BY <1>1, <1>2 DEF Agrees

\* What one evaluation adds to the gate run in progress.
LEMMA EvaluateEffect ==
    ASSUME GateInv, evaluating # None,
           NEW s, s = evaluating.sources[Len(evaluating.passed) + 1],
           NEW passed, passed = Append(evaluating.passed, EvaluateSource(s)),
           NEW truth, truth = Append(backed[evaluating.run], Backed(s))
    PROVE  /\ passed \in Seq(BOOLEAN)
           /\ truth \in Seq(BOOLEAN)
           /\ Agrees(passed, truth)
           /\ Len(passed) = Len(truth)
           /\ Len(passed) <= Len(evaluating.sources)
           /\ evaluating.run \in Run
           /\ evaluating.sources \in Seq(Source)
  <1>1. /\ TypeOK
        /\ evaluating \in Evaluation
        /\ Len(evaluating.passed) < Len(evaluating.sources)
        /\ Agrees(evaluating.passed, backed[evaluating.run])
    BY DEF GateInv, TypeOK, EvaluationsAreHonest
  <1>2. /\ evaluating.run \in Run
        /\ evaluating.sources \in Seq(Source)
        /\ evaluating.passed \in Seq(BOOLEAN)
    BY <1>1 DEF Evaluation
  <1>3. backed[evaluating.run] \in Seq(BOOLEAN)
    BY <1>1, <1>2 DEF TypeOK
  <1>4. s \in Source
    <2>1. Len(evaluating.passed) + 1 \in 1 .. Len(evaluating.sources)
      BY <1>1, <1>2
    <2> QED
      BY <1>2, <2>1
  <1>5. EvaluateSource(s) \in BOOLEAN /\ Backed(s) \in BOOLEAN
    BY Zenon DEF EvaluateSource, Backed
  <1>6. EvaluateSource(s) => Backed(s)
    BY <1>1, <1>4, PassingIsBacked
  <1>7. /\ passed \in Seq(BOOLEAN)
        /\ truth \in Seq(BOOLEAN)
        /\ Agrees(passed, truth)
        /\ Len(passed) = Len(evaluating.passed) + 1
    <2> DEFINE x == EvaluateSource(s)
               y == Backed(s)
    <2>1. x \in BOOLEAN /\ y \in BOOLEAN /\ (x => y)
      BY <1>5, <1>6
    <2>2. passed = Append(evaluating.passed, x) /\ truth = Append(backed[evaluating.run], y)
      OBVIOUS
    <2> HIDE DEF x, y
    <2> QED
      BY <1>1, <1>2, <1>3, <2>1, <2>2, AppendAgrees
  <1>8. Len(passed) <= Len(evaluating.sources)
    BY <1>1, <1>2, <1>7
  <1> QED
    BY <1>2, <1>7, <1>8 DEF Agrees

LEMMA EvaluateNextPreserves ==
    ASSUME GateInv, EvaluateNext
    PROVE  GateInv'
  <1> DEFINE i == evaluating.run
             s == evaluating.sources[Len(evaluating.passed) + 1]
             passed == Append(evaluating.passed, EvaluateSource(s))
             truth == Append(backed[i], Backed(s))
             going == [evaluating EXCEPT !.passed = passed]
             done == [sources |-> evaluating.sources, passed |-> passed,
                      release_ready |-> ReleaseReady(evaluating.sources, passed)]
  <1>1. /\ TypeOK
        /\ EvaluationsAreHonest
        /\ evaluating # None
        /\ evaluating \in Evaluation
        /\ backed' = [backed EXCEPT ![i] = truth]
        /\ UNCHANGED <<source_vars, pinned, evidence, boundary, release, slips>>
    BY DEF GateInv, EvaluateNext, TypeOK
  <1>2. IF Len(passed) < Len(evaluating.sources)
        THEN evaluating' = going /\ UNCHANGED gateRuns
        ELSE evaluating' = None /\ gateRuns' = [gateRuns EXCEPT ![i] = done]
    BY DEF EvaluateNext
  <1>3. /\ passed \in Seq(BOOLEAN)
        /\ truth \in Seq(BOOLEAN)
        /\ Agrees(passed, truth)
        /\ Len(passed) = Len(truth)
        /\ i \in Run
        /\ evaluating.sources \in Seq(Source)
    BY <1>1, EvaluateEffect
  <1>4. ReleaseReady(evaluating.sources, passed) \in BOOLEAN
        /\ (ReleaseReady(evaluating.sources, passed) => Range(passed) = {TRUE})
    BY Zenon DEF ReleaseReady
  <1> HIDE DEF passed, truth
  <1>5. /\ going \in Evaluation
        /\ going.run = i
        /\ going.passed = passed
        /\ going.sources = evaluating.sources
    BY <1>1, <1>3 DEF Evaluation
  <1>6. /\ done \in GateRun
        /\ done # None
        /\ done.passed = passed
        /\ (done.release_ready => Range(passed) = {TRUE})
    <2> DEFINE ready == ReleaseReady(evaluating.sources, passed)
    <2>1. ready \in BOOLEAN /\ (ready => Range(passed) = {TRUE})
      BY <1>4
    <2> HIDE DEF ready
    <2>2. done \in GateRun /\ done.passed = passed /\ done.release_ready = ready
      BY <1>3, <2>1 DEF GateRun, ready
    <2> QED
      BY <2>1, <2>2, NoneAssumption
  <1> HIDE DEF going, done, s
  <1>7. /\ backed' \in [Run -> Seq(BOOLEAN)]
        /\ backed'[i] = truth
        /\ \A j \in Run \ {i} : backed'[j] = backed[j]
    BY <1>1, <1>3 DEF TypeOK
  <1>8. gateRuns[i] = None
    BY <1>1 DEF EvaluationsAreHonest
  <1>9. CASE Len(passed) < Len(evaluating.sources)
    <2>1. evaluating' = going /\ gateRuns' = gateRuns
      BY <1>2, <1>9
    <2>2. TypeOK'
      BY <1>1, <1>5, <1>7, <1>8, <1>9, <2>1 DEF TypeOK, source_vars
    <2>3. EvaluationsAreHonest'
      <3>1. \A j \in Run : gateRuns'[j] = None /\ (evaluating' = None \/ evaluating'.run # j)
                => backed'[j] = <<>>
        <4>1. going # None
          BY <1>5, NoneAssumption
        <4> QED
          BY <1>1, <1>5, <1>7, <2>1, <4>1 DEF EvaluationsAreHonest
      <3>2. gateRuns'[going.run] = None /\ Agrees(going.passed, backed'[going.run])
        BY <1>3, <1>5, <1>7, <1>8, <2>1
      <3>3. \A j \in Run : gateRuns'[j] # None =>
                /\ Agrees(gateRuns'[j].passed, backed'[j])
                /\ gateRuns'[j].release_ready => Range(gateRuns'[j].passed) = {TRUE}
        BY <1>1, <1>7, <1>8, <2>1 DEF EvaluationsAreHonest
      <3>4. release' # None => \A j \in Run : gateRuns'[j] # None
        BY <1>1, <2>1 DEF EvaluationsAreHonest
      <3> QED
        BY <2>1, <3>1, <3>2, <3>3, <3>4 DEF EvaluationsAreHonest
    <2> QED
      BY <2>2, <2>3 DEF GateInv
  <1>10. CASE ~ (Len(passed) < Len(evaluating.sources))
    <2>1. evaluating' = None /\ gateRuns' = [gateRuns EXCEPT ![i] = done]
      BY <1>2, <1>10
    <2>2. /\ gateRuns' \in [Run -> GateRun \cup {None}]
          /\ gateRuns'[i] = done
          /\ \A j \in Run \ {i} : gateRuns'[j] = gateRuns[j]
      BY <1>1, <1>3, <1>6, <2>1 DEF TypeOK
    <2>3. TypeOK'
      BY <1>1, <1>3, <1>6, <1>7, <2>1, <2>2 DEF TypeOK, source_vars
    <2>4. EvaluationsAreHonest'
      <3>1. \A j \in Run : gateRuns'[j] = None => backed'[j] = <<>>
        BY <1>1, <1>6, <1>7, <2>2 DEF EvaluationsAreHonest
      <3>2. \A j \in Run : gateRuns'[j] # None =>
                /\ Agrees(gateRuns'[j].passed, backed'[j])
                /\ gateRuns'[j].release_ready => Range(gateRuns'[j].passed) = {TRUE}
        <4> SUFFICES ASSUME NEW j \in Run, gateRuns'[j] # None
                     PROVE  /\ Agrees(gateRuns'[j].passed, backed'[j])
                            /\ gateRuns'[j].release_ready => Range(gateRuns'[j].passed) = {TRUE}
          OBVIOUS
        <4>1. CASE j = i
          BY <4>1, <1>3, <1>6, <1>7, <2>2
        <4>2. CASE j # i
          BY <4>2, <1>1, <1>7, <2>2 DEF EvaluationsAreHonest
        <4> QED
          BY <4>1, <4>2
      <3>3. release' # None => \A j \in Run : gateRuns'[j] # None
        BY <1>1, <1>6, <2>2 DEF EvaluationsAreHonest
      <3> QED
        BY <2>1, <3>1, <3>2, <3>3 DEF EvaluationsAreHonest
    <2> QED
      BY <2>3, <2>4 DEF GateInv
  <1> QED
    BY <1>9, <1>10

LEMMA PublishReleasePreserves ==
    ASSUME GateInv, NEW ready \in BOOLEAN, PublishRelease(ready)
    PROVE  GateInv'
  <1>1. /\ TypeOK
        /\ None \notin Range(gateRuns)
        /\ release' = [runs |-> gateRuns, release_ready |-> ready]
        /\ UNCHANGED <<source_vars, pinned, evidence, boundary, evaluating, gateRuns, backed>>
        /\ \E n \in {0, 1} : Slip(n)
    BY DEF GateInv, PublishRelease
  <1>2. gateRuns \in [Run -> GateRun] /\ \A i \in Run : gateRuns[i] # None
    BY <1>1 DEF TypeOK, Range
  <1>3. release' \in GateRelease
    BY <1>1, <1>2 DEF GateRelease
  <1>4. slips' \in 0 .. MaxSlips
    BY <1>1, SlipFields
  <1>5. TypeOK'
    BY <1>1, <1>3, <1>4 DEF TypeOK, source_vars
  <1>6. EvaluationsAreHonest'
    BY <1>1, <1>2 DEF GateInv, EvaluationsAreHonest
  <1> QED
    BY <1>5, <1>6 DEF GateInv

-----------------------------------------------------------------------------
\* The invariant holds whatever is edited, restored or falsely published between
\* any two steps.
THEOREM GateInvariant == Spec => []GateInv
  <1>1. Init => GateInv
    <2> SUFFICES ASSUME Init PROVE GateInv
      OBVIOUS
    <2>1. TypeOK
      <3>1. <<>> \in Seq(BOOLEAN)
        OBVIOUS
      <3>2. backed \in [Run -> Seq(BOOLEAN)]
        BY <3>1 DEF Init
      <3>3. /\ runs \in [Source -> [Run -> Output \cup {None}]]
            /\ intact \in [Source -> SUBSET Frozen]
        BY DEF Init
      <3>4. /\ published \in [Source -> Publication \cup {None}]
            /\ pinned \in [Source -> Publication \cup {None}]
            /\ gateRuns \in [Run -> GateRun \cup {None}]
        BY DEF Init
      <3>5. \A i \in Run : gateRuns[i] = None
        BY DEF Init
      <3>6. slips \in 0 .. MaxSlips
        BY BoundAssumption DEF Init
      <3>7. /\ evidence \in Seq(Source) /\ Len(evidence) = Len(Manifest)
            /\ boundary \in BOOLEAN
            /\ evaluating = None
            /\ release = None
        BY ManifestAssumption DEF Init
      <3> QED
        BY <3>2, <3>3, <3>4, <3>5, <3>6, <3>7 DEF TypeOK
    <2>2. EvaluationsAreHonest
      BY DEF Init, EvaluationsAreHonest
    <2> QED
      BY <2>1, <2>2 DEF GateInv
  <1>2. GateInv /\ [Next]_vars => GateInv'
    <2> SUFFICES ASSUME GateInv, [Next]_vars PROVE GateInv'
      OBVIOUS
    <2>1. CASE UNCHANGED vars
      BY <2>1 DEF vars, GateInv, TypeOK, EvaluationsAreHonest
    <2>2. CASE \E s \in Source, i \in Run, output \in Output :
                    Execute(s, i, output) \/ EditRun(s, i, output)
      BY <2>2, ExecutePreserves
    <2>3. CASE \E s \in Source, publication \in Publication :
                    Publish(s, publication) \/ EditResults(s, publication)
      BY <2>3, PublishPreserves
    <2>4. CASE \E s \in Source, file \in Frozen : EditFrozen(s, file)
      BY <2>4, EditFrozenPreserves
    <2>5. CASE (\E s \in Source : EditEvidence(s)) \/ Restore
      BY <2>5, EditEvidencePreserves, RestorePreserves
    <2>6. CASE Pin \/ VerifyBoundary \/ EvaluateNext
      BY <2>6, PinPreserves, VerifyBoundaryPreserves, EvaluateNextPreserves
    <2>7. CASE \E i \in Run : StartGateRun(i)
      BY <2>7, StartGateRunPreserves
    <2>8. CASE \E ready \in BOOLEAN : PublishRelease(ready)
      BY <2>8, PublishReleasePreserves
    <2> QED
      BY <2>1, <2>2, <2>3, <2>4, <2>5, <2>6, <2>7, <2>8 DEF Next
  <1> QED
    BY <1>1, <1>2, PTL DEF Spec

\* Files, runs and publications have their types (release_gate_v1/evaluate.py).
THEOREM GateTypeCorrect == Spec => []TypeOK
  <1>1. GateInv => TypeOK
    BY DEF GateInv
  <1> QED
    BY <1>1, GateInvariant, PTL

\* A gate run that passed everything evaluated backed sources only.
LEMMA ReadyRun ==
    ASSUME GateInv, NEW i \in Run, gateRuns[i] # None, gateRuns[i].release_ready
    PROVE  Range(backed[i]) = {TRUE}
  <1> DEFINE passed == gateRuns[i].passed
             truth == backed[i]
  <1>1. /\ passed \in Seq(BOOLEAN)
        /\ truth \in Seq(BOOLEAN)
        /\ Agrees(passed, truth)
        /\ Range(passed) = {TRUE}
    <2>1. gateRuns[i] \in GateRun /\ truth \in Seq(BOOLEAN)
      BY DEF GateInv, TypeOK
    <2> QED
      BY <2>1 DEF GateInv, EvaluationsAreHonest, GateRun
  <1> HIDE DEF passed, truth
  <1>2. /\ DOMAIN passed = 1 .. Len(passed)
        /\ DOMAIN truth = 1 .. Len(truth)
        /\ Len(passed) = Len(truth)
    BY <1>1 DEF Agrees
  <1>3. \A k \in DOMAIN passed : passed[k] = TRUE
    BY <1>1 DEF Range
  <1>4. \E k \in DOMAIN passed : TRUE
    BY <1>1 DEF Range
  <1>5. \A k \in DOMAIN truth : truth[k] = TRUE
    BY <1>1, <1>2, <1>3 DEF Agrees
  <1>6. Range(truth) = {TRUE}
    BY <1>2, <1>4, <1>5 DEF Range
  <1> QED
    BY <1>6 DEF truth

\* A ready gate run evaluated every source of its manifest when it was backed
\* (release_gate_v1/evaluate.py:67-251).
THEOREM ReadyRunsAreBacked == Spec => []ReadyIsBacked
  <1>1. GateInv => ReadyIsBacked
    BY ReadyRun DEF ReadyIsBacked
  <1> QED
    BY <1>1, GateInvariant, PTL

\* A release that verifies was found ready by each of its runs
\* (release_gate_v1/verify_results.py:24-79).
THEOREM ReleasesAreReproduced == Spec => []VerifiedReleaseIsReproduced
  <1>1. GateInv => VerifiedReleaseIsReproduced
    <2> SUFFICES ASSUME GateInv, Released, NEW i \in Run
                 PROVE  /\ gateRuns[i].release_ready
                        /\ Range(backed[i]) = {TRUE}
                        /\ gateRuns[i].sources = gateRuns[1].sources
      BY DEF VerifiedReleaseIsReproduced
    <2>1. /\ release # None
          /\ gateRuns[i] = gateRuns[1]
          /\ release.release_ready
          /\ release.release_ready = gateRuns[1].release_ready
      <3>1. /\ release # None
            /\ \A j \in Run : gateRuns[j] = gateRuns[1]
            /\ release = [runs |-> gateRuns, release_ready |-> gateRuns[1].release_ready]
            /\ release.release_ready
        BY DEF Released, VerifyRelease
      <3> QED
        BY <3>1
    <2>2. gateRuns[i] # None
      BY <2>1 DEF GateInv, EvaluationsAreHonest
    <2>3. gateRuns[i].release_ready
      BY <2>1
    <2> QED
      BY <2>1, <2>2, <2>3, ReadyRun
  <1> QED
    BY <1>1, GateInvariant, PTL

-----------------------------------------------------------------------------
(* The harness whose outputs the sources' runs are (evaluation.py), from the *)
(* items of a manifest of any length to its disposition.                     *)

\* f sums up the violations of the results one by one.
IsTotal(f, s) ==
    f = [n \in 0 .. Len(s) |->
            IF n = 0 THEN 0 ELSE f[n - 1] + s[n].duplicate_effect_violations]

\* The sum can be computed, and is 0 only if there is nothing to add up.
CountsViolations(s) ==
    /\ \E f : IsTotal(f, s)
    /\ \A f : IsTotal(f, s) =>
        /\ f[Len(s)] \in Nat
        /\ f[Len(s)] = 0 <=> \A i \in DOMAIN s : s[i].duplicate_effect_violations = 0

OwnResult(it, result) == Matches(it, result) /\ it.runner = result.scenario_id

HarnessInv ==
    /\ frozen \in BOOLEAN /\ raised \in BOOLEAN
    /\ manifest \in Seq(Item)
    /\ results \in Seq(ScenarioResult)
    /\ Len(results) <= Len(manifest)
    /\ results # <<>> => frozen
    /\ \A i \in DOMAIN results : OwnResult(manifest[i], results[i])
    /\ CountsViolations(results)

LEMMA EmptyCounts == CountsViolations(<<>>)
<1>1. Len(<<>>) = 0 /\ DOMAIN <<>> = {} /\ 0 .. 0 = {0}
  OBVIOUS
<1>2. IsTotal([n \in {0} |-> 0], <<>>)
  BY <1>1 DEF IsTotal
<1>3. \A f : IsTotal(f, <<>>) => f[0] = 0
  BY <1>1 DEF IsTotal
<1> QED
  BY <1>1, <1>2, <1>3 DEF CountsViolations

LEMMA TotalOf ==
    ASSUME NEW s, NEW f, IsTotal(f, s)
    PROVE  \A n \in 0 .. Len(s) :
             f[n] = IF n = 0 THEN 0 ELSE f[n - 1] + s[n].duplicate_effect_violations
<1> DEFINE Sum(n) == IF n = 0 THEN 0 ELSE f[n - 1] + s[n].duplicate_effect_violations
<1>1. f = [n \in 0 .. Len(s) |-> Sum(n)]
  BY DEF IsTotal
<1> HIDE DEF Sum
<1>2. \A n \in 0 .. Len(s) : f[n] = Sum(n)
  BY <1>1
<1> QED
  BY <1>2 DEF Sum

\* One result more adds its violations to the sum.
LEMMA CountGrows ==
    ASSUME NEW s \in Seq(ScenarioResult), NEW r \in ScenarioResult,
           CountsViolations(s)
    PROVE  CountsViolations(Append(s, r))
<1> DEFINE t == Append(s, r)
           n == Len(s)
           d(q) == q.duplicate_effect_violations
<1>1. /\ n \in Nat
      /\ Len(t) = n + 1
      /\ DOMAIN s = 1 .. n
      /\ DOMAIN t = 1 .. n + 1
      /\ t[n + 1] = r
      /\ \A i \in 1 .. n : t[i] = s[i]
  OBVIOUS
<1>2. d(r) \in Nat
  BY DEF ScenarioResult
<1> HIDE DEF t, n, d
<1>3. \A f : /\ IsTotal(f, s) <=> f = [m \in 0 .. n |-> IF m = 0 THEN 0 ELSE f[m - 1] + d(s[m])]
             /\ IsTotal(f, t) <=>
                  f = [m \in 0 .. n + 1 |-> IF m = 0 THEN 0 ELSE f[m - 1] + d(t[m])]
  BY <1>1 DEF IsTotal, n, d
<1>4. ASSUME NEW f, IsTotal(f, s)
      PROVE  \E g : IsTotal(g, t)
  <2> DEFINE g == [m \in 0 .. n + 1 |-> IF m = n + 1 THEN f[n] + d(r) ELSE f[m]]
  <2>0. \A m \in 0 .. n : f[m] = IF m = 0 THEN 0 ELSE f[m - 1] + d(s[m])
    BY <1>4, TotalOf DEF n, d
  <2>1. ASSUME NEW m \in 0 .. n + 1
        PROVE  g[m] = IF m = 0 THEN 0 ELSE g[m - 1] + d(t[m])
    <3>1. CASE m = 0
      <4>1. f[0] = 0 /\ g[0] = f[0]
        BY <1>1, <2>0
      <4> QED
        BY <3>1, <4>1
    <3>2. CASE m \in 1 .. n
      <4>1. /\ g[m] = f[m]
            /\ g[m - 1] = f[m - 1]
            /\ m \in 0 .. n /\ m # 0
        BY <1>1, <3>2
      <4>2. f[m] = f[m - 1] + d(s[m])
        BY <2>0, <4>1
      <4> QED
        BY <1>1, <3>2, <4>1, <4>2
    <3>3. CASE m = n + 1
      <4>1. m # 0 /\ g[m] = f[n] + d(r) /\ g[m - 1] = f[n] /\ t[m] = r
        BY <1>1, <3>3
      <4> QED
        BY <4>1
    <3> QED
      BY <1>1, <3>1, <3>2, <3>3
  <2>2. g = [m \in 0 .. n + 1 |-> g[m]]
    OBVIOUS
  <2> HIDE DEF g
  <2>3. g = [m \in 0 .. n + 1 |-> IF m = 0 THEN 0 ELSE g[m - 1] + d(t[m])]
    BY <2>1, <2>2
  <2> QED
    BY <1>3, <2>3
<1>5. ASSUME NEW g, IsTotal(g, t)
      PROVE  \E f : IsTotal(f, s) /\ g[n + 1] = f[n] + d(r)
  <2> DEFINE f == [m \in 0 .. n |-> g[m]]
  <2>1. \A m \in 0 .. n + 1 : g[m] = IF m = 0 THEN 0 ELSE g[m - 1] + d(t[m])
    BY <1>1, <1>5, TotalOf DEF n, d
  <2>2. ASSUME NEW m \in 0 .. n
        PROVE  f[m] = IF m = 0 THEN 0 ELSE f[m - 1] + d(s[m])
    <3>1. m \in 0 .. n + 1 /\ f[m] = g[m]
      BY <1>1
    <3>2. CASE m = 0
      BY <2>1, <3>1, <3>2
    <3>3. CASE m # 0
      <4>1. m \in 1 .. n /\ m - 1 \in 0 .. n
        BY <1>1, <3>3
      <4>2. g[m] = g[m - 1] + d(t[m])
        BY <2>1, <3>1, <3>3
      <4>3. f[m] = f[m - 1] + d(t[m])
        BY <3>1, <4>1, <4>2
      <4>4. t[m] = s[m]
        BY <1>1, <4>1
      <4> QED
        BY <3>3, <4>3, <4>4
    <3> QED
      BY <3>2, <3>3
  <2>3. f = [m \in 0 .. n |-> f[m]] /\ n \in 0 .. n /\ f[n] = g[n]
    BY <1>1
  <2> HIDE DEF f
  <2>4. IsTotal(f, s)
    <3>1. f = [m \in 0 .. n |-> IF m = 0 THEN 0 ELSE f[m - 1] + d(s[m])]
      BY <2>2, <2>3
    <3> QED
      BY <1>3, <3>1
  <2>5. g[n + 1] = g[n] + d(r)
    <3>1. n + 1 \in 0 .. n + 1 /\ n + 1 # 0 /\ (n + 1) - 1 = n
      BY <1>1
    <3> QED
      BY <1>1, <2>1, <3>1
  <2> QED
    BY <2>3, <2>4, <2>5
<1>6. ASSUME NEW g, IsTotal(g, t)
      PROVE  g[n + 1] \in Nat /\ (g[n + 1] = 0 <=> \A i \in 1 .. n + 1 : d(t[i]) = 0)
  <2>1. PICK f : IsTotal(f, s) /\ g[n + 1] = f[n] + d(r)
    BY <1>5, <1>6
  <2>2. f[n] \in Nat /\ (f[n] = 0 <=> \A i \in 1 .. n : d(s[i]) = 0)
    BY <1>1, <2>1 DEF CountsViolations, n, d
  <2>3. (\A i \in 1 .. n + 1 : d(t[i]) = 0) <=> (\A i \in 1 .. n : d(s[i]) = 0) /\ d(r) = 0
    BY <1>1
  <2>4. g[n + 1] \in Nat /\ (g[n + 1] = 0 <=> f[n] = 0 /\ d(r) = 0)
    BY <1>2, <2>1, <2>2
  <2> QED
    BY <2>2, <2>3, <2>4
<1>7. \E g : IsTotal(g, t)
  BY <1>4 DEF CountsViolations
<1>8. CountsViolations(t)
  BY <1>1, <1>6, <1>7 DEF CountsViolations, d
<1> QED
  BY <1>8 DEF t

LEMMA TotalIsCount ==
    ASSUME \E f : IsTotal(f, results)
    PROVE  \E f : /\ IsTotal(f, results)
                  /\ duplicate_effect_violations = f[Len(results)]
<1> DEFINE f == CHOOSE g : IsTotal(g, results)
<1>1. IsTotal(f, results)
  OBVIOUS
<1>2. duplicate_effect_violations = f[Len(results)]
  BY DEF duplicate_effect_violations, IsTotal
<1> QED
  BY <1>1, <1>2

LEMMA HarnessInit == EvaluationInit => HarnessInv
<1> SUFFICES ASSUME EvaluationInit
             PROVE  HarnessInv
  OBVIOUS
<1>1. frozen \in BOOLEAN /\ raised \in BOOLEAN /\ results = <<>>
  BY DEF EvaluationInit
<1>2. manifest \in Seq(Item)
  <2>1. PICK m \in 0 .. MaxItems : manifest \in [1 .. m -> Item]
    BY DEF EvaluationInit, SeqOf
  <2>2. m \in Nat
    OBVIOUS
  <2> QED
    BY <2>1, <2>2
<1>3. Len(results) <= Len(manifest)
  BY <1>1, <1>2
<1> QED
  BY <1>1, <1>2, <1>3, EmptyCounts DEF HarnessInv

LEMMA ResultKept ==
    ASSUME HarnessInv, NEW result \in ScenarioResult, RunScenario(result),
           Matches(item, result)
    PROVE  HarnessInv'
<1> DEFINE n == Len(results)
<1>1. /\ results' = Append(results, result)
      /\ raised' \in BOOLEAN
      /\ UNCHANGED <<frozen, manifest>>
      /\ frozen
      /\ n < Len(manifest)
      /\ OwnResult(manifest[n + 1], result)
  BY DEF RunScenario, Running, item, OwnResult
<1>2. /\ manifest \in Seq(Item)
      /\ results \in Seq(ScenarioResult)
      /\ frozen \in BOOLEAN
      /\ \A i \in DOMAIN results : OwnResult(manifest[i], results[i])
      /\ CountsViolations(results)
  BY DEF HarnessInv
<1>3. /\ n \in Nat
      /\ results' \in Seq(ScenarioResult)
      /\ Len(results') = n + 1
      /\ n + 1 <= Len(manifest)
      /\ DOMAIN results = 1 .. n
      /\ DOMAIN results' = 1 .. n + 1
      /\ results'[n + 1] = result
      /\ \A i \in 1 .. n : results'[i] = results[i]
  BY <1>1, <1>2
<1>4. CountsViolations(results')
  BY <1>1, <1>2, CountGrows
<1>5. CountsViolations(results)'
  BY <1>4 DEF CountsViolations, IsTotal
<1> HIDE DEF n
<1>6. ASSUME NEW i \in DOMAIN results'
      PROVE  OwnResult(manifest[i], results'[i])
  <2>1. CASE i = n + 1
    BY <1>1, <1>3, <2>1
  <2>2. CASE i \in 1 .. n
    BY <1>2, <1>3, <2>2
  <2> QED
    BY <1>3, <2>1, <2>2
<1>7. ASSUME NEW i \in DOMAIN results'
      PROVE  OwnResult(manifest[i], results[i])'
  BY <1>1, <1>6 DEF OwnResult, Matches, Applicable
<1> QED
  BY <1>1, <1>2, <1>3, <1>5, <1>7 DEF HarnessInv

LEMMA HarnessStep == HarnessInv /\ [EvaluationNext]_evaluationVars => HarnessInv'
<1> SUFFICES ASSUME HarnessInv, [EvaluationNext]_evaluationVars
             PROVE  HarnessInv'
  OBVIOUS
<1>1. ASSUME raised' \in BOOLEAN, UNCHANGED <<frozen, manifest, results>>
      PROVE  HarnessInv'
  <2>1. CountsViolations(results)'
    <3>1. CountsViolations(results')
      BY <1>1 DEF HarnessInv
    <3> QED
      BY <3>1 DEF CountsViolations, IsTotal
  <2>2. \A i : OwnResult(manifest[i], results[i])'
                <=> OwnResult(manifest[i], results[i])
    BY <1>1 DEF OwnResult, Matches, Applicable
  <2> QED
    BY <1>1, <2>1, <2>2 DEF HarnessInv
<1>2. CASE Refuse
  BY <1>1, <1>2 DEF Refuse
<1>3. CASE UnknownRunner
  BY <1>1, <1>3 DEF UnknownRunner
<1>4. CASE NothingToSummarize
  BY <1>1, <1>4 DEF NothingToSummarize
<1>5. ASSUME NEW result \in ScenarioResult, RunScenario(result)
      PROVE  HarnessInv'
  <2>1. CASE Matches(item, result)
    BY <1>5, <2>1, ResultKept
  <2>2. CASE ~ Matches(item, result)
    BY <1>1, <1>5, <2>2 DEF RunScenario
  <2> QED
    BY <2>1, <2>2
<1>6. CASE UNCHANGED evaluationVars
  <2>1. raised' \in BOOLEAN /\ UNCHANGED <<frozen, manifest, results>>
    BY <1>6 DEF evaluationVars, HarnessInv
  <2> QED
    BY <1>1, <2>1
<1> QED
  BY <1>2, <1>3, <1>4, <1>5, <1>6 DEF EvaluationNext

\* Two counts over the results agree exactly when nothing is counted by one only.
LEMMA CountsAgree ==
    ASSUME NEW n \in Nat, NEW S \in SUBSET (1 .. n), NEW T \in SUBSET S
    PROVE  /\ Cardinality(T) = Cardinality(S) <=> T = S
           /\ Cardinality(1 .. n) = n
<1>1. IsFiniteSet(1 .. n) /\ Cardinality(1 .. n) = n
  BY FS_Interval
<1>2. IsFiniteSet(S)
  BY <1>1, FS_Subset
<1>3. Cardinality(T) = Cardinality(S) <=> T = S
  BY <1>2, FS_Subset
<1> QED
  BY <1>1, <1>3

\* The inductive invariant of run_scenario_manifest (evaluation.py:455-483): each
\* result kept is that of its item's own runner, with the applicable checks the item
\* requires.
THEOREM HarnessInvariant == EvaluationSpec => []HarnessInv
  BY HarnessInit, HarnessStep, PTL DEF EvaluationSpec

LEMMA PassIsSound ==
    ASSUME HarnessInv
    PROVE  PassMeansEveryRequiredCheckHeld
<1> DEFINE n == Len(results)
           s == results
<1>1. /\ n \in Nat
      /\ DOMAIN s = 1 .. n
      /\ DOMAIN manifest = 1 .. Len(manifest)
      /\ Len(manifest) \in Nat
      /\ s = <<>> <=> n = 0
      /\ manifest = <<>> <=> Len(manifest) = 0
      /\ \A i \in 1 .. n : s[i] \in ScenarioResult
  BY DEF HarnessInv
<1>2. \A i \in 1 .. n : /\ s[i].passed \in BOOLEAN
                        /\ s[i].check \in [Check -> BOOLEAN \cup {NotApplicable}]
  BY <1>1 DEF ScenarioResult
<1>3. \A i \in 1 .. n :
        /\ s[i].scenario_id = manifest[i].id
        /\ manifest[i].runner = s[i].scenario_id
        /\ \A c \in Check : manifest[i].required[c] = (s[i].check[c] # NotApplicable)
  BY <1>1 DEF HarnessInv, OwnResult, Matches, Applicable
<1>4. EqualsOne(scenario_pass_rate) <=> \A i \in 1 .. n : s[i].passed
  <2> DEFINE T == {i \in 1 .. n : s[i].passed}
  <2>1. Cardinality(T) = n <=> T = 1 .. n
    <3>1. T \in SUBSET (1 .. n)
      OBVIOUS
    <3> HIDE DEF T
    <3> QED
      BY <1>1, <3>1, CountsAgree
  <2>2. EqualsOne(scenario_pass_rate) <=> Cardinality(T) = n
    BY <1>1 DEF EqualsOne, scenario_pass_rate
  <2>3. T = 1 .. n <=> \A i \in 1 .. n : s[i].passed
    BY <1>2
  <2> QED
    BY <2>1, <2>2, <2>3
<1>5. ASSUME NEW c \in Check
      PROVE  EqualsOne(Rate(c)) <=>
                \A i \in 1 .. n : s[i].check[c] # NotApplicable => s[i].check[c] = TRUE
  <2> DEFINE S == {i \in 1 .. n : s[i].check[c] # NotApplicable}
             T == {i \in 1 .. n : s[i].check[c] = TRUE}
  <2>1. T \in SUBSET S
    BY NotApplicableAssumption
  <2>2. Cardinality(T) = Cardinality(S) <=> T = S
    <3>1. S \in SUBSET (1 .. n)
      OBVIOUS
    <3> HIDE DEF S, T
    <3> QED
      BY <1>1, <2>1, <3>1, CountsAgree
  <2>3. EqualsOne(Rate(c)) <=> Cardinality(T) = Cardinality(S)
    BY <1>1 DEF EqualsOne, Rate, Applicable
  <2>4. T = S <=> \A i \in 1 .. n : s[i].check[c] # NotApplicable => s[i].check[c] = TRUE
    BY NotApplicableAssumption
  <2> QED
    BY <2>2, <2>3, <2>4
<1>6. duplicate_effect_violations = 0
        <=> \A i \in 1 .. n : s[i].duplicate_effect_violations = 0
  <2>1. CountsViolations(s)
    BY DEF HarnessInv
  <2>2. PICK f : IsTotal(f, s) /\ duplicate_effect_violations = f[n]
    BY <2>1, TotalIsCount DEF CountsViolations
  <2> QED
    BY <1>1, <2>1, <2>2 DEF CountsViolations
<1>7. DispositionPasses <=>
        /\ ~ raised /\ s # <<>> /\ n = Len(manifest)
        /\ \A i \in 1 .. n : s[i].passed
        /\ \A c \in Check : \A i \in 1 .. n : s[i].check[c] # NotApplicable => s[i].check[c] = TRUE
        /\ \A i \in 1 .. n : s[i].duplicate_effect_violations = 0
  BY <1>4, <1>5, <1>6 DEF DispositionPasses, Finished
<1>8. s # <<>> => frozen
  BY DEF HarnessInv
<1> HIDE DEF n, s
<1>9. \A i \in 1 .. n :
        (\A c \in Check : s[i].check[c] # NotApplicable => s[i].check[c] = TRUE) <=>
            /\ \A c \in Check : manifest[i].required[c] => s[i].check[c] = TRUE
            /\ \A c \in Check : ~ manifest[i].required[c] => s[i].check[c] = NotApplicable
  BY <1>3, NotApplicableAssumption
<1>10. n = Len(manifest) => (s # <<>> <=> manifest # <<>>) /\ DOMAIN manifest = 1 .. n
  BY <1>1
<1>11. PassMeansEveryRequiredCheckHeld <=>
        (DispositionPasses <=>
            /\ frozen /\ manifest # <<>> /\ ~ raised
            /\ n = Len(manifest)
            /\ \A i \in DOMAIN manifest :
                /\ s[i].scenario_id = manifest[i].id
                /\ manifest[i].runner = manifest[i].id
                /\ s[i].passed
                /\ s[i].duplicate_effect_violations = 0
                /\ \A c \in Check : manifest[i].required[c] => s[i].check[c] = TRUE
                /\ \A c \in Check : ~ manifest[i].required[c] => s[i].check[c] = NotApplicable)
  BY DEF PassMeansEveryRequiredCheckHeld, n, s
<1>12. CASE n = Len(manifest) /\ s # <<>> /\ ~ raised
  BY <1>3, <1>7, <1>8, <1>9, <1>10, <1>11, <1>12
<1>13. CASE ~ (n = Len(manifest) /\ s # <<>> /\ ~ raised)
  BY <1>7, <1>10, <1>11, <1>13
<1> QED
  BY <1>12, <1>13

\* For manifests of any length and any results, the disposition is "pass" exactly
\* when every scenario was run by its own runner and passed, and every check its
\* item requires came out true (evaluation.py:443-449, 469-481).
THEOREM NoVacuousPass == EvaluationSpec => []PassMeansEveryRequiredCheckHeld
<1>1. HarnessInv => PassMeansEveryRequiredCheckHeld
  BY PassIsSound
<1> QED
  BY <1>1, HarnessInvariant, PTL
=============================================================================
