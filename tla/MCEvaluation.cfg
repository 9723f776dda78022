SPECIFICATION EvaluationSpec
CONSTANTS
    Check = {safety, convergence}
    Runner = {s1, s2}
    Unknown = unknown
    MaxItems = 3
    NotApplicable = NotApplicable
SYMMETRY Symmetry
CHECK_DEADLOCK FALSE
INVARIANTS
    PassMeansEveryRequiredCheckHeld
