---------------------------- MODULE MCReleaseGate ----------------------------
EXTENDS ReleaseGate

CONSTANTS reliability_v1, trace_integrity_v1

Sources == {reliability_v1, trace_integrity_v1}

FrozenManifest == <<reliability_v1, trace_integrity_v1>>
=============================================================================
