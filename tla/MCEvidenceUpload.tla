-------------------------- MODULE MCEvidenceUpload --------------------------
(* Three events per run: an observation with an Artifact, a finding that   *)
(* names the same Artifact, the end of the run.                            *)
EXTENDS EvidenceUpload

MCRefs == [n \in 1..3 |-> IF n = 3 THEN {} ELSE {1}]
=============================================================================
