------------------------- MODULE MCEvidenceReports -------------------------
(* Instances of EvidenceReports for TLC. *)
EXTENDS EvidenceReports
=============================================================================
