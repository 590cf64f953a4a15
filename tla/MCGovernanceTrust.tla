------------------------- MODULE MCGovernanceTrust -------------------------
(* Instances of GovernanceTrust for TLC. *)
EXTENDS GovernanceTrust, TLC

CONSTANTS rot, rotFile

MCFile       == rot :> rotFile
MCSignerList == <<rot>>
=============================================================================
