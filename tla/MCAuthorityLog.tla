--------------------------- MODULE MCAuthorityLog ---------------------------
(* Instances of AuthorityLog for TLC. *)
EXTENDS AuthorityLog

CONSTANTS g1, g2, tr1

MCOneTrace == [g \in Grant |-> tr1]
Symmetry   == Permutations(Grant)
=============================================================================
