------------------------------- MODULE MCRps -------------------------------
(***************************************************************************)
(* Instances of Rps for TLC.                                               *)
(***************************************************************************)
EXTENDS Rps

CONSTANTS p1, p2, e1, r1, r2

MCParties == {p1, p2}
MCEntries == {e1}
MCRequests == {r1, r2}
=============================================================================
