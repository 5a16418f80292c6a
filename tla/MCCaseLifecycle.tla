-------------------------- MODULE MCCaseLifecycle --------------------------
(***************************************************************************)
(* Instances of CaseLifecycle for TLC, and of its refinement of            *)
(* CaseContract: the ids are model values and interchangeable, since no    *)
(* definition tells one finding from another.                              *)
(***************************************************************************)
EXTENDS CaseRefinement, TLC

CONSTANTS f1, f2, t1

MCFindings == {f1, f2}
MCOneFinding == {f1}
MCTies == {t1}

SymmetricFindings == Permutations(MCFindings)
=============================================================================
