------------------------ MODULE MCCaseRequestsSerial ------------------------
(***************************************************************************)
(* One request at a time, checked against CaseLifecycle.                   *)
(***************************************************************************)
EXTENDS CaseRequestsSerial, TLC

CONSTANTS f1, f2, t1, t2, r1

MCFindings == {f1, f2}
MCTies == {t1, t2}
MCRequests == {r1}

SymmetricIds == Permutations(MCFindings) \union Permutations(MCTies)
=============================================================================
