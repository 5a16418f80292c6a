--------------------------- MODULE MCCaseRequests ---------------------------
(***************************************************************************)
(* Instances of CaseRequests for TLC.                                      *)
(***************************************************************************)
EXTENDS CaseRequests, TLC

CONSTANTS f1, t1, r1, r2

MCFindings == {f1}
MCTies == {t1}
MCNoTies == {}
MCRequests == {r1, r2}

SymmetricRequests == Permutations(MCRequests)

(***************************************************************************)
(* A bound: what there is to observe of the case is one finding, in a      *)
(* process that may die, or else one tie, in one that lives. Requests on   *)
(* both meet in CaseRequestsSerial.                                        *)
(***************************************************************************)
OnlyTheFinding ==
  /\ ties = {} /\ tie_actions = <<>> /\ explanations \subseteq FindingIds
  /\ \A r \in Requests : request[r].tied = <<>> /\ request[r].ids \subseteq FindingIds

OnlyTheTie ==
  /\ findings = {} /\ worksheet_actions = <<>> /\ certifications = <<>>
  /\ explanations \subseteq TieIds /\ crashes = 0
  /\ \A r \in Requests : request[r].rows = <<>> /\ request[r].ids \subseteq TieIds

OneObservation == OnlyTheFinding \/ OnlyTheTie
=============================================================================
