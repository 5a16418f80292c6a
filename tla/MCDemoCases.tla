---------------------------- MODULE MCDemoCases ----------------------------
(***************************************************************************)
(* An instance of Explanations for TLC with the two demo cases alone, on a *)
(* new database. The first has a finding and a tie, the second a finding;  *)
(* the second version of the fixtures changes the tie.                     *)
(***************************************************************************)
EXTENDS Explanations

CONSTANTS demo, coi, f, t, g, recited, tied, tied2, k1, k2

MCCases == {demo, coi}
MCDemoCases == <<demo, coi>>
MCFindingIds == {f, g}
MCTieIds == {t}
MCCaseOf == [id \in {f, t, g} |-> IF id = g THEN coi ELSE demo]
MCRecitations == {recited, tied, tied2}
MCDiscoveries ==
  [x \in {demo, coi} |-> [v \in {1, 2} |->
     IF x = coi THEN {{<<g, recited>>}}
     ELSE {{<<f, recited>>, <<t, IF v = 1 THEN tied ELSE tied2>>}}]]
MCResponses == {NoSentence}
MCAsks ==
  {[op |-> "read", case |-> demo, id |-> t, target |-> NoCase],
   [op |-> "transition", case |-> demo, id |-> "none", target |-> "adjudication"]}
MCFirstStates == {[x \in {demo, coi} |-> NoCase]}
MCWorkers == {k1, k2}
=============================================================================
