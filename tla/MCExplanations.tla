--------------------------- MODULE MCExplanations ---------------------------
(***************************************************************************)
(* An instance of Explanations for TLC without demo cases: one case with a *)
(* finding and a tie, of which reconciling again may find the tie changed, *)
(* or the finding gone. The model may answer well; with one block of two   *)
(* cited; with a citation that misses; or with a forbidden word.           *)
(***************************************************************************)
EXTENDS Explanations

CONSTANTS c, f, t, recited, tied, tied2, k1, k2

MCCases == {c}
MCDemoCases == <<>>
MCFindingIds == {f}
MCTieIds == {t}
MCCaseOf == [id \in {f, t} |-> c]
MCRecitations == {recited, tied, tied2}
MCDiscoveries ==
  [x \in {c} |-> [v \in {1} |->
     {{<<f, recited>>, <<t, tied>>}, {<<f, recited>>, <<t, tied2>>}, {<<t, tied>>}}]]
Cited == [text |-> TRUE, citations |-> {"resolves"}]
Uncited == [text |-> TRUE, citations |-> {}]
MCResponses ==
  {[blocks |-> <<Cited>>, clean |-> TRUE],
   [blocks |-> <<Cited, Uncited>>, clean |-> TRUE],
   [blocks |-> <<[Cited EXCEPT !.citations = {"misses"}]>>, clean |-> TRUE],
   [blocks |-> <<Cited>>, clean |-> FALSE]}
MCAsks ==
  {[op |-> o, case |-> c, id |-> x, target |-> NoCase] : o \in {"read", "explain"}, x \in {f, t}}
  \union {[op |-> "reconcile", case |-> c, id |-> "none", target |-> NoCase],
          [op |-> "transition", case |-> c, id |-> "none", target |-> "worksheet"]}
MCFirstStates == {[x \in {c} |-> "discovery"]}
MCWorkers == {k1, k2}
WorkerSymmetry == Permutations(MCWorkers)
=============================================================================
