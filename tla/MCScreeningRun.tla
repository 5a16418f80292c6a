--------------------------- MODULE MCScreeningRun ---------------------------
(***************************************************************************)
(* Instances of ScreeningRun for TLC.                                      *)
(***************************************************************************)
EXTENDS ScreeningRun

CONSTANTS a1, r1, r2

MCScreeningHits == {<<"direct_name", 2>>}
MCOfferedFinds == {<<1, "unknown">>, <<1, "flagged">>, <<2, "no_foreign_parent">>}
MCOfferedHits == {{}, {<<"bibliometric", 1>>}}
MCAuthors == {a1}
MCRequests == {r1, r2}
=============================================================================
