--------------------------- MODULE MCBibliometrics ---------------------------
(***************************************************************************)
(* An instance of Bibliometrics for TLC: two spellings of one university,  *)
(* and one investigator, who resolves to two author records. Pages of two  *)
(* papers make three papers a full page and a short one, two a full page   *)
(* and an empty one. The paper w3 is of both records.                      *)
(***************************************************************************)
EXTENDS Bibliometrics

CONSTANTS e1, e2, u, p1, a1, a2, w1, w2, w3, dod, cet, k1, k2

MCEntities == {e1, e2}
MCPIs == {p1}
MCAuthors == {a1, a2}
MCWorks == {w1, w2, w3}
MCInstitutionOf == [e \in MCEntities |-> u]
MCPIsOf == [e \in MCEntities |-> IF e = e1 THEN {p1} ELSE {}]
MCAuthorsOf == [p \in MCPIs |-> {a1, a2}]
MCWorksOf == [a \in MCAuthors |-> IF a = a1 THEN <<w1, w2, w3>> ELSE <<w3, w2>>]
MCHasAbstract == {w1, w3}
MCCorpora == <<dod, cet>>
MCLead == [c \in {dod, cet} |-> [w \in MCWorks |-> IF w = w2 \/ (w = w1 /\ c = cet) THEN 0 ELSE 2]]
MCCaps == {0, 1}
MCWorkers == {k1, k2}
==============================================================================
