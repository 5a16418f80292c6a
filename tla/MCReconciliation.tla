-------------------------- MODULE MCReconciliation --------------------------
(***************************************************************************)
(* An instance of Reconciliation for TLC. Three institutions are seen: one *)
(* nobody declared, one that was declared, one that is nearly so. Of the   *)
(* four declared rows two and two have one id. In one file all employers   *)
(* are under a common listed parent, those of one id among them; in one,   *)
(* employers of two ids are; in one, an employer has two parents of the    *)
(* same name, on one list only; in one they are on a chain longer than the *)
(* depth bound. The graphs the walk is checked on have four LEIs and every *)
(* subset of nine edges, which hold a diamond, cycles, and chains shorter  *)
(* and longer than the bounds.                                             *)
(***************************************************************************)
EXTENDS Reconciliation

CONSTANTS s, a, b, t, aff1, aff2, aff3, aff4, id1, id2,
          unknown, listed, near, firm, holding, twin, lab

MCNames == {unknown, listed, near, firm, holding, twin, lab}
MCDiscoveries == {{}, {unknown, listed}, {unknown, near, listed}}
MCLastObserved == [n \in MCNames |-> IF n = unknown THEN 5 ELSE 0]
MCAffiliations == <<aff1, aff2, aff3, aff4>>
MCAffiliationId ==
  (aff1 :> id1) @@ (aff2 :> id2) @@ (aff3 :> id1) @@ (aff4 :> id2)
MCDeclaredName == (aff1 :> firm) @@ (aff2 :> holding) @@ (aff3 :> listed)
                    @@ (aff4 :> lab)
MCEmployers == <<aff1, aff2, aff4>>
MCSources ==
  {[present |-> TRUE, scope_kind |-> "temporal_window", category |-> "any",
    window_start |-> 4, admits_publications |-> FALSE],
   [present |-> FALSE, scope_kind |-> "full_history", category |-> "any",
    window_start |-> 0, admits_publications |-> FALSE]}
MCConfidence ==
  [m \in MCNames |-> [n \in MCNames |->
     IF m = n THEN 100 ELSE IF {m, n} = {near, firm} THEN 87 ELSE 30]]
MCListedOn ==
  [n \in MCNames |-> IF n \in {unknown, listed, holding} THEN {"dod_1260h"}
                     ELSE IF n = twin THEN {"opensanctions"} ELSE {}]
MCLEIs == {s, a, b, t}
MCLeiOf == (aff1 :> s) @@ (aff2 :> a) @@ (aff3 :> NoLei) @@ (aff4 :> b)
MCLegalName == [l \in MCLEIs |-> IF l \in {a, b} THEN twin
                                 ELSE IF l = t THEN holding ELSE firm]
MCJurisdiction == [l \in MCLEIs |-> IF l \in {s, b} THEN "US" ELSE "CN"]
Diamond == {<<s, a>>, <<s, b>>, <<a, t>>, <<b, t>>}
MCFiles == {[leis |-> MCLEIs, edges |-> Diamond],
            [leis |-> MCLEIs, edges |-> {<<s, t>>, <<a, t>>}],
            [leis |-> {s, a, b}, edges |-> {<<s, a>>, <<s, b>>}],
            [leis |-> MCLEIs, edges |-> {<<s, a>>, <<a, t>>, <<t, b>>}]}
MCGraphsBefore ==
  SUBSET (Diamond \union {<<t, a>>, <<b, a>>, <<t, s>>, <<a, s>>, <<s, t>>})
=============================================================================
