--------------------------- MODULE OwnershipGraph ---------------------------
(***************************************************************************)
(* The walk over GLEIF's consolidation edges (ownership/graph.py) and the  *)
(* foreign-control flags made of it (ownership/flagging.py), as operators  *)
(* on a set of edges <<child, parent>>, the rows of gleif_relationships of *)
(* type IS_DIRECTLY_CONSOLIDATED_BY. A path starts at the LEI asked about  *)
(* and has one hop less than it has nodes; a row of the recursive query is *)
(* a path, for its node is the last of the path and its depth the hops.    *)
(***************************************************************************)
EXTENDS Naturals, Sequences, FiniteSets, SequencesExt

Hops(path) == Len(path) - 1

Parents(edges, lei) == {e[2] : e \in {d \in edges : d[1] = lei}}

\* The paths one hop longer; the guard against cycles is per path.
Longer(edges, path) ==
  {Append(path, lei) : lei \in Parents(edges, Last(path)) \ ToSet(path)}

\* Mutated form: the walk stops where the depth bound is.
Rows_StopsAtBound(edges, lei, max_depth) ==
  LET walk[d \in 0..max_depth] ==
        IF d = 0 THEN {<<lei>>} ELSE UNION {Longer(edges, p) : p \in walk[d - 1]}
  IN UNION {walk[d] : d \in 1..max_depth}

\* The recursive query, which looks one hop past the depth bound.
Rows(edges, lei, max_depth) ==
  LET walk[d \in 0..(max_depth + 1)] ==
        IF d = 0 THEN {<<lei>>} ELSE UNION {Longer(edges, p) : p \in walk[d - 1]}
  IN UNION {walk[d] : d \in 1..(max_depth + 1)}

Reportable(edges, lei, max_depth) ==
  {p \in Rows(edges, lei, max_depth) : Hops(p) <= max_depth}

\* Mutated form: a path is dropped if a path through the same node goes on.
Chains_ByNode(edges, lei, max_depth) ==
  LET reportable == Reportable(edges, lei, max_depth)
      continued == {Last(Front(p)) : p \in reportable}
  IN {Tail(p) : p \in {q \in reportable : Last(q) \notin continued}}

\* ParentChain.chains: the reportable paths no reportable path continues,
\* without their first node.
Chains(edges, lei, max_depth) ==
  LET reportable == Reportable(edges, lei, max_depth)
      parent_paths == {Front(p) : p \in reportable}
  IN {Tail(p) : p \in reportable \ parent_paths}

\* ParentChain.truncated
Truncated(edges, lei, max_depth) ==
  \E p \in Rows(edges, lei, max_depth) : Hops(p) > max_depth

Endpoints(edges, lei, max_depth) == {Last(c) : c \in Chains(edges, lei, max_depth)}

\* Mutated form: one flag for each path.
Flags_OnePerPath(edges, known, jurisdiction, lei, max_depth) ==
  {<<Last(c), c>> : c \in {d \in Chains(edges, lei, max_depth) :
     Last(d) \in known /\ jurisdiction[Last(d)] # jurisdiction[lei]}}

\* flag_from_match: the first chain, and so a shortest, to each endpoint that
\* has a record and another jurisdiction. The query leaves the order of chains
\* of one length open; the first in some order stands for it.
Flags(edges, known, jurisdiction, lei, max_depth) ==
  LET chains == Chains(edges, lei, max_depth)
      foreign == {p \in Endpoints(edges, lei, max_depth) :
                    p \in known /\ jurisdiction[p] # jurisdiction[lei]}
  IN {<<p, CHOOSE c \in chains : /\ Last(c) = p
                                 /\ \A d \in chains : Last(d) = p => Len(c) <= Len(d)>> :
        p \in foreign}
=============================================================================
