--------------------------- MODULE Reconciliation ---------------------------
(***************************************************************************)
(* What POST /cases/{id}/reconcile finds out about a case and writes down: *)
(* the omission test of what was declared against what was discovered      *)
(* (reconciliation/), the ties to concern-listed entities, and the climb   *)
(* to the parents of declared employers over the GLEIF tables, which every *)
(* other request replaces with its own (pipeline.reconcile_case).          *)
(*                                                                         *)
(* One request on the case at a time: what two of them do to each other's  *)
(* rows, and what becomes of explanations, is in CaseRequests. A statement *)
(* commits by itself and the process may die between two. The transitions  *)
(* of the case are the arrows alone; their checks are in CaseLifecycle.    *)
(***************************************************************************)
EXTENDS OwnershipGraph

CONSTANTS
  Names,               \* of institutions and of legal entities
  NoCase,
  Discoveries,         \* sets of names a discovery may return
  LastObserved,        \* name -> last year it was seen in, 0 for undated
  Affiliations,        \* the rows the subject declared, in order
  AffiliationId,       \* row -> the affiliation_id the client gave it
  DeclaredName,        \* row -> name
  Employers,           \* those of kind employment or hiring, in order
  Sources,             \* the sources of the declaration
  Confidence,          \* name -> name -> score of the pair, in percent
  RECONCILIATION_THRESHOLD,
  PARTIAL_MATCH_FLOOR,
  ListedOn,            \* name -> the concern lists it is a candidate match on
  LEIs, NoLei,
  LeiOf,               \* affiliation -> the LEI its name resolves to
  LegalName, Jurisdiction,      \* of an LEI
  Files,               \* the pairs of GLEIF files a request may name
  NoFile,
  GraphsBefore,        \* what other requests may have left in the tables
  MaxDepth,
  MaxReconciliations,  \* bounds
  MaxOtherLoads,
  MaxCrashes

ScopeKinds == {"full_history", "temporal_window", "highest_only", "type_enumeration"}
SourceRecords ==
  [present : BOOLEAN, scope_kind : ScopeKinds,
   category : {"employment", "any"}, window_start : Nat,
   admits_publications : BOOLEAN]
FileRecords == [leis : SUBSET LEIs, edges : SUBSET (LEIs \X LEIs)]
Lists == {"dod_1260h", "opensanctions"}

NoAffiliation == "None"

States == {"intake", "declaration_assembly", "discovery", "worksheet",
           "adjudication", "outcome", "closed"}

\* The rows of a declaration are as many as the client sent, and nothing keeps
\* two of them from having one affiliation_id.
ASSUME InputAssumption ==
  /\ IsFiniteSet(Names) /\ IsFiniteSet(LEIs) /\ NoCase \notin States
  /\ Discoveries \subseteq SUBSET Names
  /\ LastObserved \in [Names -> Nat]
  /\ Affiliations \in Seq(ToSet(Affiliations)) /\ IsInjective(Affiliations)
  /\ NoAffiliation \notin ToSet(Affiliations)
  /\ DOMAIN AffiliationId = ToSet(Affiliations)
  /\ DeclaredName \in [ToSet(Affiliations) -> Names]
  /\ Employers \in Seq(ToSet(Affiliations)) /\ IsInjective(Employers)
  /\ Sources \subseteq SourceRecords
  /\ Confidence \in [Names -> [Names -> 0..100]]
  /\ RECONCILIATION_THRESHOLD \in 1..100 /\ PARTIAL_MATCH_FLOOR \in 1..100
  /\ ListedOn \in [Names -> SUBSET Lists]
  /\ LeiOf \in [ToSet(Affiliations) -> LEIs \union {NoLei}] /\ NoLei \notin LEIs
  /\ LegalName \in [LEIs -> Names]
  /\ DOMAIN Jurisdiction = LEIs
  /\ Files \subseteq FileRecords /\ NoFile \notin FileRecords
  /\ GraphsBefore \subseteq SUBSET (LEIs \X LEIs)
  /\ MaxDepth \in Nat \ {0}

VARIABLES
  case_state,
  findings,             \* rows of findings
  ties,                 \* rows of concern_ties
  manifest,             \* reconciliation.json: its run, and what it counts
  gleif_lei,            \* LEIs that have a row
  gleif_relationships,  \* consolidation edges
  request,              \* the reconciliation in progress
  runs,                 \* how many were started
  loads,                \* how often others replaced a GLEIF table
  crashes,
  by_hand,              \* history: a transition moved the case to the worksheet
  basis                 \* history: what the reconciliation that last moved it
                        \* there went by

tables == <<findings, ties, manifest>>
gleif == <<gleif_lei, gleif_relationships>>
history == <<by_hand, basis>>
vars == <<case_state, tables, gleif, request, runs, loads, crashes, history>>

\* service._TRANSITIONS
TRANSITIONS ==
  [s \in States |->
     CASE s = "intake"               -> {"declaration_assembly"}
       [] s = "declaration_assembly" -> {"discovery"}
       [] s = "discovery"            -> {"worksheet"}
       [] s = "worksheet"            -> {"adjudication"}
       [] s = "adjudication"         -> {"outcome", "worksheet"}
       [] s = "outcome"              -> {"closed"}
       [] s = "closed"               -> {"discovery"}]
RECONCILE_ALLOWED_STATES == {"intake", "declaration_assembly", "discovery"}

FactualBases == {"partial_match_below_threshold", "absent_from_in_scope_source",
                 "absent_outside_all_source_scopes"}
TieKinds == {"declared_employer_ultimate_parent", "own_affiliation_history",
             "declared_affiliation_direct"}
NoFinding == "no finding"

FindingRows == [name : Names, factual_basis : FactualBases, run : Nat]
TieRows == [kind : TieKinds,
            anchor : ToSet(Affiliations) \union {NoAffiliation}, \* the declared row
            name : Names,                                  \* concern_entity_name
            related : Names \union {NoFinding},            \* related_finding_id
            parent : LEIs \union {NoLei},
            truncated : BOOLEAN, run : Nat]

\* What uuid5 makes of a row: same key, same id. A tie has the affiliation_id of
\* its anchor in it. The id of a finding is made of the name in it; there is one
\* source, OpenAlex.
TieKey(t) ==
  <<t.kind, IF t.anchor = NoAffiliation THEN NoAffiliation ELSE AffiliationId[t.anchor],
    t.name>>

Labels == {"idle", "discover", "load_lei", "load_relationships", "load_lists",
           "match_employer", "climb", "name_parents", "diff",
           "delete_findings", "insert_findings", "delete_ties", "insert_ties",
           "delete_case", "insert_case", "write_manifest"}

Requests ==
  [at : Labels, run : Nat,
   file : Files \union {NoFile},
   lists : SUBSET Lists,                      \* concern lists it screens against
   discovered : SUBSET Names,
   employers : Seq(ToSet(Affiliations)),      \* still to climb from
   chains : SUBSET Seq(LEIs), truncated : BOOLEAN,      \* of the employer in hand
   findings : Seq(FindingRows),               \* rows still to insert
   ties : Seq(TieRows),
   counts : Seq(Nat),                         \* what the manifest will say
   undisturbed : BOOLEAN]        \* history: its GLEIF tables were left alone

Idle == [at |-> "idle", run |-> 0, file |-> NoFile, lists |-> {}, discovered |-> {},
         employers |-> <<>>, chains |-> {}, truncated |-> FALSE, findings |-> <<>>,
         ties |-> <<>>, counts |-> <<>>, undisturbed |-> TRUE]

NoBasis == [run |-> 0, discovered |-> {}, lists |-> {}, file |-> NoFile,
            undisturbed |-> FALSE]

ReconciliationTypeOK ==
  /\ case_state \in States \union {NoCase}
  /\ findings \subseteq FindingRows
  /\ ties \subseteq TieRows
  /\ manifest \in [run : Nat, counts : Seq(Nat)]
  /\ gleif_lei \subseteq LEIs /\ gleif_relationships \subseteq LEIs \X LEIs
  /\ request \in Requests
  /\ runs \in Nat /\ loads \in Nat /\ crashes \in Nat
  /\ by_hand \in BOOLEAN
  /\ basis \in [run : Nat, discovered : SUBSET Names, lists : SUBSET Lists,
                file : Files \union {NoFile}, undisturbed : BOOLEAN]

\* A case as intake leaves it; or none yet, and tables others have loaded.
Init ==
  /\ \/ case_state = "declaration_assembly" /\ gleif_relationships = {}
     \/ case_state = NoCase /\ gleif_relationships \in GraphsBefore
  /\ findings = {} /\ ties = {} /\ manifest = [run |-> 0, counts |-> <<>>]
  /\ gleif_lei = {}
  /\ request = Idle
  /\ runs = 0 /\ loads = 0 /\ crashes = 0
  /\ by_hand = FALSE /\ basis = NoBasis

-----------------------------------------------------------------------------
(* The omission test (reconcile.py, match.py) *)

\* _source_covers. What is discovered comes from publications: its role holds
\* no word for education, and an employment window does not admit it.
Covers(source, name) ==
  /\ source.present
  /\ \/ source.scope_kind = "full_history"
     \/ /\ source.scope_kind = "temporal_window" /\ source.category # "employment"
        /\ source.window_start > 0 /\ LastObserved[name] > 0
        /\ LastObserved[name] >= source.window_start
     \/ source.scope_kind = "type_enumeration" /\ source.admits_publications

Score(name, affiliation) == Confidence[name][DeclaredName[affiliation]]

\* best_declared_match(...).cleared
Cleared(name) ==
  \E a \in ToSet(Affiliations) : Score(name, a) >= RECONCILIATION_THRESHOLD

\* _classify: a near miss is told before the scope is looked at.
FactualBasis(name) ==
  IF ~Cleared(name) /\ \E a \in ToSet(Affiliations) : Score(name, a) >= PARTIAL_MATCH_FLOOR
  THEN "partial_match_below_threshold"
  ELSE IF \E source \in Sources : Covers(source, name)
  THEN "absent_from_in_scope_source"
  ELSE "absent_outside_all_source_scopes"

\* reconcile, build_finding
FindingsOf(discovered, run) ==
  {[name |-> n, factual_basis |-> FactualBasis(n), run |-> run] :
     n \in {m \in discovered : ~Cleared(m)}}

-----------------------------------------------------------------------------
(* The tie test (discover.py) *)

Listed(name, lists) == ListedOn[name] \intersect lists # {}

\* Mutated form: only what is also a finding is screened.
OwnTies_OfFindings(discovered, lists, run) ==
  {[kind |-> "own_affiliation_history", anchor |-> NoAffiliation, name |-> n,
    related |-> n, parent |-> NoLei, truncated |-> FALSE, run |-> run] :
     n \in {m \in discovered : Listed(m, lists) /\ ~Cleared(m)}}

\* Mutated form: the finding is taken for granted.
OwnTies_AlwaysRelated(discovered, lists, run) ==
  {[kind |-> "own_affiliation_history", anchor |-> NoAffiliation, name |-> n,
    related |-> n, parent |-> NoLei, truncated |-> FALSE, run |-> run] :
     n \in {m \in discovered : Listed(m, lists)}}

\* ties_from_own_affiliations, each with the finding of the same institution,
\* if there is one (discovered_finding_map).
OwnTies(discovered, lists, run) ==
  {[kind |-> "own_affiliation_history", anchor |-> NoAffiliation, name |-> n,
    related |-> IF Cleared(n) THEN NoFinding ELSE n,
    parent |-> NoLei, truncated |-> FALSE, run |-> run] :
     n \in {m \in discovered : Listed(m, lists)}}

\* ties_from_declared_affiliations: one row for each declared row, also of those
\* that have one id and one name.
DeclaredTies(lists, run) ==
  {[kind |-> "declared_affiliation_direct", anchor |-> a, name |-> DeclaredName[a],
    related |-> NoFinding, parent |-> NoLei, truncated |-> FALSE, run |-> run] :
     a \in {b \in ToSet(Affiliations) : Listed(DeclaredName[b], lists)}}

\* Mutated form: the parents next to the employer are screened.
EmployerTies_OfNearest(employer, chains, truncated, known, lists, run) ==
  {[kind |-> "declared_employer_ultimate_parent", anchor |-> employer,
    name |-> LegalName[p], related |-> NoFinding, parent |-> p,
    truncated |-> truncated, run |-> run] :
     p \in {q \in {Head(c) : c \in chains} : q \in known /\ Listed(LegalName[q], lists)}}

\* Mutated form: the anchor is left out of the row, and so out of its key.
EmployerTies_NoAnchor(employer, chains, truncated, known, lists, run) ==
  {[kind |-> "declared_employer_ultimate_parent", anchor |-> NoAffiliation,
    name |-> LegalName[p], related |-> NoFinding, parent |-> p,
    truncated |-> truncated, run |-> run] :
     p \in {q \in {Last(c) : c \in chains} : q \in known /\ Listed(LegalName[q], lists)}}

\* tie_from_ownership, for one employer: one row per distinct endpoint that has
\* a record and is listed, in whatever jurisdiction.
EmployerTies(employer, chains, truncated, known, lists, run) ==
  {[kind |-> "declared_employer_ultimate_parent", anchor |-> employer,
    name |-> LegalName[p], related |-> NoFinding, parent |-> p,
    truncated |-> truncated, run |-> run] :
     p \in {q \in {Last(c) : c \in chains} : q \in known /\ Listed(LegalName[q], lists)}}

-----------------------------------------------------------------------------
(* One reconciliation *)

Become(record) == request' = record
GoTo(label) == request' = [request EXCEPT !.at = label]

\* The route refuses other states. DoD 1260H comes with the code, the other
\* list and the two GLEIF files only if the request names them.
Reconcile(file, lists) ==
  /\ request.at = "idle" /\ runs < MaxReconciliations
  /\ case_state \in RECONCILE_ALLOWED_STATES
  /\ "dod_1260h" \in lists
  /\ runs' = runs + 1
  /\ Become([Idle EXCEPT !.at = "discover", !.run = runs', !.file = file, !.lists = lists])
  /\ UNCHANGED <<case_state, tables, gleif, loads, crashes, history>>

\* discover_from_publications. Nothing at all if the hiring institution or the
\* author is not found.
Discover(names) ==
  /\ request.at = "discover"
  /\ Become([request EXCEPT !.at = IF request.file = NoFile THEN "load_lists"
                                                            ELSE "load_lei",
                            !.discovered = names])
  /\ UNCHANGED <<case_state, tables, gleif, runs, loads, crashes, history>>

\* What is read from outside: OpenAlex, the GLEIF files, the list the request
\* names. DoD 1260H comes with the code.
ReadsOutside ==
  \/ request.at \in {"discover", "load_lei", "load_relationships"}
  \/ request.at = "load_lists" /\ "opensanctions" \in request.lists

\* Mutated form: the request is left in a state nobody handles.
DiscoveryFails_Unhandled ==
  /\ ReadsOutside
  /\ GoTo("failed")
  /\ UNCHANGED <<case_state, tables, gleif, runs, loads, crashes, history>>

\* OpenAlex does not answer, a file is missing or malformed: an exception ends
\* the request. A GLEIF table that was replaced before stays replaced.
DiscoveryFails ==
  /\ ReadsOutside
  /\ Become(Idle)
  /\ UNCHANGED <<case_state, tables, gleif, runs, loads, crashes, history>>

LoadLei ==
  /\ request.at = "load_lei"
  /\ gleif_lei' = request.file.leis
  /\ GoTo("load_relationships")
  /\ UNCHANGED <<case_state, tables, gleif_relationships, runs, loads, crashes, history>>

LoadRelationships ==
  /\ request.at = "load_relationships"
  /\ gleif_relationships' = request.file.edges
  /\ GoTo("load_lists")
  /\ UNCHANGED <<case_state, tables, gleif_lei, runs, loads, crashes, history>>

\* _case_concern_lists; without GLEIF files no employer is looked at.
LoadLists ==
  /\ request.at = "load_lists"
  /\ IF request.file = NoFile THEN GoTo("diff")
     ELSE Become([request EXCEPT !.at = "match_employer", !.employers = Employers])
  /\ UNCHANGED <<case_state, tables, gleif, runs, loads, crashes, history>>

\* resolve_entity_to_lei; an employer without an LEI is passed over.
MatchEmployer ==
  /\ request.at = "match_employer"
  /\ IF request.employers = <<>> THEN GoTo("diff")
     ELSE IF LeiOf[Head(request.employers)] \in gleif_lei THEN GoTo("climb")
     ELSE Become([request EXCEPT !.employers = Tail(@)])
  /\ UNCHANGED <<case_state, tables, gleif, runs, loads, crashes, history>>

Climb ==
  /\ request.at = "climb"
  /\ LET lei == LeiOf[Head(request.employers)]
     IN Become([request EXCEPT
          !.at = "name_parents",
          !.chains = Chains(gleif_relationships, lei, MaxDepth),
          !.truncated = Truncated(gleif_relationships, lei, MaxDepth)])
  /\ UNCHANGED <<case_state, tables, gleif, runs, loads, crashes, history>>

NameParents ==
  /\ request.at = "name_parents"
  /\ LET new == EmployerTies(Head(request.employers), request.chains, request.truncated,
                             gleif_lei, request.lists, request.run)
     IN Become([request EXCEPT
          !.at = "match_employer", !.ties = @ \o SetToSeq(new),
          !.employers = Tail(@), !.chains = {}, !.truncated = FALSE])
  /\ UNCHANGED <<case_state, tables, gleif, runs, loads, crashes, history>>

\* The rest is computed from what is in hand, without another read.
Diff ==
  /\ request.at = "diff"
  /\ LET new == FindingsOf(request.discovered, request.run)
         all == request.ties
                  \o SetToSeq(OwnTies(request.discovered, request.lists, request.run))
                  \o SetToSeq(DeclaredTies(request.lists, request.run))
     IN Become([request EXCEPT
          !.at = "delete_findings", !.findings = SetToSeq(new), !.ties = all,
          !.counts = <<Cardinality(request.discovered), Cardinality(new), Len(all)>>])
  /\ UNCHANGED <<case_state, tables, gleif, runs, loads, crashes, history>>

DeleteFindings ==
  /\ request.at = "delete_findings"
  /\ findings' = {}
  /\ GoTo("insert_findings")
  /\ UNCHANGED <<case_state, ties, manifest, gleif, runs, loads, crashes, history>>

\* executemany: row by row.
InsertFinding ==
  /\ request.at = "insert_findings"
  /\ IF request.findings = <<>>
     THEN GoTo("delete_ties") /\ UNCHANGED findings
     ELSE /\ findings' = findings \union {Head(request.findings)}
          /\ Become([request EXCEPT !.findings = Tail(@)])
  /\ UNCHANGED <<case_state, ties, manifest, gleif, runs, loads, crashes, history>>

\* Mutated form: the ties of the last reconciliation stay.
DeleteTiesNot ==
  /\ request.at = "delete_ties"
  /\ GoTo("insert_ties")
  /\ UNCHANGED <<case_state, tables, gleif, runs, loads, crashes, history>>

DeleteTies ==
  /\ request.at = "delete_ties"
  /\ ties' = {}
  /\ GoTo("insert_ties")
  /\ UNCHANGED <<case_state, findings, manifest, gleif, runs, loads, crashes, history>>

\* The unique index on tie_id refuses a key that is there: the request fails,
\* the rows before it stay.
InsertTie ==
  /\ request.at = "insert_ties"
  /\ IF request.ties = <<>>
     THEN GoTo("delete_case") /\ UNCHANGED ties
     ELSE LET row == Head(request.ties)
          IN IF TieKey(row) \in {TieKey(t) : t \in ties}
             THEN Become(Idle) /\ UNCHANGED ties
             ELSE /\ ties' = ties \union {row}
                  /\ Become([request EXCEPT !.ties = Tail(@)])
  /\ UNCHANGED <<case_state, findings, manifest, gleif, runs, loads, crashes, history>>

\* save_case
DeleteCase ==
  /\ request.at = "delete_case"
  /\ case_state' = NoCase
  /\ GoTo("insert_case")
  /\ UNCHANGED <<tables, gleif, runs, loads, crashes, history>>

InsertCase ==
  /\ request.at = "insert_case"
  /\ case_state' = "worksheet"
  /\ by_hand' = FALSE
  /\ basis' = [run |-> request.run, discovered |-> request.discovered,
               lists |-> request.lists, file |-> request.file,
               undisturbed |-> request.undisturbed]
  /\ GoTo("write_manifest")
  /\ UNCHANGED <<tables, gleif, runs, loads, crashes>>

WriteManifest ==
  /\ request.at = "write_manifest"
  /\ manifest' = [run |-> request.run, counts |-> request.counts]
  /\ Become(Idle)
  /\ UNCHANGED <<case_state, findings, ties, gleif, runs, loads, crashes, history>>

-----------------------------------------------------------------------------
(* What others do *)

\* POST /cases/{id}/transition.
Transition(target) ==
  /\ request.at = "idle"
  /\ case_state \in States /\ target \in TRANSITIONS[case_state]
  /\ case_state' = target
  /\ by_hand' = IF case_state = "discovery" THEN TRUE ELSE by_hand
  /\ UNCHANGED <<tables, gleif, request, runs, loads, crashes, basis>>

Disturbed == [request EXCEPT !.undisturbed = request.at = "idle"]

\* A request on another case or run loads its own files.
OtherLoadsLei(file) ==
  /\ case_state # NoCase
  /\ loads < MaxOtherLoads /\ loads' = loads + 1
  /\ gleif_lei' = file.leis
  /\ Become(Disturbed)
  /\ UNCHANGED <<case_state, tables, gleif_relationships, runs, crashes, history>>

OtherLoadsRelationships(file) ==
  /\ case_state # NoCase
  /\ loads < MaxOtherLoads /\ loads' = loads + 1
  /\ gleif_relationships' = file.edges
  /\ Become(Disturbed)
  /\ UNCHANGED <<case_state, tables, gleif_lei, runs, crashes, history>>

Crash ==
  /\ request.at # "idle"
  /\ crashes < MaxCrashes /\ crashes' = crashes + 1
  /\ Become(Idle)
  /\ UNCHANGED <<case_state, tables, gleif, runs, loads, history>>

Next ==
  \/ \E file \in Files \union {NoFile}, lists \in SUBSET Lists : Reconcile(file, lists)
  \/ \E names \in Discoveries : Discover(names)
  \/ DiscoveryFails
  \/ LoadLei \/ LoadRelationships \/ LoadLists
  \/ MatchEmployer \/ Climb \/ NameParents \/ Diff
  \/ DeleteFindings \/ InsertFinding \/ DeleteTies \/ InsertTie
  \/ DeleteCase \/ InsertCase \/ WriteManifest
  \/ \E target \in States : Transition(target)
  \/ \E file \in Files : OtherLoadsLei(file) \/ OtherLoadsRelationships(file)
  \/ Crash

Spec == Init /\ [][Next]_vars

-----------------------------------------------------------------------------
(* Properties of the walk, over whatever others left in the tables *)

TablesOfOthers == case_state = NoCase /\ runs = 0
Depths == 1..(MaxDepth + 1)

\* A sequence of distinct LEIs, each a parent of the one before it.
IsPath(edges, path) ==
  /\ IsInjective(path)
  /\ \A i \in 1..Hops(path) : <<path[i], path[i + 1]>> \in edges

PathsFrom(edges, lei, hops) ==
  {p \in [1..(hops + 1) -> LEIs] : p[1] = lei /\ IsPath(edges, p)}

\* parent_chain returns the paths up from an LEI that go as far as the depth
\* bound or cannot go on without coming back on themselves: none of them cut
\* short by a path next to it, none twice, none made up (graph.py, Finding 7).
ChainsAreMaximalPaths ==
  TablesOfOthers => \A lei \in LEIs, depth \in Depths :
    Chains(gleif_relationships, lei, depth) =
      {Tail(p) : p \in {q \in UNION {PathsFrom(gleif_relationships, lei, n) : n \in 1..depth} :
         Hops(q) = depth \/ Longer(gleif_relationships, q) = {}}}

\* What may be taken for an ultimate parent: unless the walk says truncated,
\* nobody consolidates an endpoint but LEIs on the way to it, and without a
\* cycle nobody at all; and it says truncated only where a chain does go on.
EndpointsAreConfirmed ==
  TablesOfOthers => \A lei \in LEIs, depth \in Depths :
    Truncated(gleif_relationships, lei, depth) <=>
      \E c \in Chains(gleif_relationships, lei, depth) :
        ~(Parents(gleif_relationships, Last(c)) \subseteq ToSet(c) \union {lei})

\* A foreign parent the walk ends at is flagged once, however many ways lead
\* to it, with a way that exists and is as short as any (flag_from_match).
OneFlagPerParent ==
  TablesOfOthers => \A lei \in LEIs, depth \in Depths :
    LET flags == Flags(gleif_relationships, LEIs, Jurisdiction, lei, depth)
    IN /\ \A f, g \in flags : f[1] = g[1] => f = g
       /\ \A f \in flags :
            /\ Last(f[2]) = f[1] /\ IsPath(gleif_relationships, <<lei>> \o f[2])
            /\ \A n \in 1..(Len(f[2]) - 1) : \A p \in PathsFrom(gleif_relationships, lei, n) :
                 Tail(p) \in Chains(gleif_relationships, lei, depth) => Last(p) # f[1]
       /\ {f[1] : f \in flags} = {p \in Endpoints(gleif_relationships, lei, depth) :
                                    Jurisdiction[p] # Jurisdiction[lei]}

-----------------------------------------------------------------------------
(* Properties of the worksheet *)

Reviewed == case_state \in {"worksheet", "adjudication", "outcome", "closed"}
OnTheBasis == Reviewed /\ ~by_hand /\ request.at = "idle"

OfOneDiscovery ==
  /\ \A row \in findings \union ties : row.run = basis.run
  /\ \A t \in ties : t.kind = "own_affiliation_history" =>
       IF \E f \in findings : f.name = t.name THEN t.related = t.name
                                              ELSE t.related = NoFinding

\* What an analyst sees of a case that a reconciliation moved to the worksheet
\* is of that one reconciliation, whatever failed or died before it, and each
\* own-affiliation tie points to the finding about the same institution just
\* when there is one (pipeline.reconcile_case, the both-at-once join). A case
\* moved there by a transition from discovery may be of two: a reconciliation
\* can have died between the findings and the ties.
WorksheetIsWhole == OnTheBasis => OfOneDiscovery

\* Nothing discovered is lost: an institution that no declared affiliation
\* clears is a finding, one on a concern list is a tie, and one that is both is
\* both (reconcile, ties_from_own_affiliations). Nothing else is a finding.
NothingDiscoveredIsLost ==
  OnTheBasis =>
    /\ {f.name : f \in findings} =
         {n \in basis.discovered :
            \A a \in ToSet(Affiliations) : Score(n, a) < RECONCILIATION_THRESHOLD}
    /\ \A n \in basis.discovered : ListedOn[n] \intersect basis.lists # {} =>
         \E t \in ties : t.kind = "own_affiliation_history" /\ t.name = n

\* Unless another request replaced a GLEIF table meanwhile, the employer ties
\* are those of the files the request named: one for each listed parent that
\* an employer's chains end at, none without files; and where a tie does not
\* say truncated, nobody above that parent was left out (tie_from_ownership).
EmployerTiesAreBacked ==
  OnTheBasis /\ basis.undisturbed =>
    LET shown == {<<t.anchor, t.parent>> : t \in
                    {u \in ties : u.kind = "declared_employer_ultimate_parent"}}
    IN IF basis.file = NoFile THEN shown = {}
       ELSE /\ shown = {pair \in ToSet(Employers) \X basis.file.leis :
                 /\ LeiOf[pair[1]] \in basis.file.leis
                 /\ pair[2] \in Endpoints(basis.file.edges, LeiOf[pair[1]], MaxDepth)
                 /\ Listed(LegalName[pair[2]], basis.lists)}
            /\ \A t \in ties : t.parent # NoLei /\ ~t.truncated =>
                 Parents(basis.file.edges, t.parent)
                   \subseteq (UNION {ToSet(c) : c \in
                     Chains(basis.file.edges, LeiOf[t.anchor], MaxDepth)})
                       \union {LeiOf[t.anchor]}

\* Two rows that name a parent of the same legal name for one employer.
Twins(t, u) ==
  t.anchor = u.anchor /\ t.parent # u.parent /\ LegalName[t.parent] = LegalName[u.parent]

\* Two rows of different declared rows to which the client gave one id.
OfRepeatedId(t, u) ==
  /\ t.anchor # u.anchor /\ {t.anchor, u.anchor} \subseteq ToSet(Affiliations)
  /\ AffiliationId[t.anchor] = AffiliationId[u.anchor]

\* Nothing else makes an INSERT of a tie fail: the row that is next is refused
\* only for a twin, or for an affiliation_id that the declaration repeats; never
\* for what an earlier reconciliation left, or for another way to the same
\* entity (tie_id in discover.py, replace_ties).
ClashesAreTwinsOrRepeatedIds ==
  request.at = "insert_ties" /\ request.ties # <<>> =>
    \A t \in ties : TieKey(t) = TieKey(Head(request.ties)) =>
      Twins(t, Head(request.ties)) \/ OfRepeatedId(t, Head(request.ties))
=============================================================================
