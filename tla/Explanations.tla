---------------------------- MODULE Explanations ----------------------------
(***************************************************************************)
(* The explanations of a case's findings and ties: how one is drafted,     *)
(* checked, cached and served (explanation/), while reconciliations        *)
(* replace what they explain (case/store.py); and the two demo cases,      *)
(* which heal on the way of any request to them, with their explanations   *)
(* (case/demo.py, _ensure_demo_case_exists).                               *)
(*                                                                         *)
(* A request is a thread of its own and a statement commits by itself. It  *)
(* may die between two. Of a finding or a tie the tables keep what recite  *)
(* makes of it, for a sentence is drafted from, and cached under, nothing  *)
(* else; sha256 is taken for injective. What lets a case move is in        *)
(* CaseLifecycle: here any arrow may be taken. The tables of analysts'     *)
(* decisions, which a rebuild of a demo case wipes as well, are not here.  *)
(***************************************************************************)
EXTENDS Naturals, Sequences, FiniteSets, SequencesExt

CONSTANTS
  Cases,
  DemoCases,        \* those of them that heal, in the order they are built
  FindingIds, TieIds,
  CaseOf,           \* id -> case
  Recitations,
  Discoveries,      \* case -> version deployed -> what reconciling may find,
                    \* rows
  Responses,        \* what the remote model may answer
  MAX_RETRIES,
  DemoLiveSynthesis,    \* MONOPS_DEMO_LIVE_SYNTHESIS is set, and the API key
  Asks,             \* the requests that may come in
  FirstStates,      \* states the cases may start in, before the first request
  MaxVersion,       \* bounds: versions of the fixtures that get deployed,
  Workers,          \*   requests in progress at one time,
  MaxOverlaps,      \*   requests that start while another is in progress,
  MaxWrites,        \*   transitions and reconciliations,
  MaxCrashes        \*   deaths of the process, to be replaced or not

Ids == FindingIds \union TieIds
NoCase == "no case"
States == {"intake", "declaration_assembly", "discovery", "worksheet",
           "adjudication", "outcome", "closed"}
RECONCILE_ALLOWED_STATES == {"intake", "declaration_assembly", "discovery"}

\* A text block of a response: has it text, and do its citations resolve in
\* the document the model was given.
Blocks == [text : BOOLEAN, citations : SUBSET {"resolves", "misses"}]
ResponseRecords == [blocks : Seq(Blocks), clean : BOOLEAN]
NoSentence == [blocks |-> <<>>, clean |-> TRUE]

\* A row of findings or of concern_ties: the id and what recite makes of it.
Rows == Ids \X Recitations

\* A request: its route, and what it names.
Operations == {"read", "explain", "transition", "reconcile"}
NoRequest == [op |-> "none", case |-> "none", id |-> "none", target |-> NoCase]
AskedRecords ==
  [op : Operations, case : Cases, id : Ids \union {"none"},
   target : States \union {NoCase}]

ASSUME InputAssumption ==
  /\ DemoCases \in Seq(Cases) /\ IsInjective(DemoCases)
  /\ FindingIds \intersect TieIds = {}
  /\ CaseOf \in [Ids -> Cases]
  /\ MaxVersion \in Nat \ {0}
  /\ Discoveries \in [Cases -> [1..MaxVersion -> SUBSET SUBSET Rows]]
  /\ \A c \in Cases, v \in 1..MaxVersion : \A found \in Discoveries[c][v] :
       /\ IsFiniteSet(found)
       /\ \A row \in found : CaseOf[row[1]] = c /\ {r \in found : r[1] = row[1]} = {row}
  /\ \A c \in ToSet(DemoCases), v \in 1..MaxVersion :   \* whoever asks, the bundled fixtures
       \E found \in Discoveries[c][v] : Discoveries[c][v] = {found}
  /\ Responses \subseteq ResponseRecords /\ MAX_RETRIES \in Nat
  /\ DemoLiveSynthesis \in BOOLEAN
  /\ Asks \subseteq AskedRecords
  /\ FirstStates \subseteq [Cases -> States \union {NoCase}]

VARIABLES
  cases,            \* state of each case that has a row
  findings, ties,   \* rows of the two tables
  explanations,     \* rows, at most one for each id and hash
  marker,           \* demo_meta fixture_version, 0 for none
  deployed,         \* DEMO_FIXTURE_VERSION of the code that runs
  worker,           \* what each request is doing
  overlaps, writes, crashes,
  spoiled,          \* history: a rebuild broke off, or a POST reconcile overlapped
                    \* another request, and no lone rebuild came after that
  raced             \* history: two POST reconciles overlapped

tables == <<cases, findings, ties, explanations, marker>>
bounds == <<overlaps, writes, crashes>>
history == <<spoiled, raced>>
vars == <<tables, deployed, worker, bounds, history>>

\* What a hash is of: the recitation of the observation, and how often each
\* recitation is among the others of the case.
Documents == [primary : Recitations, context : [Recitations -> Nat]]
ExplanationRows ==
  [of : Ids, hash : Documents,
   sentence : ResponseRecords,     \* the response that became the sentence
   about : Documents]              \* history: what it was drafted from

Labels ==
  {"idle", "look_case", "look_marker", "wipe_findings", "wipe_ties",
   "wipe_explanations", "delete_case", "insert_case", "reconcile_loads",
   "old_ids", "delete_rows", "insert_rows", "drop_explanations",
   "explain_loads", "load_findings", "load_ties", "next_observation",
   "load_cached", "generate", "delete_explanation", "insert_explanation",
   "answer", "delete_marker", "insert_marker", "route"}

WorkerRecords ==
  [at : Labels,
   phase : {"route", "build", "explain"},  \* of the rebuild, or the route itself
   asked : AskedRecords \union {NoRequest},
   left : Seq(ToSet(DemoCases)),           \* cases the phase is not done with
   target : States \union {NoCase},        \* what save_case will write
   table : {"findings", "ties"},
   rows : SUBSET Rows,     \* found, still to insert
   found : SUBSET Rows,
   gone : SUBSET Ids,                      \* ids the reconciliation removes
   loaded : SUBSET Rows,   \* of the case, as read
   todo : Seq(Ids),                        \* observations still to explain
   attempt : Nat,
   sentence : ResponseRecords,
   answer : ExplanationRows \union {NoRequest},
   alone : BOOLEAN]       \* history: no other request since the rebuild began

Idle ==
  [at |-> "idle", phase |-> "route", asked |-> NoRequest, left |-> <<>>,
   target |-> NoCase, table |-> "findings", rows |-> {}, found |-> {},
   gone |-> {}, loaded |-> {}, todo |-> <<>>, attempt |-> 0,
   sentence |-> NoSentence, answer |-> NoRequest, alone |-> FALSE]

ExplanationsTypeOK ==
  /\ cases \in [Cases -> States \union {NoCase}]
  /\ findings \subseteq FindingIds \X Recitations
  /\ ties \subseteq TieIds \X Recitations
  /\ explanations \subseteq ExplanationRows
  /\ marker \in 0..MaxVersion /\ deployed \in 1..MaxVersion
  /\ worker \in [Workers -> WorkerRecords]
  /\ overlaps \in Nat /\ writes \in Nat /\ crashes \in Nat
  /\ spoiled \in BOOLEAN /\ raced \in BOOLEAN

\* A case that was reconciled has the observations of it.
Init ==
  /\ cases \in FirstStates
  /\ \E found \in [Cases -> (UNION {Discoveries[c][1] : c \in Cases}) \union {{}}] :
       /\ \A c \in Cases :
            IF cases[c] \in {NoCase, "intake", "declaration_assembly"}
            THEN found[c] = {} ELSE found[c] \in Discoveries[c][1]
       /\ findings = {row \in UNION {found[c] : c \in Cases} : row[1] \in FindingIds}
       /\ ties = {row \in UNION {found[c] : c \in Cases} : row[1] \in TieIds}
  /\ explanations = {}
  /\ marker = 0 /\ deployed = 1
  /\ worker = [k \in Workers |-> Idle]
  /\ overlaps = 0 /\ writes = 0 /\ crashes = 0
  /\ spoiled = FALSE /\ raced = FALSE

-----------------------------------------------------------------------------
(* Helpers *)

IsDemo(case) == case \in ToSet(DemoCases)
Busy == {k \in Workers : worker[k].at # "idle"}

\* The case in hand: of the rebuild, or of the request.
CaseIn(k) == IF worker[k].phase = "route" THEN worker[k].asked.case ELSE Head(worker[k].left)

At(k, label) == worker[k].at = label
Become(k, record) == worker' = [worker EXCEPT ![k] = record]
GoTo(k, label) == Become(k, [worker[k] EXCEPT !.at = label])

\* Past its checks, a request that writes more than the row of the case.
Writes(k) ==
  \/ worker[k].phase # "route"
  \/ worker[k].at \in {"delete_rows", "insert_rows", "drop_explanations", "old_ids",
                       "delete_explanation", "insert_explanation"}
  \/ worker[k].asked.op = "reconcile" /\ worker[k].at \in {"delete_case", "insert_case"}

\* The response is sent.
Finish(k) == Become(k, Idle) /\ UNCHANGED history
\* An exception ends the request where it is; what it wrote stays.
Fail(k) == Become(k, Idle) /\ spoiled' = (spoiled \/ Writes(k)) /\ UNCHANGED raced

IdsOf(rows) == {row[1] : row \in rows}
OfCase(rows, case) == {row \in rows : CaseOf[row[1]] = case}

\* The document generate_synthesis sends, its order and marks left out:
\* _case_context_for makes all else in the case the context.
DocumentOf(id, loaded) ==
  [primary |-> (CHOOSE row \in loaded : row[1] = id)[2],
   context |-> [text \in Recitations |->
                  Cardinality({row \in loaded : row[1] # id /\ row[2] = text})]]

\* Mutated form: the context is left out of the key (M17).
EvidenceHash_PrimaryOnly(id, loaded) ==
  [DocumentOf(id, loaded) EXCEPT !.context = [text \in Recitations |-> 0]]

\* evidence_hash_for
EvidenceHash(id, loaded) == DocumentOf(id, loaded)

Cached(id, hash) == {x \in explanations : x.of = id /\ x.hash = hash}

-----------------------------------------------------------------------------
(* A request comes in *)

Ask(k, asked) ==
  /\ At(k, "idle")
  /\ Busy # {} => overlaps < MaxOverlaps
  /\ overlaps' = IF Busy # {} THEN overlaps + 1 ELSE overlaps
  /\ asked.op \in {"transition", "reconcile"} => writes < MaxWrites
  /\ writes' = IF asked.op \in {"transition", "reconcile"} THEN writes + 1 ELSE writes
  /\ worker' = [j \in Workers |->
       IF j = k THEN [Idle EXCEPT !.asked = asked, !.left = DemoCases,
                                  !.at = IF IsDemo(asked.case) THEN "look_case" ELSE "route"]
       ELSE [worker[j] EXCEPT !.alone = FALSE]]
  /\ LET reconciling == {j \in Busy : worker[j].asked.op = "reconcile"}
     IN /\ raced' = (raced \/ (asked.op = "reconcile" /\ reconciling # {}))
        /\ spoiled' = (\/ spoiled
                       \/ asked.op = "reconcile" /\ Busy # {}
                       \/ reconciling # {})
  /\ UNCHANGED <<tables, deployed, crashes>>

-----------------------------------------------------------------------------
(* _ensure_demo_case_exists *)

Rebuild(k) ==
  Become(k, [worker[k] EXCEPT !.phase = "build", !.left = DemoCases,
                              !.at = "wipe_findings", !.alone = (Busy = {k})])

\* Is the row of each demo case there?
LookForCase(k) ==
  /\ At(k, "look_case")
  /\ IF worker[k].left = <<>> THEN GoTo(k, "look_marker")
     ELSE IF cases[Head(worker[k].left)] = NoCase THEN Rebuild(k)
     ELSE Become(k, [worker[k] EXCEPT !.left = Tail(@)])
  /\ UNCHANGED <<tables, deployed, bounds, history>>

\* Was the database built by this version?
LookForMarker(k) ==
  /\ At(k, "look_marker")
  /\ IF marker = deployed THEN GoTo(k, "route") ELSE Rebuild(k)
  /\ UNCHANGED <<tables, deployed, bounds, history>>

\* build_demo_case, build_demo_coi_case: the tables of the case, then the case.
WipeFindings(k) ==
  /\ At(k, "wipe_findings")
  /\ findings' = findings \ OfCase(findings, CaseIn(k))
  /\ GoTo(k, "wipe_ties")
  /\ UNCHANGED <<cases, ties, explanations, marker, deployed, bounds, history>>

WipeTies(k) ==
  /\ At(k, "wipe_ties")
  /\ ties' = ties \ OfCase(ties, CaseIn(k))
  /\ GoTo(k, "wipe_explanations")
  /\ UNCHANGED <<cases, findings, explanations, marker, deployed, bounds, history>>

WipeExplanations(k) ==
  /\ At(k, "wipe_explanations")
  /\ explanations' = {x \in explanations : CaseOf[x.of] # CaseIn(k)}
  /\ Become(k, [worker[k] EXCEPT !.at = "delete_case", !.target = "intake"])
  /\ UNCHANGED <<cases, findings, ties, marker, deployed, bounds, history>>

SavesSubject(k) ==
  At(k, "delete_case") /\ worker[k].phase = "build" /\ worker[k].target = "intake"

\* The subject and the declaration are saved before the case, in the same way,
\* and the two demo cases share the subject: while another rebuild saves them,
\* they can be missing, or there already.
SaveCollides(k) ==
  /\ SavesSubject(k) \/ (At(k, "reconcile_loads") /\ IsDemo(CaseIn(k)))
  /\ \E j \in Workers \ {k} : SavesSubject(j)
  /\ Fail(k)
  /\ UNCHANGED <<tables, deployed, bounds>>

\* A case is reconciled: the next of the rebuild, which explains them after
\* the last; or the response.
AfterReconcile(k) ==
  IF worker[k].phase = "route" THEN Become(k, Idle)
  ELSE IF Tail(worker[k].left) # <<>>
  THEN Become(k, [worker[k] EXCEPT !.left = Tail(@), !.at = "wipe_findings"])
  ELSE Become(k, [worker[k] EXCEPT !.phase = "explain", !.left = DemoCases,
                                   !.at = "explain_loads"])

\* Mutated form: the row is marked and not removed.
DeleteCase_Marked(k) ==
  /\ At(k, "delete_case")
  /\ cases' = [cases EXCEPT ![CaseIn(k)] = "deleted"]
  /\ GoTo(k, "insert_case")
  /\ UNCHANGED <<findings, ties, explanations, marker, deployed, bounds, history>>

\* save_case
DeleteCase(k) ==
  /\ At(k, "delete_case")
  /\ cases' = [cases EXCEPT ![CaseIn(k)] = NoCase]
  /\ GoTo(k, "insert_case")
  /\ UNCHANGED <<findings, ties, explanations, marker, deployed, bounds, history>>

InsertCase(k) ==
  /\ At(k, "insert_case")
  /\ IF cases[CaseIn(k)] # NoCase THEN Fail(k) /\ UNCHANGED cases
     ELSE /\ cases' = [cases EXCEPT ![CaseIn(k)] = worker[k].target]
          /\ IF worker[k].phase = "build" /\ worker[k].target = "intake"
             THEN GoTo(k, "reconcile_loads") ELSE AfterReconcile(k)
          /\ UNCHANGED history
  /\ UNCHANGED <<findings, ties, explanations, marker, deployed, bounds>>

\* Mutated form: the marker is not written again.
InsertMarkerNot(k) ==
  /\ At(k, "insert_marker")
  /\ Become(k, [worker[k] EXCEPT !.phase = "route", !.at = "route"])
  /\ UNCHANGED <<tables, deployed, bounds, history>>

DeleteMarker(k) ==
  /\ At(k, "delete_marker")
  /\ marker' = 0
  /\ GoTo(k, "insert_marker")
  /\ UNCHANGED <<cases, findings, ties, explanations, deployed, bounds, history>>

\* The rebuild is done, and the request goes on.
InsertMarker(k) ==
  /\ At(k, "insert_marker")
  /\ IF marker # 0 THEN Fail(k) /\ UNCHANGED marker
     ELSE /\ marker' = deployed
          /\ spoiled' = (spoiled /\ ~worker[k].alone)
          /\ Become(k, [worker[k] EXCEPT !.phase = "route", !.at = "route"])
          /\ UNCHANGED raced
  /\ UNCHANGED <<cases, findings, ties, explanations, deployed, bounds>>

-----------------------------------------------------------------------------
(* POST transition, POST reconcile, pipeline.reconcile_case *)

Arrows ==
  {<<"intake", "declaration_assembly">>, <<"declaration_assembly", "discovery">>,
   <<"discovery", "worksheet">>, <<"worksheet", "adjudication">>,
   <<"adjudication", "outcome">>, <<"adjudication", "worksheet">>,
   <<"outcome", "closed">>, <<"closed", "discovery">>}

RouteTransition(k) ==
  /\ At(k, "route") /\ worker[k].asked.op = "transition"
  /\ LET target == worker[k].asked.target
     IN IF <<cases[CaseIn(k)], target>> \in Arrows
        THEN Become(k, [worker[k] EXCEPT !.at = "delete_case", !.target = target])
        ELSE Become(k, Idle)
  /\ UNCHANGED <<tables, deployed, bounds, history>>

RouteReconcile(k) ==
  /\ At(k, "route") /\ worker[k].asked.op = "reconcile"
  /\ IF cases[CaseIn(k)] \in RECONCILE_ALLOWED_STATES
     THEN GoTo(k, "reconcile_loads") ELSE Become(k, Idle)
  /\ UNCHANGED <<tables, deployed, bounds, history>>

\* The case is loaded again; what will be found of it is chosen here.
ReconcileLoads(k) ==
  /\ At(k, "reconcile_loads")
  /\ IF cases[CaseIn(k)] = NoCase THEN Fail(k)
     ELSE /\ \E found \in Discoveries[CaseIn(k)][deployed] :
               Become(k, [worker[k] EXCEPT
                 !.at = "old_ids", !.table = "findings", !.found = found,
                 !.target = IF cases[CaseIn(k)] \in RECONCILE_ALLOWED_STATES
                            THEN "worksheet" ELSE NoCase])
          /\ UNCHANGED history
  /\ UNCHANGED <<tables, deployed, bounds>>

\* replace_findings, then replace_ties.
TableOf(k) == IF worker[k].table = "findings" THEN findings ELSE ties
IdsFor(k) == IF worker[k].table = "findings" THEN FindingIds ELSE TieIds
WriteTable(k, rows) ==
  IF worker[k].table = "findings" THEN findings' = rows /\ UNCHANGED ties
                                  ELSE ties' = rows /\ UNCHANGED findings

\* Mutated form: all the old ids count as removed.
OldIds_AllGone(k) ==
  /\ At(k, "old_ids")
  /\ LET new == {row \in worker[k].found : row[1] \in IdsFor(k)}
     IN Become(k, [worker[k] EXCEPT
          !.at = "delete_rows", !.rows = new,
          !.gone = IdsOf(OfCase(TableOf(k), CaseIn(k)))])
  /\ UNCHANGED <<tables, deployed, bounds, history>>

OldIds(k) ==
  /\ At(k, "old_ids")
  /\ LET new == {row \in worker[k].found : row[1] \in IdsFor(k)}
     IN Become(k, [worker[k] EXCEPT
          !.at = "delete_rows", !.rows = new,
          !.gone = IdsOf(OfCase(TableOf(k), CaseIn(k))) \ IdsOf(new)])
  /\ UNCHANGED <<tables, deployed, bounds, history>>

DeleteRows(k) ==
  /\ At(k, "delete_rows")
  /\ WriteTable(k, TableOf(k) \ OfCase(TableOf(k), CaseIn(k)))
  /\ GoTo(k, "insert_rows")
  /\ UNCHANGED <<cases, explanations, marker, deployed, bounds, history>>

\* executemany, in some order of the rows; an id that is there is refused.
InsertRow(k) ==
  /\ At(k, "insert_rows")
  /\ IF worker[k].rows = {}
     THEN GoTo(k, "drop_explanations") /\ UNCHANGED <<findings, ties, history>>
     ELSE LET row == CHOOSE r \in worker[k].rows : TRUE
          IN IF row[1] \in IdsOf(TableOf(k))
             THEN Fail(k) /\ UNCHANGED <<findings, ties>>
             ELSE /\ WriteTable(k, TableOf(k) \union {row})
                  /\ Become(k, [worker[k] EXCEPT !.rows = @ \ {row}])
                  /\ UNCHANGED history
  /\ UNCHANGED <<cases, explanations, marker, deployed, bounds>>

\* The DELETEs, one per removed id, are taken as one.
DropExplanations(k) ==
  /\ At(k, "drop_explanations")
  /\ explanations' = {x \in explanations : x.of \notin worker[k].gone}
  /\ IF worker[k].table = "findings"
     THEN Become(k, [worker[k] EXCEPT !.at = "old_ids", !.table = "ties", !.gone = {}])
     ELSE IF worker[k].target # NoCase THEN GoTo(k, "delete_case")
     ELSE AfterReconcile(k)
  /\ UNCHANGED <<cases, findings, ties, marker, deployed, bounds, history>>

-----------------------------------------------------------------------------
(* GET and POST explanation, and the explanations of a rebuilt demo case *)

RouteExplain(k) ==
  /\ At(k, "route") /\ worker[k].asked.op \in {"read", "explain"}
  /\ IF cases[CaseIn(k)] = NoCase THEN Become(k, Idle) ELSE GoTo(k, "load_findings")
  /\ UNCHANGED <<tables, deployed, bounds, history>>

\* The rebuild loads a case it has just reconciled.
ExplainLoads(k) ==
  /\ At(k, "explain_loads")
  /\ IF cases[CaseIn(k)] = NoCase THEN Fail(k)
     ELSE GoTo(k, "load_findings") /\ UNCHANGED history
  /\ UNCHANGED <<tables, deployed, bounds>>

LoadFindings(k) ==
  /\ At(k, "load_findings")
  /\ Become(k, [worker[k] EXCEPT !.at = "load_ties", !.loaded = OfCase(findings, CaseIn(k))])
  /\ UNCHANGED <<tables, deployed, bounds, history>>

\* Mutated form: only the findings of a rebuilt case are explained.
LoadTies_FindingsExplained(k) ==
  /\ At(k, "load_ties")
  /\ LET loaded == worker[k].loaded \union OfCase(ties, CaseIn(k))
     IN Become(k, [worker[k] EXCEPT
          !.at = "next_observation", !.loaded = loaded,
          !.todo = IF worker[k].phase = "explain" THEN SetToSeq(IdsOf(worker[k].loaded))
                   ELSE IF worker[k].asked.id \in IdsOf(loaded) THEN <<worker[k].asked.id>>
                   ELSE <<>>])
  /\ UNCHANGED <<tables, deployed, bounds, history>>

\* One observation was asked for, and may be missing; or all are to be done.
LoadTies(k) ==
  /\ At(k, "load_ties")
  /\ LET loaded == worker[k].loaded \union OfCase(ties, CaseIn(k))
     IN Become(k, [worker[k] EXCEPT
          !.at = "next_observation", !.loaded = loaded,
          !.todo = IF worker[k].phase = "explain" THEN SetToSeq(IdsOf(loaded))
                   ELSE IF worker[k].asked.id \in IdsOf(loaded) THEN <<worker[k].asked.id>>
                   ELSE <<>>])
  /\ UNCHANGED <<tables, deployed, bounds, history>>

\* None left: the next case, or the marker; a request without any gets a 404.
NextObservation(k) ==
  /\ At(k, "next_observation")
  /\ IF worker[k].todo # <<>> THEN GoTo(k, "load_cached")
     ELSE IF worker[k].phase = "route" THEN Become(k, Idle)
     ELSE IF Tail(worker[k].left) # <<>>
     THEN Become(k, [worker[k] EXCEPT !.left = Tail(@), !.at = "explain_loads", !.loaded = {}])
     ELSE Become(k, [worker[k] EXCEPT !.at = "delete_marker", !.left = <<>>, !.loaded = {}])
  /\ UNCHANGED <<tables, deployed, bounds, history>>

Observation(k) == Head(worker[k].todo)
HashInHand(k) == EvidenceHash(Observation(k), worker[k].loaded)

\* What explain returns is the response, or one of those of the rebuild.
Explained(k, row) ==
  IF worker[k].phase = "route"
  THEN Become(k, [worker[k] EXCEPT !.at = "answer", !.answer = row, !.attempt = 0,
                                   !.sentence = NoSentence])
  ELSE Become(k, [worker[k] EXCEPT !.at = "next_observation", !.todo = Tail(@),
                                   !.attempt = 0, !.sentence = NoSentence])

\* Only a POST, or the rebuild, generates what is not cached.
LoadCached(k) ==
  /\ At(k, "load_cached")
  /\ LET cached == Cached(Observation(k), HashInHand(k))
     IN IF cached # {} THEN Explained(k, CHOOSE x \in cached : TRUE)
        ELSE IF worker[k].asked.op = "read" /\ worker[k].phase = "route" THEN Become(k, Idle)
        ELSE GoTo(k, "generate")
  /\ UNCHANGED <<tables, deployed, bounds, history>>

HasText(response) == \E i \in DOMAIN response.blocks : response.blocks[i].text

\* Mutated form: the citations of all blocks are pooled (B1).
IsGrounded_Pooled(response) ==
  /\ \E i \in DOMAIN response.blocks : response.blocks[i].citations # {}
  /\ \A i \in DOMAIN response.blocks : "misses" \notin response.blocks[i].citations

\* _is_grounded, block by block.
IsGrounded(response) ==
  \A i \in DOMAIN response.blocks :
    /\ response.blocks[i].text => response.blocks[i].citations # {}
    /\ "misses" \notin response.blocks[i].citations

\* One call of generate_synthesis. Without the opt-in a rebuild makes none: it
\* gets a response with nothing in it each time.
Generate(k) ==
  /\ At(k, "generate")
  /\ \E response \in IF worker[k].phase = "route" \/ DemoLiveSynthesis
                     THEN Responses ELSE {NoSentence} :
       IF HasText(response) /\ IsGrounded(response) /\ response.clean
       THEN Become(k, [worker[k] EXCEPT !.at = "delete_explanation", !.sentence = response])
       ELSE IF worker[k].attempt < MAX_RETRIES
       THEN Become(k, [worker[k] EXCEPT !.attempt = @ + 1])
       ELSE GoTo(k, "delete_explanation")
  /\ UNCHANGED <<tables, deployed, bounds, history>>

\* The call itself fails: a 502, or the end of the rebuild.
GenerateFails(k) ==
  /\ At(k, "generate") /\ (worker[k].phase = "route" \/ DemoLiveSynthesis)
  /\ Fail(k)
  /\ UNCHANGED <<tables, deployed, bounds>>

\* save_explanation
DeleteExplanation(k) ==
  /\ At(k, "delete_explanation")
  /\ explanations' = explanations \ Cached(Observation(k), HashInHand(k))
  /\ GoTo(k, "insert_explanation")
  /\ UNCHANGED <<cases, findings, ties, marker, deployed, bounds, history>>

\* The unique index refuses the second of two that were generated at once.
InsertExplanation(k) ==
  /\ At(k, "insert_explanation")
  /\ LET row == [of |-> Observation(k), hash |-> HashInHand(k),
                 sentence |-> worker[k].sentence,
                 about |-> DocumentOf(Observation(k), worker[k].loaded)]
     IN IF Cached(row.of, row.hash) # {} THEN Fail(k) /\ UNCHANGED explanations
        ELSE /\ explanations' = explanations \union {row}
             /\ Explained(k, row)
             /\ UNCHANGED history
  /\ UNCHANGED <<cases, findings, ties, marker, deployed, bounds>>

Answer(k) ==
  /\ At(k, "answer")
  /\ Finish(k)
  /\ UNCHANGED <<tables, deployed, bounds>>

-----------------------------------------------------------------------------
(* The process dies, or is replaced by the next version. *)

Crash ==
  /\ Busy # {}
  /\ crashes < MaxCrashes /\ crashes' = crashes + 1
  /\ worker' = [k \in Workers |-> Idle]
  /\ spoiled' = (spoiled \/ \E k \in Busy : Writes(k))
  /\ UNCHANGED <<tables, deployed, overlaps, writes, raced>>

Deploy ==
  /\ deployed < MaxVersion /\ deployed' = deployed + 1
  /\ crashes < MaxCrashes /\ crashes' = crashes + 1
  /\ worker' = [k \in Workers |-> Idle]
  /\ spoiled' = (spoiled \/ \E k \in Busy : Writes(k))
  /\ UNCHANGED <<tables, overlaps, writes, raced>>

Step(k) ==
  \/ LookForCase(k) \/ LookForMarker(k)
  \/ WipeFindings(k) \/ WipeTies(k) \/ WipeExplanations(k)
  \/ SaveCollides(k) \/ DeleteCase(k) \/ InsertCase(k) \/ DeleteMarker(k) \/ InsertMarker(k)
  \/ RouteTransition(k) \/ RouteReconcile(k) \/ ReconcileLoads(k)
  \/ OldIds(k) \/ DeleteRows(k) \/ InsertRow(k) \/ DropExplanations(k)
  \/ RouteExplain(k) \/ ExplainLoads(k) \/ LoadFindings(k) \/ LoadTies(k)
  \/ NextObservation(k) \/ LoadCached(k) \/ Generate(k) \/ GenerateFails(k)
  \/ DeleteExplanation(k) \/ InsertExplanation(k) \/ Answer(k)

Next ==
  \/ \E k \in Workers : \/ \E asked \in Asks : Ask(k, asked)
                        \/ Step(k)
  \/ Crash \/ Deploy

Spec == Init /\ [][Next]_vars

\* A thread at work takes its next step, a call to the model returns or fails.
FairSpec == Spec /\ \A k \in Workers : WF_vars(Step(k))

\* Visitors keep asking for the demo's explanations, at times one by one.
LoneVisit ==
  \E k \in Workers, asked \in Asks :
    Busy = {} /\ asked.op = "read" /\ IsDemo(asked.case) /\ Ask(k, asked)
VisitedSpec == FairSpec /\ WF_vars(LoneVisit)

-----------------------------------------------------------------------------
(* Properties *)

\* An explanation that is served was drafted from just what the request read
\* of the case, the observation and all else in it: never from what they were
\* under the same ids before a reconciliation (evidence_hash_for).
ServedForTheEvidence ==
  \A k \in Workers : At(k, "answer") =>
    /\ worker[k].answer.of = worker[k].asked.id
    /\ worker[k].answer.about = DocumentOf(worker[k].asked.id, worker[k].loaded)

\* No sentence is kept with a block of text that cites nothing, a citation that
\* does not resolve, or a forbidden word, however often the model was asked:
\* so MatchExplanation's own checks never raise.
SentencesAreGrounded ==
  \A x \in explanations : x.sentence # NoSentence =>
    /\ x.sentence.clean /\ HasText(x.sentence)
    /\ \A i \in DOMAIN x.sentence.blocks :
         LET block == x.sentence.blocks[i]
         IN block.citations \subseteq {"resolves"} /\ (block.text => block.citations # {})

\* What was generated for a case's present evidence, and paid for, stays cached
\* through later reconciliations: no row of an observation that the case has
\* goes but when the same is saved anew, or the demo is rebuilt. Unless two
\* reconciliations overlap (S5, replace_findings).
CachedCarriesForward ==
  [][\A x \in explanations \ explanations' : raced
       \/ x.of \notin IdsOf(findings \union ties)
       \/ \E k \in Workers : \/ At(k, "delete_explanation") /\ Observation(k) = x.of
                             \/ At(k, "wipe_explanations")]_vars

\* Every demo case has the observations of the fixtures deployed, and each of
\* them an explanation a visitor's GET will find.
DemoIsWhole ==
  \A c \in ToSet(DemoCases) :
    LET shown == OfCase(findings \union ties, c)
    IN /\ shown \in Discoveries[c][deployed]
       /\ \A id \in IdsOf(shown) : Cached(id, EvidenceHash(id, shown)) # {}

\* With the marker of the running version and both rows in place, which is all
\* that is looked at, the demo is whole, whatever visits and analysts' requests
\* overlapped and whatever died; unless a rebuild, or another request that
\* writes observations or explanations, broke off, or a POST reconcile ran into
\* another request, and no lone rebuild came after it
\* (_ensure_demo_case_exists).
MarkedDemoIsWhole ==
  /\ Busy = {} /\ ~spoiled
  /\ marker = deployed /\ \A c \in ToSet(DemoCases) : cases[c] # NoCase
  => DemoIsWhole

\* Visitors who come one by one after all overlaps, deaths and deployments get
\* the demo rebuilt for the version that runs, and then it stays.
DemoHeals ==
  <>[](marker = deployed /\ \A c \in ToSet(DemoCases) : cases[c] # NoCase)
=============================================================================
