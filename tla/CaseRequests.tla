---------------------------- MODULE CaseRequests ----------------------------
(***************************************************************************)
(* The requests of one case, one SQL statement at a time. Every route is a *)
(* synchronous function that the server runs in a thread of its own, with  *)
(* a database connection of its own and no transaction: a statement is     *)
(* atomic, a request is not, and what a request read may be out of date    *)
(* when it writes. The process may also die between two statements.        *)
(*                                                                         *)
(* The tables are the variables of CaseLifecycle. A request that is        *)
(* refused by its first read changes nothing and is no step here.          *)
(***************************************************************************)
EXTENDS CaseLifecycle, Functions

CONSTANTS
  Requests,          \* the requests that can be in progress at one time
  MaxAppends,        \* bound: rows of certifications, and of case_outcomes
  MaxCrashes         \* bound: how often the process dies

Labels == {"idle", "delete_subject", "insert_subject", "delete_declaration",
           "insert_declaration", "delete_case", "insert_case",
           "worksheet", "load_findings", "effective_actions", "load_ties",
           "effective_tie_actions", "check_adjudication", "check_outcome",
           "load_case", "load_subject", "load_declaration", "old_findings",
           "delete_findings", "insert_findings", "old_ties", "delete_ties", "insert_ties",
           "write_manifest", "known_ids", "insert_actions", "insert_certification",
           "known_ties", "insert_tie_action", "next_tie",
           "next_seq", "insert_adjudication", "insert_outcome",
           "find_primary", "load_cached", "save_explanation"}

Operations == {"none", "create", "transition", "reconcile", "act", "act_on_ties",
               "adjudicate", "certify", "outcome", "explain"}

IntakeRows == {"subject", "declaration"}

Ids == FindingIds \union TieIds

RequestRecords ==
  [at     : Labels,                    \* the next statement
   op     : Operations,                \* the route
   target : States \union {NoCase},    \* the state save_case will write
   ids    : SUBSET Ids,                \* findings to insert, or ids not disposed of
   rows   : Seq(FindingIds),           \* findings a client acts on, in its order
   tied   : Seq(TieIds),               \* ties to insert, or that a client acts on
   gone   : SUBSET Ids,                \* ids reconciliation removes
   seq    : Nat]                       \* the adjudication number read

Idle == [at |-> "idle", op |-> "none", target |-> NoCase,
         ids |-> {}, rows |-> <<>>, tied |-> <<>>, gone |-> {}, seq |-> 0]

VARIABLES
  intake,            \* the rows of subjects and declarations the case has
  request,           \* what each request is doing
  created,           \* history: a create_case has inserted the case
  accepted,          \* history: adjudication INSERTs that succeeded
  crashes            \* how often the process died

history == <<created, accepted, crashes>>
requestVars == <<vars, intake, request, history>>

RequestsTypeOK ==
  /\ TypeOK
  /\ intake \subseteq IntakeRows
  /\ request \in [Requests -> RequestRecords]
  /\ created \in BOOLEAN
  /\ accepted \in Nat
  /\ crashes \in Nat

RequestsInit ==
  /\ Init
  /\ intake = {}
  /\ request = [r \in Requests |-> Idle]
  /\ created = FALSE /\ accepted = 0 /\ crashes = 0

-----------------------------------------------------------------------------
At(r, label) == request[r].at = label

\* Request r starts operation op, with its first statement behind it.
Starts(r, op, label, target, ids) ==
  request' = [request EXCEPT ![r] = [Idle EXCEPT !.op = op, !.at = label,
                                                 !.target = target, !.ids = ids]]

\* The same for a request that names a list of findings, or of ties.
StartsWith(r, op, label, rows, tied) ==
  request' = [request EXCEPT ![r] = [Idle EXCEPT !.op = op, !.at = label,
                                                 !.rows = rows, !.tied = tied]]

GoesTo(r, label) == request' = [request EXCEPT ![r].at = label]

GoesWith(r, label, ids) ==
  request' = [request EXCEPT ![r].at = label, ![r].ids = ids]

\* The next statement, with what is left of the lists.
GoesOn(r, label, rows, tied) ==
  request' = [request EXCEPT ![r].at = label, ![r].rows = rows, ![r].tied = tied]

\* The response is sent, or an exception ends the request.
Ends(r) == request' = [request EXCEPT ![r] = Idle]

Reads == UNCHANGED <<vars, intake, history>>

-----------------------------------------------------------------------------
(***************************************************************************)
(* save_case: a DELETE, then an INSERT under the primary key case_id       *)
(***************************************************************************)

\* Mutated form: reconciliation deletes the row and does not insert it again.
DeleteCase_Reconciling(r) ==
  /\ At(r, "delete_case")
  /\ state' = NoCase
  /\ GoesTo(r, IF request[r].op = "reconcile" THEN "write_manifest" ELSE "insert_case")
  /\ UNCHANGED <<case_kind, observations, actionTables, records, closures, intake, history>>

DeleteCase(r) ==
  /\ At(r, "delete_case")
  /\ state' = NoCase
  /\ GoesTo(r, "insert_case")
  /\ UNCHANGED <<case_kind, observations, actionTables, records, closures, intake, history>>

\* Another request may have inserted the row first: the key is violated.
InsertCase(r) ==
  /\ At(r, "insert_case")
  /\ IF state = NoCase
     THEN /\ state' = request[r].target
          /\ closures' = IF request[r].target = "closed" THEN closures + 1 ELSE closures
          /\ created' = TRUE
          /\ IF request[r].op = "reconcile" THEN GoesTo(r, "write_manifest") ELSE Ends(r)
     ELSE Ends(r) /\ UNCHANGED <<state, closures, created>>
  /\ UNCHANGED <<case_kind, observations, actionTables, records, intake, accepted, crashes>>

-----------------------------------------------------------------------------
(***************************************************************************)
(* POST /cases: the rows of the subject and of the declaration are written *)
(* as save_case writes its own, and the case comes last.                   *)
(***************************************************************************)

CreateLooks(r) ==
  /\ At(r, "idle") /\ state = NoCase
  /\ Starts(r, "create", "delete_subject", "declaration_assembly", {})
  /\ Reads

\* A DELETE or an INSERT on one of the two tables; each has a primary key.
Removes(r, label, row, next) ==
  /\ At(r, label)
  /\ intake' = intake \ {row}
  /\ GoesTo(r, next)
  /\ UNCHANGED <<vars, history>>

Adds(r, label, row, next) ==
  /\ At(r, label)
  /\ intake' = intake \union {row}
  /\ IF row \in intake THEN Ends(r) ELSE GoesTo(r, next)
  /\ UNCHANGED <<vars, history>>

DeleteSubject(r) == Removes(r, "delete_subject", "subject", "insert_subject")
InsertSubject(r) == Adds(r, "insert_subject", "subject", "delete_declaration")
DeleteDeclaration(r) ==
  Removes(r, "delete_declaration", "declaration", "insert_declaration")
InsertDeclaration(r) == Adds(r, "insert_declaration", "declaration", "delete_case")

-----------------------------------------------------------------------------
(***************************************************************************)
(* POST /cases/{id}/transition                                             *)
(***************************************************************************)

\* Mutated form: a case is closed without a look at its outcomes.
FirstCheck_ForgetsOutcome(from, target) ==
  CASE from = "worksheet"                             -> "worksheet"
    [] from = "adjudication" /\ target = "outcome"    -> "check_adjudication"
    [] OTHER                                          -> "delete_case"

\* The statement that follows load_case, by the arrow asked for.
FirstCheck(from, target) ==
  CASE from = "worksheet"                             -> "worksheet"
    [] from = "adjudication" /\ target = "outcome"    -> "check_adjudication"
    [] from = "outcome"                               -> "check_outcome"
    [] OTHER                                          -> "delete_case"

TransitionLoads(r, target) ==
  /\ At(r, "idle")
  /\ state \in States
  /\ target \in TRANSITIONS[state]
  /\ target = "closed" => closures < MaxClosures
  /\ Starts(r, "transition", FirstCheck(state, target), target, {})
  /\ Reads

\* worksheet() loads the case once more, then four tables one after another.
WorksheetLoads(r) ==
  /\ At(r, "worksheet")
  /\ IF state = NoCase THEN Ends(r) ELSE GoesTo(r, "load_findings")
  /\ Reads

LoadFindings(r) ==
  /\ At(r, "load_findings")
  /\ GoesWith(r, "effective_actions", findings)
  /\ Reads

EffectiveActions(r) ==
  /\ At(r, "effective_actions")
  /\ GoesWith(r, "load_ties", request[r].ids \ Disposed(worksheet_actions))
  /\ Reads

LoadTies(r) ==
  /\ At(r, "load_ties")
  /\ GoesWith(r, "effective_tie_actions", request[r].ids \union ties)
  /\ Reads

EffectiveTieActions(r) ==
  /\ At(r, "effective_tie_actions")
  /\ IF request[r].ids \subseteq Disposed(tie_actions)
     THEN GoesWith(r, "delete_case", {}) ELSE Ends(r)
  /\ Reads

CheckAdjudication(r) ==
  /\ At(r, "check_adjudication")
  /\ IF next_adjudication_seq = 0 THEN Ends(r) ELSE GoesTo(r, "delete_case")
  /\ Reads

CheckOutcome(r) ==
  /\ At(r, "check_outcome")
  /\ IF case_outcomes = <<>> THEN Ends(r) ELSE GoesTo(r, "delete_case")
  /\ Reads

-----------------------------------------------------------------------------
(***************************************************************************)
(* POST /cases/{id}/reconcile                                              *)
(***************************************************************************)

\* The route looks at the state on a connection it then closes.
ReconcileLooks(r) ==
  /\ At(r, "idle")
  /\ state \in RECONCILE_ALLOWED_STATES
  /\ Starts(r, "reconcile", "load_case", NoCase, {})
  /\ Reads

\* pipeline.reconcile_case loads the case again; the state it finds decides,
\* after the discovery, whether the case moves to the worksheet.
ReconcileLoads(r) ==
  /\ At(r, "load_case")
  /\ IF state = NoCase THEN Ends(r)
     ELSE request' = [request EXCEPT
            ![r].at = "load_subject",
            ![r].target = IF state \in RECONCILE_ALLOWED_STATES
                          THEN "worksheet" ELSE NoCase]
  /\ Reads

\* "intake is incomplete" ends it; the declaration is read in either case.
LoadSubject(r) ==
  /\ At(r, "load_subject")
  /\ IF "subject" \in intake THEN GoesTo(r, "load_declaration") ELSE Ends(r)
  /\ Reads

LoadDeclaration(r) ==
  /\ At(r, "load_declaration")
  /\ IF "declaration" \in intake THEN GoesTo(r, "old_findings") ELSE Ends(r)
  /\ Reads

(***************************************************************************)
(* What a request asks of the world outside may fail: a list file or the   *)
(* registry of publications in a discovery, the remote model that drafts   *)
(* an explanation. Nothing is written then.                                *)
(***************************************************************************)
OutsideFails(r) ==
  /\ At(r, "old_findings") \/ At(r, "save_explanation")
  /\ Ends(r)
  /\ Reads

\* replace_findings and replace_ties. What the discovery returned is chosen
\* where it is first used.
OldFindings(r, discovered) ==
  /\ At(r, "old_findings")
  /\ request' = [request EXCEPT ![r].at = "delete_findings",
                                ![r].ids = discovered,
                                ![r].gone = findings \ discovered]
  /\ Reads

DeleteFindings(r) ==
  /\ At(r, "delete_findings")
  /\ findings' = {}
  /\ GoesTo(r, "insert_findings")
  /\ UNCHANGED <<state, case_kind, ties, explanations, reconciled, actionTables,
                 records, closures, intake, history>>

\* finding_id is unique: a row another request inserted ends this one.
InsertFinding(r, f) ==
  /\ At(r, "insert_findings") /\ f \in request[r].ids
  /\ IF f \in findings THEN Ends(r)
     ELSE GoesWith(r, "insert_findings", request[r].ids \ {f})
  /\ findings' = findings \union {f}
  /\ UNCHANGED <<state, case_kind, ties, explanations, reconciled, actionTables,
                 records, closures, intake, history>>

\* The DELETEs on explanations, one per removed id, taken as one statement.
DropFindingExplanations(r) ==
  /\ At(r, "insert_findings") /\ request[r].ids = {}
  /\ explanations' = explanations \ request[r].gone
  /\ GoesTo(r, "old_ties")
  /\ UNCHANGED <<state, case_kind, findings, ties, reconciled, actionTables,
                 records, closures, intake, history>>

\* The ties are a list, in which one id may occur twice (twin parents of one
\* legal name, or an affiliation_id that the client used twice).
OldTies(r, discovered) ==
  /\ At(r, "old_ties")
  /\ request' = [request EXCEPT ![r].at = "delete_ties",
                                ![r].tied = discovered,
                                ![r].gone = ties \ Range(discovered)]
  /\ Reads

DeleteTies(r) ==
  /\ At(r, "delete_ties")
  /\ ties' = {}
  /\ GoesTo(r, "insert_ties")
  /\ UNCHANGED <<state, case_kind, findings, explanations, reconciled, actionTables,
                 records, closures, intake, history>>

\* tie_id is unique: a row that is there, be it of another request or of an
\* earlier place of the list, ends this one.
InsertTie(r) ==
  /\ At(r, "insert_ties") /\ request[r].tied # <<>>
  /\ IF Head(request[r].tied) \in ties THEN Ends(r)
     ELSE GoesOn(r, "insert_ties", request[r].rows, Tail(request[r].tied))
  /\ ties' = ties \union {Head(request[r].tied)}
  /\ UNCHANGED <<state, case_kind, findings, explanations, reconciled, actionTables,
                 records, closures, intake, history>>

\* Mutated form: the recorded actions of removed ties go with them.
DropTieExplanations_AndActions(r) ==
  /\ At(r, "insert_ties") /\ request[r].tied = <<>>
  /\ explanations' = explanations \ request[r].gone
  /\ tie_actions' = SelectSeq(tie_actions,
                              LAMBDA row : row.id \notin request[r].gone)
  /\ GoesTo(r, IF request[r].target = NoCase THEN "write_manifest" ELSE "delete_case")
  /\ UNCHANGED <<state, case_kind, findings, ties, reconciled, worksheet_actions,
                 records, closures, intake, history>>

\* Mutated form: only replace_findings drops explanations.
DropTieExplanations_Kept(r) ==
  /\ At(r, "insert_ties") /\ request[r].tied = <<>>
  /\ GoesTo(r, IF request[r].target = NoCase THEN "write_manifest" ELSE "delete_case")
  /\ Reads

DropTieExplanations(r) ==
  /\ At(r, "insert_ties") /\ request[r].tied = <<>>
  /\ explanations' = explanations \ request[r].gone
  /\ GoesTo(r, IF request[r].target = NoCase THEN "write_manifest" ELSE "delete_case")
  /\ UNCHANGED <<state, case_kind, findings, ties, reconciled, actionTables,
                 records, closures, intake, history>>

WriteManifest(r) ==
  /\ At(r, "write_manifest")
  /\ reconciled' = TRUE
  /\ Ends(r)
  /\ UNCHANGED <<state, case_kind, findings, ties, explanations, actionTables,
                 records, closures, intake, history>>

-----------------------------------------------------------------------------
(***************************************************************************)
(* Analyst actions on findings: the state, then the known ids, then one    *)
(* INSERT per row. Which disposition a row holds makes no difference here. *)
(* A certification is one row about one finding, and may come after the    *)
(* closure.                                                                *)
(***************************************************************************)

Row(id) == [id |-> id, action |-> "dismiss", reason |-> "other"]

ActionLoads(r, selection) ==
  /\ At(r, "idle")
  /\ AcceptsActions
  /\ selection # <<>>
  /\ StartsWith(r, "act", "known_ids", selection, <<>>)
  /\ Reads

CertificationLoads(r, f) ==
  /\ At(r, "idle") /\ state # NoCase
  /\ StartsWith(r, "certify", "known_ids", <<f>>, <<>>)
  /\ Reads

KnownIds(r) ==
  /\ At(r, "known_ids")
  /\ IF Range(request[r].rows) \subseteq findings
     THEN GoesTo(r, IF request[r].op = "certify" THEN "insert_certification"
                    ELSE "insert_actions")
     ELSE Ends(r)
  /\ Reads

InsertAction(r) ==
  /\ At(r, "insert_actions") /\ request[r].rows # <<>>
  /\ Len(worksheet_actions) < MaxActions
  /\ worksheet_actions' = Append(worksheet_actions, Row(Head(request[r].rows)))
  /\ IF Len(request[r].rows) = 1 THEN Ends(r)
     ELSE GoesOn(r, "insert_actions", Tail(request[r].rows), request[r].tied)
  /\ UNCHANGED <<state, case_kind, observations, tie_actions, records, closures,
                 intake, history>>

InsertCertification(r) ==
  /\ At(r, "insert_certification") /\ request[r].rows # <<>>
  /\ Len(certifications) < MaxAppends
  /\ certifications' = Append(certifications, Head(request[r].rows))
  /\ Ends(r)
  /\ UNCHANGED <<state, case_kind, observations, actionTables, adjudications,
                 case_outcomes, closures, intake, history>>

(***************************************************************************)
(* Analyst actions on ties. The bulk request repeats the single one for    *)
(* each id: the state, the known ties, the INSERT, and the state again. It *)
(* ends at the first id that is refused, with the rows before it written.  *)
(***************************************************************************)

TieActionLoads(r, selection) ==
  /\ At(r, "idle")
  /\ AcceptsActions
  /\ selection # <<>>
  /\ StartsWith(r, "act_on_ties", "known_ties", <<>>, selection)
  /\ Reads

KnownTies(r) ==
  /\ At(r, "known_ties")
  /\ IF Head(request[r].tied) \in ties THEN GoesTo(r, "insert_tie_action")
     ELSE Ends(r)
  /\ Reads

InsertTieAction(r) ==
  /\ At(r, "insert_tie_action") /\ request[r].tied # <<>>
  /\ Len(tie_actions) < MaxActions
  /\ tie_actions' = Append(tie_actions, Row(Head(request[r].tied)))
  /\ IF Len(request[r].tied) = 1 THEN Ends(r)
     ELSE GoesOn(r, "next_tie", request[r].rows, Tail(request[r].tied))
  /\ UNCHANGED <<state, case_kind, observations, worksheet_actions, records,
                 closures, intake, history>>

NextTie(r) ==
  /\ At(r, "next_tie")
  /\ IF AcceptsActions THEN GoesTo(r, "known_ties") ELSE Ends(r)
  /\ Reads

-----------------------------------------------------------------------------
(***************************************************************************)
(* Adjudication and outcome                                                *)
(***************************************************************************)

AdjudicationLoads(r) ==
  /\ At(r, "idle") /\ state = "adjudication"
  /\ Cardinality(adjudications) < MaxRecords
  /\ Starts(r, "adjudicate", "next_seq", NoCase, {})
  /\ Reads

NextSeq(r) ==
  /\ At(r, "next_seq")
  /\ request' = [request EXCEPT ![r].at = "insert_adjudication",
                                ![r].seq = next_adjudication_seq]
  /\ Reads

\* Mutated form: table adjudications has no primary key.
InsertAdjudication_NoKey(r) ==
  /\ At(r, "insert_adjudication")
  /\ adjudications' = adjudications \union {request[r].seq}
  /\ accepted' = accepted + 1
  /\ Ends(r)
  /\ UNCHANGED <<state, case_kind, observations, actionTables, certifications,
                 case_outcomes, closures, intake, created, crashes>>

\* (case_id, seq) is the primary key: a number that is taken is refused.
InsertAdjudication(r) ==
  /\ At(r, "insert_adjudication")
  /\ adjudications' = adjudications \union {request[r].seq}
  /\ accepted' = IF request[r].seq \in adjudications THEN accepted ELSE accepted + 1
  /\ Ends(r)
  /\ UNCHANGED <<state, case_kind, observations, actionTables, certifications,
                 case_outcomes, closures, intake, created, crashes>>

OutcomeLoads(r) ==
  /\ At(r, "idle") /\ state = "outcome"
  /\ Starts(r, "outcome", "insert_outcome", NoCase, {})
  /\ Reads

\* Mutated form: the vocabulary of outcomes is not consulted.
InsertOutcome_AnyWord(r, outcome) ==
  /\ At(r, "insert_outcome")
  /\ Len(case_outcomes) < MaxAppends
  /\ case_outcomes' = OutcomesWith(outcome)
  /\ Ends(r)
  /\ UNCHANGED <<state, case_kind, observations, actionTables, adjudications,
                 certifications, closures, intake, history>>

InsertOutcome(r, outcome) ==
  /\ At(r, "insert_outcome")
  /\ outcome \in VALID_OUTCOMES
  /\ Len(case_outcomes) < MaxAppends
  /\ case_outcomes' = OutcomesWith(outcome)
  /\ Ends(r)
  /\ UNCHANGED <<state, case_kind, observations, actionTables, adjudications,
                 certifications, closures, intake, history>>

-----------------------------------------------------------------------------
(***************************************************************************)
(* Explanation: slow, since a missing one is generated by a remote model   *)
(***************************************************************************)

ExplainLoads(r, id) ==
  /\ At(r, "idle") /\ state # NoCase
  /\ Starts(r, "explain", "find_primary", NoCase, {id})
  /\ Reads

FindPrimary(r) ==
  /\ At(r, "find_primary")
  /\ IF request[r].ids \subseteq findings \union ties
     THEN GoesTo(r, "load_cached") ELSE Ends(r)
  /\ Reads

LoadCached(r) ==
  /\ At(r, "load_cached")
  /\ IF request[r].ids \subseteq explanations THEN Ends(r)
     ELSE GoesTo(r, "save_explanation")
  /\ Reads

SaveExplanation(r) ==
  /\ At(r, "save_explanation")
  /\ explanations' = explanations \union request[r].ids
  /\ Ends(r)
  /\ UNCHANGED <<state, case_kind, findings, ties, reconciled, actionTables,
                 records, closures, intake, history>>

-----------------------------------------------------------------------------
\* The process dies; what was written stays, what was to be written is lost.
Crash ==
  /\ crashes < MaxCrashes
  /\ \E r \in Requests : ~At(r, "idle")
  /\ request' = [r \in Requests |-> Idle]
  /\ crashes' = crashes + 1
  /\ UNCHANGED <<vars, intake, created, accepted>>

\* The next statement of a request that has started.
Continue(r) ==
  \/ DeleteSubject(r) \/ InsertSubject(r)
  \/ DeleteDeclaration(r) \/ InsertDeclaration(r)
  \/ DeleteCase(r) \/ InsertCase(r)
  \/ WorksheetLoads(r) \/ LoadFindings(r) \/ EffectiveActions(r)
  \/ LoadTies(r) \/ EffectiveTieActions(r)
  \/ CheckAdjudication(r) \/ CheckOutcome(r)
  \/ ReconcileLoads(r) \/ LoadSubject(r) \/ LoadDeclaration(r)
  \/ OutsideFails(r)
  \/ \E ids \in SUBSET FindingIds : OldFindings(r, ids)
  \/ DeleteFindings(r)
  \/ \E f \in FindingIds : InsertFinding(r, f)
  \/ DropFindingExplanations(r)
  \/ \E list \in Selections(TieIds) : OldTies(r, list)
  \/ DeleteTies(r) \/ InsertTie(r) \/ DropTieExplanations(r) \/ WriteManifest(r)
  \/ KnownIds(r) \/ InsertAction(r) \/ InsertCertification(r)
  \/ KnownTies(r) \/ InsertTieAction(r) \/ NextTie(r)
  \/ NextSeq(r) \/ InsertAdjudication(r)
  \/ \E o \in OfferedOutcomes : InsertOutcome(r, o)
  \/ FindPrimary(r) \/ LoadCached(r) \/ SaveExplanation(r)

Begin(r) ==
  \/ CreateLooks(r)
  \/ \E target \in States : TransitionLoads(r, target)
  \/ ReconcileLooks(r)
  \/ \E selection \in Selections(FindingIds) : ActionLoads(r, selection)
  \/ \E selection \in Selections(TieIds) : TieActionLoads(r, selection)
  \/ \E f \in FindingIds : CertificationLoads(r, f)
  \/ AdjudicationLoads(r)
  \/ OutcomeLoads(r)
  \/ \E id \in Ids : ExplainLoads(r, id)

RequestsNext == Crash \/ \E r \in Requests : Begin(r) \/ Continue(r)

RequestsSpec == RequestsInit /\ [][RequestsNext]_requestVars

-----------------------------------------------------------------------------
(***************************************************************************)
(* Properties                                                              *)
(***************************************************************************)

(***************************************************************************)
(* Requests that write a case over one another lose none of its rows: as   *)
(* long as the process lives, a row of a case that was created (save_case, *)
(* save_subject, save_declaration) is there, or the request that deleted   *)
(* it, or another one, is about to insert it again.                        *)
(***************************************************************************)
CaseRowSurvives == state = NoCase => \E r \in Requests : At(r, "insert_case")

IntakeSurvives ==
  /\ "subject" \notin intake => \E r \in Requests : At(r, "insert_subject")
  /\ "declaration" \notin intake => \E r \in Requests : At(r, "insert_declaration")

RowsSurvive == created /\ crashes = 0 => CaseRowSurvives /\ IntakeSurvives

(***************************************************************************)
(* Each adjudication that was accepted has a number of its own, and the    *)
(* numbers have no gap, also when two analysts adjudicate at the same time *)
(* and when the process dies (next_adjudication_seq reads and              *)
(* append_adjudication writes, in two statements).                         *)
(***************************************************************************)
AcceptedAreNumbered == adjudications = 0 .. accepted - 1

(***************************************************************************)
(* What a document or a comment of the repository promises and overlapping *)
(* requests break                                                          *)
(***************************************************************************)

AllIdle == \A r \in Requests : At(r, "idle")

(***************************************************************************)
(* "a case cannot leave the WORKSHEET state while any row is unactioned"   *)
(* (service.py), asked only once every request has been answered.          *)
(***************************************************************************)
ClosureRuleAtRest == AllIdle => ClosureRule
=============================================================================
