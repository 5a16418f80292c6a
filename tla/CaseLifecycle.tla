--------------------------- MODULE CaseLifecycle ---------------------------
(***************************************************************************)
(* One researcher-screening case, from its creation to its closure and its *)
(* re-opening: case/service.py over case/store.py, the routes of           *)
(* api/case_routes.py that call them, and the effect of                    *)
(* pipeline.reconcile_case on the case tables.                             *)
(*                                                                         *)
(* Here every request runs alone, from its first read to its last write.   *)
(* Requests of several clients that overlap, and a process that dies       *)
(* between two statements, are the subject of module CaseRequests.         *)
(*                                                                         *)
(* The case is one of those clients create: the two bundled demo cases,    *)
(* whose ids create_case refuses, are rebuilt by the server itself.        *)
(***************************************************************************)
EXTENDS Naturals, Sequences, FiniteSets

CONSTANTS
  FindingIds,        \* ids a discrepancy of the case can have (natural keys)
  TieIds,            \* ids a concern tie of the case can have
  OfferedActions,    \* the action kinds the clients send
  OfferedReasons,    \* the reason codes the clients send
  OfferedOutcomes,   \* the outcomes the clients send
  MaxActions,        \* bound: rows of worksheet_actions, and of tie_actions
  MaxSelection,      \* bound: ids in one bulk request
  MaxRecords,        \* bound: rows of adjudications, certifications, outcomes
  MaxClosures        \* bound: times the case is closed

(***************************************************************************)
(* Vocabularies                                                            *)
(***************************************************************************)

States == {"intake", "declaration_assembly", "discovery", "worksheet",
           "adjudication", "outcome", "closed"}

NoCase == "no_case"          \* no row in table cases

CaseKinds == {"hb127_researcher_screening", "coi_annual_disclosure"}

ActionKinds == {"dismiss", "request_clarification", "escalate",
                "certification_required"}

(***************************************************************************)
(* The five vocabularies differ in the codes named here; "other" stands    *)
(* for the codes they share.                                               *)
(***************************************************************************)
DISMISS_REASON_CODES == {"other", "outside_declaration_scope"}
ESCALATION_REASON_CODES == {"other", "possible_nondisclosure_for_certification"}
COI_ESCALATION_REASON_CODES == {"other", "needs_coi_committee_referral"}
TIE_DISMISS_REASON_CODES == {"other", "misidentified_entity"}
TIE_ESCALATION_REASON_CODES == {"other", "needs_counterintelligence_referral"}

ReasonCodes == DISMISS_REASON_CODES \union ESCALATION_REASON_CODES
                 \union COI_ESCALATION_REASON_CODES
                 \union TIE_DISMISS_REASON_CODES
                 \union TIE_ESCALATION_REASON_CODES

VALID_OUTCOMES == {"cleared", "cleared_with_certification", "not_cleared",
                   "withdrawn"}

ASSUME InputAssumption ==
  /\ FindingIds \cap TieIds = {}
  /\ OfferedActions \subseteq ActionKinds
  /\ MaxActions \in Nat /\ MaxSelection \in Nat
  /\ MaxRecords \in Nat /\ MaxClosures \in Nat

ActionRows(ids) == [id : ids, action : ActionKinds, reason : ReasonCodes]

VARIABLES
  state,             \* cases.state, or NoCase
  case_kind,         \* cases.case_kind
  findings,          \* ids of the current rows of table findings
  ties,              \* ids of the current rows of table concern_ties
  explanations,      \* observation ids with a cached row in explanations
  worksheet_actions, \* table worksheet_actions, in the order recorded
  tie_actions,       \* table tie_actions, in the order recorded
  adjudications,     \* the seq column of table adjudications
  certifications,    \* table certifications: the finding each row certifies
  case_outcomes,     \* table case_outcomes, in the order recorded
  reconciled,        \* a ReconciliationManifest of this case is on disk
  closures           \* history: how often the case entered "closed"

observations == <<findings, ties, explanations, reconciled>>
actionTables == <<worksheet_actions, tie_actions>>
records == <<adjudications, certifications, case_outcomes>>
vars == <<state, case_kind, observations, actionTables, records, closures>>

TypeOK ==
  /\ state \in States \union {NoCase}
  /\ case_kind \in CaseKinds
  /\ findings \subseteq FindingIds
  /\ ties \subseteq TieIds
  /\ explanations \subseteq FindingIds \union TieIds
  /\ worksheet_actions \in Seq(ActionRows(FindingIds))
  /\ tie_actions \in Seq(ActionRows(TieIds))
  /\ adjudications \subseteq Nat
  /\ certifications \in Seq(FindingIds)
  /\ case_outcomes \in Seq(VALID_OUTCOMES)
  /\ reconciled \in BOOLEAN
  /\ closures \in Nat

Init ==
  /\ state = NoCase
  /\ case_kind = "hb127_researcher_screening"   \* the default of a new case
  /\ findings = {} /\ ties = {} /\ explanations = {} /\ reconciled = FALSE
  /\ worksheet_actions = <<>> /\ tie_actions = <<>>
  /\ adjudications = {} /\ certifications = <<>> /\ case_outcomes = <<>>
  /\ closures = 0

-----------------------------------------------------------------------------
(***************************************************************************)
(* The worksheet                                                           *)
(***************************************************************************)

\* The ids that have an effective action: at least one row in the table.
Disposed(table) == {table[i].id : i \in DOMAIN table}

\* worksheet(): the rows of either type that carry no action.
Unactioned == (findings \ Disposed(worksheet_actions))
                \union (ties \ Disposed(tie_actions))

\* Mutated form: concern ties are forgotten, as before they became rows.
can_close_FindingsOnly == findings \subseteq Disposed(worksheet_actions)

can_close == Unactioned = {}

\* _validate_action_for_case: the escalation codes depend on the case kind.
IsValidForFinding(kind, action, reason) ==
  reason \in IF action = "dismiss" THEN DISMISS_REASON_CODES
             ELSE IF kind = "coi_annual_disclosure"
                  THEN COI_ESCALATION_REASON_CODES
                  ELSE ESCALATION_REASON_CODES

is_valid_tie_reason_code(action, reason) ==
  reason \in IF action = "dismiss" THEN TIE_DISMISS_REASON_CODES
             ELSE TIE_ESCALATION_REASON_CODES

\* next_adjudication_seq: max(seq) + 1, and 0 when there is no row.
next_adjudication_seq ==
  IF adjudications = {} THEN 0
  ELSE 1 + CHOOSE n \in adjudications : \A m \in adjudications : m <= n

\* The id lists a bulk request may name: known ids or not, repeated or not.
Selections(ids) == UNION {[1..n -> ids] : n \in 0..MaxSelection}

RowsFor(selection, action, reason) ==
  [i \in 1..Len(selection) |->
     [id |-> selection[i], action |-> action, reason |-> reason]]

-----------------------------------------------------------------------------
(***************************************************************************)
(* Intake and reconciliation                                               *)
(***************************************************************************)

\* POST /cases. A case that exists is refused (409).
CreateCase(kind) ==
  /\ state = NoCase
  /\ state' = "declaration_assembly"
  /\ case_kind' = kind
  /\ UNCHANGED <<observations, actionTables, records, closures>>

\* Mutated form: the evidence of a case under adjudication may be replaced.
RECONCILE_ALLOWED_STATES_Adjudication ==
  {"intake", "declaration_assembly", "discovery", "adjudication"}

RECONCILE_ALLOWED_STATES == {"intake", "declaration_assembly", "discovery"}

\* Mutated form: replace_ties forgets the explanations of removed ties.
Removed_FindingsOnly(newFindings, newTies) == findings \ newFindings

\* removed_ids of replace_findings and of replace_ties.
Removed(newFindings, newTies) == (findings \ newFindings) \union (ties \ newTies)

(***************************************************************************)
(* POST /cases/{id}/reconcile. Replaces both observation sets by what      *)
(* discovery produced, drops the explanations of ids that disappeared,     *)
(* moves the case to the worksheet and writes the manifest. Rows of        *)
(* worksheet_actions and tie_actions are keyed by id and stay. A discovery *)
(* that raises does so before the first write and is no step.              *)
(***************************************************************************)
ReconcileCase(newFindings, newTies) ==
  /\ state \in RECONCILE_ALLOWED_STATES
  /\ findings' = newFindings
  /\ ties' = newTies
  /\ explanations' = explanations \ Removed(newFindings, newTies)
  /\ state' = "worksheet"
  /\ reconciled' = TRUE
  /\ UNCHANGED <<case_kind, actionTables, records, closures>>

(***************************************************************************)
(* The same request, whose discovery found one tie id twice: the second    *)
(* INSERT under that id violates the unique index and ends the request in  *)
(* replace_ties. The findings are replaced, the old ties are gone, of the  *)
(* new ones those before the repeated id are in; the explanations of the   *)
(* removed ties, the state and the manifest are not reached.               *)
(***************************************************************************)
ReconcileClashes(newFindings, inserted) ==
  /\ state \in RECONCILE_ALLOWED_STATES
  /\ inserted # {}
  /\ findings' = newFindings
  /\ ties' = inserted
  /\ explanations' = explanations \ (findings \ newFindings)
  /\ UNCHANGED <<state, case_kind, reconciled, actionTables, records, closures>>

\* POST .../explanation: a cached row is returned, a missing one generated.
Explain(id) ==
  /\ state # NoCase
  /\ id \in findings \union ties
  /\ explanations' = explanations \union {id}
  /\ UNCHANGED <<state, case_kind, findings, ties, reconciled, actionTables,
                 records, closures>>

-----------------------------------------------------------------------------
(***************************************************************************)
(* Analyst actions. They are refused only once the case is closed.         *)
(***************************************************************************)

AcceptsActions == state \notin {NoCase, "closed"}

\* POST .../findings/{id}/action
RecordAction(finding, action, reason) ==
  /\ AcceptsActions
  /\ IsValidForFinding(case_kind, action, reason)
  /\ finding \in findings
  /\ Len(worksheet_actions) < MaxActions
  /\ worksheet_actions' = Append(worksheet_actions,
                            [id |-> finding, action |-> action, reason |-> reason])
  /\ UNCHANGED <<state, case_kind, observations, tie_actions, records, closures>>

(***************************************************************************)
(* POST .../worksheet/actions. Every id is checked before the first row is *)
(* written: one unknown id refuses the whole request.                      *)
(***************************************************************************)
RecordBulkAction(selection, action, reason) ==
  /\ AcceptsActions
  /\ IsValidForFinding(case_kind, action, reason)
  /\ \A i \in 1..Len(selection) : selection[i] \in findings
  /\ Len(worksheet_actions) + Len(selection) <= MaxActions
  /\ worksheet_actions' = worksheet_actions \o RowsFor(selection, action, reason)
  /\ UNCHANGED <<state, case_kind, observations, tie_actions, records, closures>>

\* POST .../ties/{id}/action
RecordTieAction(tie, action, reason) ==
  /\ AcceptsActions
  /\ is_valid_tie_reason_code(action, reason)
  /\ tie \in ties
  /\ Len(tie_actions) < MaxActions
  /\ tie_actions' = Append(tie_actions,
                      [id |-> tie, action |-> action, reason |-> reason])
  /\ UNCHANGED <<state, case_kind, observations, worksheet_actions, records, closures>>

(***************************************************************************)
(* POST .../ties/actions. A loop over record_tie_action: the ids before    *)
(* the first unknown one are recorded, then the request fails.             *)
(***************************************************************************)
RecordBulkTieAction(selection, action, reason) ==
  /\ AcceptsActions
  /\ is_valid_tie_reason_code(action, reason)
  /\ \E n \in 0..Len(selection) :
       /\ \A i \in 1..n : selection[i] \in ties
       /\ n < Len(selection) => selection[n + 1] \notin ties
       /\ Len(tie_actions) + n <= MaxActions
       /\ tie_actions' = tie_actions
                           \o RowsFor(SubSeq(selection, 1, n), action, reason)
  /\ UNCHANGED <<state, case_kind, observations, worksheet_actions, records, closures>>

-----------------------------------------------------------------------------
(***************************************************************************)
(* POST .../transition: one action per arrow of TRANSITIONS               *)
(***************************************************************************)

TRANSITIONS ==
  [s \in States |->
     CASE s = "intake"               -> {"declaration_assembly"}
       [] s = "declaration_assembly" -> {"discovery"}
       [] s = "discovery"            -> {"worksheet"}
       [] s = "worksheet"            -> {"adjudication"}
       [] s = "adjudication"         -> {"outcome", "worksheet"}
       [] s = "outcome"              -> {"closed"}
       [] s = "closed"               -> {"discovery"}]

\* What transition() demands beyond TRANSITIONS.
MayEnter(target) ==
  /\ state = "worksheet" /\ target = "adjudication" => can_close
  /\ state = "adjudication" /\ target = "outcome" => next_adjudication_seq # 0
  /\ state = "outcome" /\ target = "closed" => case_outcomes # <<>>

Transition(target) ==
  /\ state \in States
  /\ target \in TRANSITIONS[state]
  /\ MayEnter(target)
  /\ target = "closed" => closures < MaxClosures
  /\ state' = target
  /\ closures' = IF target = "closed" THEN closures + 1 ELSE closures
  /\ UNCHANGED <<case_kind, observations, actionTables, records>>

-----------------------------------------------------------------------------
(***************************************************************************)
(* The records a decision leaves                                           *)
(***************************************************************************)

\* POST .../adjudication
RecordAdjudication ==
  /\ state = "adjudication"
  /\ Cardinality(adjudications) < MaxRecords
  /\ adjudications' = adjudications \union {next_adjudication_seq}
  /\ UNCHANGED <<state, case_kind, observations, actionTables, certifications,
                 case_outcomes, closures>>

\* POST .../certifications: the finding must be current; the state and the
\* kind of the case are not looked at.
RecordCertification(finding) ==
  /\ state # NoCase
  /\ finding \in findings
  /\ Len(certifications) < MaxRecords
  /\ certifications' = Append(certifications, finding)
  /\ UNCHANGED <<state, case_kind, observations, actionTables, adjudications,
                 case_outcomes, closures>>

\* Table case_outcomes after the INSERT.
OutcomesWith(outcome) == Append(case_outcomes, outcome)

\* Mutated form: the vocabulary of outcomes is not consulted.
RecordOutcome_AnyWord(outcome) ==
  /\ state = "outcome"
  /\ Len(case_outcomes) < MaxRecords
  /\ case_outcomes' = OutcomesWith(outcome)
  /\ UNCHANGED <<state, case_kind, observations, actionTables, adjudications,
                 certifications, closures>>

\* POST .../outcome
RecordOutcome(outcome) ==
  /\ outcome \in VALID_OUTCOMES
  /\ state = "outcome"
  /\ Len(case_outcomes) < MaxRecords
  /\ case_outcomes' = OutcomesWith(outcome)
  /\ UNCHANGED <<state, case_kind, observations, actionTables, adjudications,
                 certifications, closures>>

-----------------------------------------------------------------------------
Next ==
  \/ \E k \in CaseKinds : CreateCase(k)
  \/ \E F \in SUBSET FindingIds, T \in SUBSET TieIds :
       ReconcileCase(F, T) \/ ReconcileClashes(F, T)
  \/ \E id \in FindingIds \union TieIds : Explain(id)
  \/ \E f \in FindingIds, a \in OfferedActions, r \in OfferedReasons :
       RecordAction(f, a, r)
  \/ \E s \in Selections(FindingIds), a \in OfferedActions, r \in OfferedReasons :
       RecordBulkAction(s, a, r)
  \/ \E t \in TieIds, a \in OfferedActions, r \in OfferedReasons :
       RecordTieAction(t, a, r)
  \/ \E s \in Selections(TieIds), a \in OfferedActions, r \in OfferedReasons :
       RecordBulkTieAction(s, a, r)
  \/ \E target \in States : Transition(target)
  \/ RecordAdjudication
  \/ \E f \in FindingIds : RecordCertification(f)
  \/ \E o \in OfferedOutcomes : RecordOutcome(o)

Spec == Init /\ [][Next]_vars

-----------------------------------------------------------------------------
(***************************************************************************)
(* Properties                                                              *)
(***************************************************************************)

Reviewed == state \in {"adjudication", "outcome", "closed"}

(***************************************************************************)
(* The closure rule: a case that has left the worksheet has an effective   *)
(* action on every finding and every tie it has now, however often it was  *)
(* re-opened, reconciled again or sent back (service.transition).          *)
(***************************************************************************)
ClosureRule == Reviewed => Unactioned = {}

(***************************************************************************)
(* A decided case rests on a record: an adjudication before the outcome,   *)
(* an outcome before the closure (the two checks M5 added to transition).  *)
(***************************************************************************)
DecisionsAreRecorded ==
  /\ state \in {"outcome", "closed"} => adjudications # {}
  /\ state = "closed" => case_outcomes # <<>>

(***************************************************************************)
(* Adjudications are numbered 0, 1, 2, ... without a gap or a repetition,  *)
(* so the n-th assessment of a re-opened case is found under its number.   *)
(***************************************************************************)
AdjudicationsNumbered == adjudications = 0 .. Cardinality(adjudications) - 1

Extends(table, earlier) ==
  /\ Len(earlier) <= Len(table)
  /\ SubSeq(table, 1, Len(earlier)) = earlier

\* Cached explanations whose observation is gone.
Orphans == explanations \ (findings \union ties)

(***************************************************************************)
(* A reconciliation that gets through leaves no explanation of an          *)
(* observation it removed, and none leaves one of a finding. What outlives *)
(* its observation is the explanation of a tie, removed by a request that  *)
(* died on a tie id its discovery repeats and so left the case in its      *)
(* state (the ends of replace_findings and of replace_ties).               *)
(***************************************************************************)
OrphansAreOfHalfDoneReconciliations ==
  [][\A id \in Orphans' \ Orphans : id \in ties \ ties' /\ state' = state]_vars

(***************************************************************************)
(* The history of a case is append-only: no request changes or removes a   *)
(* recorded action, adjudication, certification or outcome, and re-opening *)
(* and reconciling again keep them all (docstring of case/store.py).       *)
(***************************************************************************)
HistoryOnlyGrows ==
  [][/\ Extends(worksheet_actions', worksheet_actions)
     /\ Extends(tie_actions', tie_actions)
     /\ adjudications \subseteq adjudications'
     /\ Extends(certifications', certifications)
     /\ Extends(case_outcomes', case_outcomes)]_vars

(***************************************************************************)
(* While a case is closed its evidence, dispositions, adjudications and    *)
(* outcomes stand still, so an investigative file exported twice from a    *)
(* closed case says the same of them (the guards M5 added).                *)
(***************************************************************************)
ClosedRecordStands ==
  [][state = "closed" =>
       UNCHANGED <<findings, ties, actionTables, adjudications, case_outcomes>>]_vars
=============================================================================
