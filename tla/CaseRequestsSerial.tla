------------------------- MODULE CaseRequestsSerial -------------------------
(***************************************************************************)
(* CaseLifecycle takes a request as one step. This module justifies that:  *)
(* it watches the statements of CaseRequests and remembers the tables as   *)
(* they last were with no request in progress. When requests do not        *)
(* overlap, what is remembered behaves as CaseLifecycle says.              *)
(***************************************************************************)
EXTENDS CaseRequests

\* The bounds of CaseLifecycle leave room for what CaseRequests does: its
\* appended rows, and the disposition it names.
ASSUME BoundsAssumption ==
  /\ MaxAppends \in Nat /\ MaxAppends <= MaxRecords
  /\ "dismiss" \in OfferedActions /\ "other" \in OfferedReasons

VARIABLE before      \* the tables when no request was in progress

Tables == [state |-> state, case_kind |-> case_kind, findings |-> findings,
           ties |-> ties, explanations |-> explanations,
           worksheet_actions |-> worksheet_actions, tie_actions |-> tie_actions,
           adjudications |-> adjudications, certifications |-> certifications,
           case_outcomes |-> case_outcomes, reconciled |-> reconciled,
           closures |-> closures]

SerialInit == RequestsInit /\ before = Tables

SerialNext == RequestsNext /\ before' = IF AllIdle' THEN Tables' ELSE before

SerialSpec == SerialInit /\ [][SerialNext]_<<requestVars, before>>

Whole == INSTANCE CaseLifecycle
           WITH state <- before.state, case_kind <- before.case_kind,
                findings <- before.findings, ties <- before.ties,
                explanations <- before.explanations,
                worksheet_actions <- before.worksheet_actions,
                tie_actions <- before.tie_actions,
                adjudications <- before.adjudications,
                certifications <- before.certifications,
                case_outcomes <- before.case_outcomes,
                reconciled <- before.reconciled, closures <- before.closures

(***************************************************************************)
(* Requests that do not overlap are atomic: the statements of each route,  *)
(* in their order, add up to one step of CaseLifecycle or to none.         *)
(***************************************************************************)
RequestsAreAtomic == Whole!Spec
=============================================================================
