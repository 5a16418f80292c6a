------------------------ MODULE CaseLifecycleProofs ------------------------
(***************************************************************************)
(* Proofs about CaseLifecycle, for every value of its constants.           *)
(***************************************************************************)
EXTENDS CaseLifecycle, FiniteSetTheorems, TLAPS

(***************************************************************************)
(* What an INSERT does to an action table: the rows stay, the new ids join *)
(* the disposed ones.                                                      *)
(***************************************************************************)
LEMMA AppendKeepsRows ==
  ASSUME NEW S, NEW table \in Seq(ActionRows(S)), NEW row \in ActionRows(S)
  PROVE  /\ Append(table, row) \in Seq(ActionRows(S))
         /\ Disposed(table) \subseteq Disposed(Append(table, row))
BY DEF Disposed

(***************************************************************************)
(* What a batch of INSERTs does to an action table: as for one row.        *)
(***************************************************************************)
LEMMA ConcatKeepsRows ==
  ASSUME NEW S, NEW table \in Seq(ActionRows(S)), NEW rows \in Seq(ActionRows(S))
  PROVE  /\ table \o rows \in Seq(ActionRows(S))
         /\ Disposed(table) \subseteq Disposed(table \o rows)
BY DEF Disposed

(***************************************************************************)
(* The rows a bulk request inserts have the type of the table.             *)
(***************************************************************************)
LEMMA RowsForType ==
  ASSUME NEW S, NEW selection \in Seq(S),
         NEW action \in ActionKinds, NEW reason \in ReasonCodes
  PROVE  RowsFor(selection, action, reason) \in Seq(ActionRows(S))
BY DEF RowsFor, ActionRows

(***************************************************************************)
(* The id list of a bulk request is a sequence of ids.                     *)
(***************************************************************************)
LEMMA SelectionsAreSequences ==
  ASSUME NEW S, NEW selection \in Selections(S)
  PROVE  selection \in Seq(S)
BY InputAssumption DEF Selections

-----------------------------------------------------------------------------
(***************************************************************************)
(* Type correctness                                                        *)
(***************************************************************************)

(***************************************************************************)
(* record_action and record_bulk_action insert well-typed rows and take no *)
(* disposition back.                                                       *)
(***************************************************************************)
LEMMA ActionsKeepType ==
  ASSUME TypeOK,
         \/ \E f \in FindingIds, a \in OfferedActions, r \in OfferedReasons :
              RecordAction(f, a, r)
         \/ \E s \in Selections(FindingIds), a \in OfferedActions,
              r \in OfferedReasons : RecordBulkAction(s, a, r)
  PROVE  /\ worksheet_actions' \in Seq(ActionRows(FindingIds))
         /\ Disposed(worksheet_actions) \subseteq Disposed(worksheet_actions')
<1>1. CASE \E f \in FindingIds, a \in OfferedActions, r \in OfferedReasons :
              RecordAction(f, a, r)
  <2>1. PICK f \in FindingIds, a \in OfferedActions, r \in OfferedReasons :
              RecordAction(f, a, r)
    BY <1>1
  <2>2. a \in ActionKinds /\ r \in ReasonCodes
    BY <2>1, InputAssumption DEF RecordAction, IsValidForFinding, ReasonCodes
  <2>3. [id |-> f, action |-> a, reason |-> r] \in ActionRows(FindingIds)
    BY <2>2 DEF ActionRows
  <2>4. QED
    BY <2>1, <2>3, AppendKeepsRows DEF RecordAction, TypeOK
<1>2. CASE \E s \in Selections(FindingIds), a \in OfferedActions,
              r \in OfferedReasons : RecordBulkAction(s, a, r)
  <2>1. PICK s \in Selections(FindingIds), a \in OfferedActions,
              r \in OfferedReasons : RecordBulkAction(s, a, r)
    BY <1>2
  <2>2. a \in ActionKinds /\ r \in ReasonCodes
    BY <2>1, InputAssumption DEF RecordBulkAction, IsValidForFinding, ReasonCodes
  <2>3. RowsFor(s, a, r) \in Seq(ActionRows(FindingIds))
    BY <2>2, SelectionsAreSequences, RowsForType
  <2>4. QED
    BY <2>1, <2>3, ConcatKeepsRows DEF RecordBulkAction, TypeOK
<1>3. QED
  BY <1>1, <1>2

(***************************************************************************)
(* record_tie_action and record_bulk_tie_action insert well-typed rows and *)
(* take no disposition back, the partly recorded batch included.           *)
(***************************************************************************)
LEMMA TieActionsKeepType ==
  ASSUME TypeOK,
         \/ \E t \in TieIds, a \in OfferedActions, r \in OfferedReasons :
              RecordTieAction(t, a, r)
         \/ \E s \in Selections(TieIds), a \in OfferedActions,
              r \in OfferedReasons : RecordBulkTieAction(s, a, r)
  PROVE  /\ tie_actions' \in Seq(ActionRows(TieIds))
         /\ Disposed(tie_actions) \subseteq Disposed(tie_actions')
<1>1. CASE \E t \in TieIds, a \in OfferedActions, r \in OfferedReasons :
              RecordTieAction(t, a, r)
  <2>1. PICK t \in TieIds, a \in OfferedActions, r \in OfferedReasons :
              RecordTieAction(t, a, r)
    BY <1>1
  <2>2. a \in ActionKinds /\ r \in ReasonCodes
    BY <2>1, InputAssumption DEF RecordTieAction, is_valid_tie_reason_code, ReasonCodes
  <2>3. [id |-> t, action |-> a, reason |-> r] \in ActionRows(TieIds)
    BY <2>2 DEF ActionRows
  <2>4. QED
    BY <2>1, <2>3, AppendKeepsRows DEF RecordTieAction, TypeOK
<1>2. CASE \E s \in Selections(TieIds), a \in OfferedActions,
              r \in OfferedReasons : RecordBulkTieAction(s, a, r)
  <2>1. PICK s \in Selections(TieIds), a \in OfferedActions,
              r \in OfferedReasons : RecordBulkTieAction(s, a, r)
    BY <1>2
  <2>2. a \in ActionKinds /\ r \in ReasonCodes
    BY <2>1, InputAssumption DEF RecordBulkTieAction, is_valid_tie_reason_code, ReasonCodes
  <2>3. PICK n \in 0..Len(s) :
          tie_actions' = tie_actions \o RowsFor(SubSeq(s, 1, n), a, r)
    BY <2>1 DEF RecordBulkTieAction
  <2>4. SubSeq(s, 1, n) \in Seq(TieIds)
    BY <2>3, SelectionsAreSequences
  <2>5. RowsFor(SubSeq(s, 1, n), a, r) \in Seq(ActionRows(TieIds))
    BY <2>2, <2>4, RowsForType
  <2>6. QED
    BY <2>3, <2>5, ConcatKeepsRows DEF TypeOK
<1>3. QED
  BY <1>1, <1>2

(***************************************************************************)
(* adjudications holds an initial segment of the naturals; then the next   *)
(* number is its size, and 0 exactly when it is empty.                     *)
(***************************************************************************)
Numbered == \E k \in Nat : adjudications = 0 .. k - 1

(***************************************************************************)
(* next_adjudication_seq is the number of adjudications recorded so far.   *)
(***************************************************************************)
LEMMA NextSeqOfNumbered ==
  ASSUME NEW k \in Nat, adjudications = 0 .. k - 1
  PROVE  next_adjudication_seq = k
<1>1. CASE k = 0
  BY <1>1 DEF next_adjudication_seq
<1>2. CASE k # 0
  <2>1. k - 1 \in adjudications /\ \A m \in adjudications : m <= k - 1
    BY <1>2
  <2>2. (CHOOSE n \in adjudications : \A m \in adjudications : m <= n) = k - 1
    BY <2>1
  <2>3. adjudications # {}
    BY <2>1
  <2>4. next_adjudication_seq = 1 + (k - 1)
    BY <2>2, <2>3, Zenon DEF next_adjudication_seq
  <2>5. QED
    BY <2>4
<1>3. QED
  BY <1>1, <1>2

-----------------------------------------------------------------------------
(***************************************************************************)
(* The inductive invariant                                                 *)
(***************************************************************************)

(***************************************************************************)
(* Seen from the tables, a step is of one of a few kinds. The proofs below  *)
(* split on these, and on the single actions where they differ.            *)
(***************************************************************************)
FindingActionStep ==
  \/ \E f \in FindingIds, a \in OfferedActions, r \in OfferedReasons :
       RecordAction(f, a, r)
  \/ \E s \in Selections(FindingIds), a \in OfferedActions, r \in OfferedReasons :
       RecordBulkAction(s, a, r)

TieActionStep ==
  \/ \E t \in TieIds, a \in OfferedActions, r \in OfferedReasons :
       RecordTieAction(t, a, r)
  \/ \E s \in Selections(TieIds), a \in OfferedActions, r \in OfferedReasons :
       RecordBulkTieAction(s, a, r)

ReconcileStep ==
  \E F \in SUBSET FindingIds, T \in SUBSET TieIds :
     ReconcileCase(F, T) \/ ReconcileClashes(F, T)

(***************************************************************************)
(* A disposition of findings writes table worksheet_actions and nothing    *)
(* else, and no closed case takes one.                                     *)
(***************************************************************************)
LEMMA FindingActionStepFrame ==
  FindingActionStep => /\ UNCHANGED <<state, case_kind, observations, tie_actions,
                                      records, closures>>
                       /\ state \notin {NoCase, "closed"}
BY DEF FindingActionStep, RecordAction, RecordBulkAction, AcceptsActions

(***************************************************************************)
(* A disposition of ties writes table tie_actions and nothing else, and no *)
(* closed case takes one.                                                  *)
(***************************************************************************)
LEMMA TieActionStepFrame ==
  TieActionStep => /\ UNCHANGED <<state, case_kind, observations, worksheet_actions,
                                  records, closures>>
                   /\ state \notin {NoCase, "closed"}
BY DEF TieActionStep, RecordTieAction, RecordBulkTieAction, AcceptsActions

(***************************************************************************)
(* Every step is type-correct. Numbered makes the next adjudication number *)
(* a natural number.                                                       *)
(***************************************************************************)
LEMMA NextKeepsType ==
  ASSUME TypeOK, Numbered, [Next]_vars
  PROVE  TypeOK'
<1>1. CASE \E k \in CaseKinds : CreateCase(k)
  BY <1>1 DEF TypeOK, CreateCase, States, observations, actionTables, records
<1>2. CASE ReconcileStep
  BY <1>2 DEF TypeOK, ReconcileStep, ReconcileCase, ReconcileClashes, States,
              actionTables, records
<1>3. CASE \E id \in FindingIds \union TieIds : Explain(id)
  BY <1>3 DEF TypeOK, Explain, actionTables, records
<1>4. CASE FindingActionStep
  <2>1. worksheet_actions' \in Seq(ActionRows(FindingIds))
    BY <1>4, ActionsKeepType DEF FindingActionStep
  <2>2. QED
    BY <1>4, <2>1, FindingActionStepFrame DEF TypeOK, observations, records
<1>5. CASE TieActionStep
  <2>1. tie_actions' \in Seq(ActionRows(TieIds))
    BY <1>5, TieActionsKeepType DEF TieActionStep
  <2>2. QED
    BY <1>5, <2>1, TieActionStepFrame DEF TypeOK, observations, records
<1>6. CASE \E target \in States : Transition(target)
  BY <1>6 DEF TypeOK, Transition, observations, actionTables, records
<1>7. CASE RecordAdjudication
  <2>1. next_adjudication_seq \in Nat
    BY NextSeqOfNumbered DEF Numbered
  <2>2. QED
    BY <1>7, <2>1 DEF TypeOK, RecordAdjudication, observations, actionTables
<1>8. CASE \E f \in FindingIds : RecordCertification(f)
  BY <1>8 DEF TypeOK, RecordCertification, observations, actionTables
<1>9. CASE \E o \in OfferedOutcomes : RecordOutcome(o)
  BY <1>9 DEF TypeOK, RecordOutcome, OutcomesWith, observations, actionTables
<1>10. CASE UNCHANGED vars
  BY <1>10 DEF TypeOK, vars, observations, actionTables, records
<1>11. QED
  BY <1>1, <1>2, <1>3, <1>4, <1>5, <1>6, <1>7, <1>8, <1>9, <1>10
  DEF Next, ReconcileStep, FindingActionStep, TieActionStep

(***************************************************************************)
(* Only record_adjudication writes adjudications, and it appends the next  *)
(* number.                                                                 *)
(***************************************************************************)
LEMMA NextKeepsNumbered ==
  ASSUME TypeOK, Numbered, [Next]_vars
  PROVE  Numbered'
<1>1. CASE RecordAdjudication
  <2>1. PICK k \in Nat : adjudications = 0 .. k - 1
    BY DEF Numbered
  <2>2. adjudications' = (0 .. k - 1) \union {k}
    BY <1>1, <2>1, NextSeqOfNumbered DEF RecordAdjudication
  <2>3. adjudications' = 0 .. (k + 1) - 1
    BY <2>2
  <2>4. QED
    BY <2>3 DEF Numbered
<1>2. CASE UNCHANGED adjudications
  BY <1>2 DEF Numbered
<1>3. RecordAdjudication \/ UNCHANGED adjudications
  BY FindingActionStepFrame, TieActionStepFrame
  DEF Next, vars, records, FindingActionStep, TieActionStep, CreateCase,
      ReconcileCase, ReconcileClashes, Explain, Transition, RecordCertification,
      RecordOutcome
<1>4. QED
  BY <1>1, <1>2, <1>3

(***************************************************************************)
(* The closure rule is inductive: a case becomes reviewed only through the *)
(* arrow that checks can_close, its rows change only before the worksheet, *)
(* and the action tables only grow.                                        *)
(***************************************************************************)
LEMMA NextKeepsClosureRule ==
  ASSUME TypeOK, ClosureRule, [Next]_vars
  PROVE  ClosureRule'
<1> USE DEF ClosureRule, Reviewed, Unactioned
<1>1. CASE \E k \in CaseKinds : CreateCase(k)
  BY <1>1 DEF CreateCase
<1>2. CASE ReconcileStep
  BY <1>2 DEF ReconcileStep, ReconcileCase, ReconcileClashes, RECONCILE_ALLOWED_STATES
<1>3. CASE \E id \in FindingIds \union TieIds : Explain(id)
  BY <1>3 DEF Explain, actionTables, Disposed
<1>4. CASE FindingActionStep
  <2>1. Disposed(worksheet_actions) \subseteq Disposed(worksheet_actions')
    BY <1>4, ActionsKeepType DEF FindingActionStep
  <2>2. QED
    BY <1>4, <2>1, FindingActionStepFrame DEF observations, Disposed
<1>5. CASE TieActionStep
  <2>1. Disposed(tie_actions) \subseteq Disposed(tie_actions')
    BY <1>5, TieActionsKeepType DEF TieActionStep
  <2>2. QED
    BY <1>5, <2>1, TieActionStepFrame DEF observations, Disposed
<1>6. CASE \E target \in States : Transition(target)
  <2>1. PICK target \in States : Transition(target)
    BY <1>6
  <2>2. Unactioned' = Unactioned
    BY <2>1 DEF Transition, observations, actionTables, Disposed
  <2>3. CASE state = "worksheet"
    BY <2>1, <2>2, <2>3 DEF Transition, MayEnter, TRANSITIONS, can_close
  <2>4. CASE state \in {"intake", "declaration_assembly", "discovery", "closed"}
    BY <2>1, <2>4 DEF Transition, TRANSITIONS, States
  <2>5. CASE state \in {"adjudication", "outcome"}
    BY <2>2, <2>5
  <2>6. QED
    BY <2>1, <2>3, <2>4, <2>5 DEF Transition, States
<1>7. CASE \/ RecordAdjudication
           \/ \E f \in FindingIds : RecordCertification(f)
           \/ \E o \in OfferedOutcomes : RecordOutcome(o)
           \/ UNCHANGED vars
  BY <1>7 DEF RecordAdjudication, RecordCertification, RecordOutcome, vars,
              observations, actionTables, Disposed
<1>8. QED
  BY <1>1, <1>2, <1>3, <1>4, <1>5, <1>6, <1>7
  DEF Next, ReconcileStep, FindingActionStep, TieActionStep

(***************************************************************************)
(* transition() lets a case reach its outcome, and its closure, only over  *)
(* a recorded adjudication, and a recorded outcome.                        *)
(***************************************************************************)
LEMMA NextKeepsDecisionsRecorded ==
  ASSUME TypeOK, Numbered, DecisionsAreRecorded, [Next]_vars
  PROVE  DecisionsAreRecorded'
<1> USE DEF DecisionsAreRecorded
<1>1. CASE \/ \E k \in CaseKinds : CreateCase(k)
           \/ ReconcileStep
  BY <1>1 DEF CreateCase, ReconcileStep, ReconcileCase, ReconcileClashes,
              RECONCILE_ALLOWED_STATES
<1>2. CASE \/ \E id \in FindingIds \union TieIds : Explain(id)
           \/ \E f \in FindingIds : RecordCertification(f)
           \/ UNCHANGED vars
  BY <1>2 DEF Explain, RecordCertification, records, vars
<1>3. CASE FindingActionStep \/ TieActionStep
  BY <1>3, FindingActionStepFrame, TieActionStepFrame DEF records
<1>4. CASE \E target \in States : Transition(target)
  <2>1. PICK target \in States : Transition(target)
    BY <1>4
  <2>2. adjudications' = adjudications /\ case_outcomes' = case_outcomes
    BY <2>1 DEF Transition, records
  <2>3. CASE target = "outcome"
    <3>1. state = "adjudication"
      BY <2>1, <2>3 DEF Transition, TRANSITIONS, States
    <3>2. adjudications # {}
      BY <2>1, <2>3, <3>1 DEF Transition, MayEnter, next_adjudication_seq
    <3>3. QED
      BY <2>1, <2>2, <2>3, <3>2 DEF Transition
  <2>4. CASE target = "closed"
    <3>1. state = "outcome"
      BY <2>1, <2>4 DEF Transition, TRANSITIONS, States
    <3>2. QED
      BY <2>1, <2>2, <2>4, <3>1 DEF Transition, MayEnter
  <2>5. CASE target \notin {"outcome", "closed"}
    BY <2>1, <2>5 DEF Transition
  <2>6. QED
    BY <2>3, <2>4, <2>5
<1>5. CASE RecordAdjudication
  BY <1>5 DEF RecordAdjudication
<1>6. CASE \E o \in OfferedOutcomes : RecordOutcome(o)
  BY <1>6 DEF RecordOutcome
<1>7. QED
  BY <1>1, <1>2, <1>3, <1>4, <1>5, <1>6
  DEF Next, ReconcileStep, FindingActionStep, TieActionStep

-----------------------------------------------------------------------------
IInv ==
  /\ TypeOK
  /\ Numbered
  /\ ClosureRule
  /\ DecisionsAreRecorded

(***************************************************************************)
(* The conjunction of the type, the numbering and the two rules is         *)
(* inductive.                                                              *)
(***************************************************************************)
LEMMA IInvInductive ==
  /\ Init => IInv
  /\ IInv /\ [Next]_vars => IInv'
<1>1. Init => IInv
  <2> SUFFICES ASSUME Init PROVE IInv
    OBVIOUS
  <2>1. TypeOK
    <3>1. /\ worksheet_actions \in Seq(ActionRows(FindingIds))
          /\ tie_actions \in Seq(ActionRows(TieIds))
          /\ certifications \in Seq(FindingIds)
          /\ case_outcomes \in Seq(VALID_OUTCOMES)
      BY DEF Init
    <3>2. /\ state \in States \union {NoCase}
          /\ case_kind \in CaseKinds
          /\ reconciled \in BOOLEAN
          /\ closures \in Nat
      BY DEF Init, CaseKinds
    <3>3. /\ findings \subseteq FindingIds
          /\ ties \subseteq TieIds
          /\ explanations \subseteq FindingIds \union TieIds
          /\ adjudications \subseteq Nat
      BY DEF Init
    <3>4. QED
      BY <3>1, <3>2, <3>3 DEF TypeOK
  <2>2. Numbered
    <3>1. adjudications = 0 .. 0 - 1
      BY DEF Init
    <3>2. QED
      BY <3>1 DEF Numbered
  <2>3. ClosureRule /\ DecisionsAreRecorded
    BY DEF Init, ClosureRule, Reviewed, DecisionsAreRecorded, NoCase
  <2>4. QED
    BY <2>1, <2>2, <2>3 DEF IInv
<1>2. IInv /\ [Next]_vars => IInv'
  BY NextKeepsType, NextKeepsNumbered, NextKeepsClosureRule,
     NextKeepsDecisionsRecorded DEF IInv
<1>3. QED
  BY <1>1, <1>2

(***************************************************************************)
(* The inductive invariant holds of every reachable state.                 *)
(***************************************************************************)
LEMMA InvariantHolds == Spec => []IInv
BY IInvInductive, PTL DEF Spec

(***************************************************************************)
(* Type correctness of the case tables.                                    *)
(***************************************************************************)
THEOREM TypeCorrect == Spec => []TypeOK
<1>1. IInv => TypeOK
  BY DEF IInv
<1>2. QED
  BY <1>1, InvariantHolds, PTL

(***************************************************************************)
(* The closure rule, for any number of findings, ties, clients' vocabulary *)
(* and re-openings: a case past its worksheet has no unactioned row.       *)
(***************************************************************************)
THEOREM ClosureRuleHolds == Spec => []ClosureRule
<1>1. IInv => ClosureRule
  BY DEF IInv
<1>2. QED
  BY <1>1, InvariantHolds, PTL

(***************************************************************************)
(* No case reaches its outcome without an adjudication, nor its closure    *)
(* without an outcome.                                                     *)
(***************************************************************************)
THEOREM DecisionsAreAlwaysRecorded == Spec => []DecisionsAreRecorded
<1>1. IInv => DecisionsAreRecorded
  BY DEF IInv
<1>2. QED
  BY <1>1, InvariantHolds, PTL

(***************************************************************************)
(* Adjudications are numbered consecutively from 0.                        *)
(***************************************************************************)
THEOREM AdjudicationsAreNumbered == Spec => []AdjudicationsNumbered
<1>1. IInv => AdjudicationsNumbered
  <2> SUFFICES ASSUME IInv PROVE AdjudicationsNumbered
    OBVIOUS
  <2>1. PICK k \in Nat : adjudications = 0 .. k - 1
    BY DEF IInv, Numbered
  <2>2. Cardinality(0 .. k - 1) = k
    BY <2>1, FS_Interval
  <2>3. QED
    BY <2>1, <2>2 DEF AdjudicationsNumbered
<1>2. QED
  BY <1>1, InvariantHolds, PTL

-----------------------------------------------------------------------------
(***************************************************************************)
(* Action properties                                                       *)
(***************************************************************************)

(***************************************************************************)
(* A table that is left alone, or gets rows at its end, extends itself.    *)
(***************************************************************************)
LEMMA ExtendsConcat ==
  ASSUME NEW S, NEW table \in Seq(S), NEW rows \in Seq(S)
  PROVE  Extends(table \o rows, table)
BY DEF Extends

(***************************************************************************)
(* A table extends itself.                                                 *)
(***************************************************************************)
LEMMA ExtendsSelf ==
  ASSUME NEW S, NEW table \in Seq(S)
  PROVE  Extends(table, table)
BY DEF Extends

(***************************************************************************)
(* One INSERT extends the table.                                           *)
(***************************************************************************)
LEMMA ExtendsAppend ==
  ASSUME NEW S, NEW table \in Seq(S), NEW row \in S
  PROVE  Extends(Append(table, row), table)
BY DEF Extends

(***************************************************************************)
(* record_action and record_bulk_action only add rows at the end.          *)
(***************************************************************************)
LEMMA ActionsExtend ==
  ASSUME TypeOK, FindingActionStep
  PROVE  Extends(worksheet_actions', worksheet_actions)
<1>1. CASE \E f \in FindingIds, a \in OfferedActions, r \in OfferedReasons :
              RecordAction(f, a, r)
  <2>1. PICK f \in FindingIds, a \in OfferedActions, r \in OfferedReasons :
              RecordAction(f, a, r)
    BY <1>1
  <2>2. a \in ActionKinds /\ r \in ReasonCodes
    BY <2>1, InputAssumption DEF RecordAction, IsValidForFinding, ReasonCodes
  <2>3. [id |-> f, action |-> a, reason |-> r] \in ActionRows(FindingIds)
    BY <2>2 DEF ActionRows
  <2>4. QED
    BY <2>1, <2>3, ExtendsAppend DEF RecordAction, TypeOK
<1>2. CASE \E s \in Selections(FindingIds), a \in OfferedActions,
              r \in OfferedReasons : RecordBulkAction(s, a, r)
  <2>1. PICK s \in Selections(FindingIds), a \in OfferedActions,
              r \in OfferedReasons : RecordBulkAction(s, a, r)
    BY <1>2
  <2>2. a \in ActionKinds /\ r \in ReasonCodes
    BY <2>1, InputAssumption DEF RecordBulkAction, IsValidForFinding, ReasonCodes
  <2>3. RowsFor(s, a, r) \in Seq(ActionRows(FindingIds))
    BY <2>2, SelectionsAreSequences, RowsForType
  <2>4. QED
    BY <2>1, <2>3, ExtendsConcat DEF RecordBulkAction, TypeOK
<1>3. QED
  BY <1>1, <1>2 DEF FindingActionStep

(***************************************************************************)
(* So do record_tie_action and the part of record_bulk_tie_action before   *)
(* the first unknown id.                                                   *)
(***************************************************************************)
LEMMA TieActionsExtend ==
  ASSUME TypeOK, TieActionStep
  PROVE  Extends(tie_actions', tie_actions)
<1>1. CASE \E t \in TieIds, a \in OfferedActions, r \in OfferedReasons :
              RecordTieAction(t, a, r)
  <2>1. PICK t \in TieIds, a \in OfferedActions, r \in OfferedReasons :
              RecordTieAction(t, a, r)
    BY <1>1
  <2>2. a \in ActionKinds /\ r \in ReasonCodes
    BY <2>1, InputAssumption DEF RecordTieAction, is_valid_tie_reason_code, ReasonCodes
  <2>3. [id |-> t, action |-> a, reason |-> r] \in ActionRows(TieIds)
    BY <2>2 DEF ActionRows
  <2>4. QED
    BY <2>1, <2>3, ExtendsAppend DEF RecordTieAction, TypeOK
<1>2. CASE \E s \in Selections(TieIds), a \in OfferedActions,
              r \in OfferedReasons : RecordBulkTieAction(s, a, r)
  <2>1. PICK s \in Selections(TieIds), a \in OfferedActions,
              r \in OfferedReasons : RecordBulkTieAction(s, a, r)
    BY <1>2
  <2>2. a \in ActionKinds /\ r \in ReasonCodes
    BY <2>1, InputAssumption DEF RecordBulkTieAction, is_valid_tie_reason_code, ReasonCodes
  <2>3. PICK n \in 0..Len(s) :
          tie_actions' = tie_actions \o RowsFor(SubSeq(s, 1, n), a, r)
    BY <2>1 DEF RecordBulkTieAction
  <2>4. SubSeq(s, 1, n) \in Seq(TieIds)
    BY <2>3, SelectionsAreSequences
  <2>5. RowsFor(SubSeq(s, 1, n), a, r) \in Seq(ActionRows(TieIds))
    BY <2>2, <2>4, RowsForType
  <2>6. QED
    BY <2>3, <2>5, ExtendsConcat DEF TypeOK
<1>3. QED
  BY <1>1, <1>2 DEF TieActionStep

(***************************************************************************)
(* The history of a case is append-only, for any vocabulary and any number *)
(* of re-openings and reconciliations.                                     *)
(***************************************************************************)
THEOREM HistoryIsAppendOnly == Spec => HistoryOnlyGrows
<1> DEFINE Grows == /\ Extends(worksheet_actions', worksheet_actions)
                    /\ Extends(tie_actions', tie_actions)
                    /\ adjudications \subseteq adjudications'
                    /\ Extends(certifications', certifications)
                    /\ Extends(case_outcomes', case_outcomes)
<1>1. ASSUME IInv, [Next]_vars PROVE [Grows]_vars
  <2>1. /\ worksheet_actions \in Seq(ActionRows(FindingIds))
        /\ tie_actions \in Seq(ActionRows(TieIds))
        /\ certifications \in Seq(FindingIds)
        /\ case_outcomes \in Seq(VALID_OUTCOMES)
    BY <1>1 DEF IInv, TypeOK
  <2>2. /\ Extends(worksheet_actions, worksheet_actions)
        /\ Extends(tie_actions, tie_actions)
        /\ Extends(certifications, certifications)
        /\ Extends(case_outcomes, case_outcomes)
    BY <2>1, ExtendsSelf
  <2>3. CASE FindingActionStep
    BY <1>1, <2>2, <2>3, ActionsExtend, FindingActionStepFrame DEF IInv, records
  <2>4. CASE TieActionStep
    BY <1>1, <2>2, <2>4, TieActionsExtend, TieActionStepFrame DEF IInv, records
  <2>5. CASE RecordAdjudication
    BY <2>2, <2>5 DEF RecordAdjudication, actionTables
  <2>6. CASE \E f \in FindingIds : RecordCertification(f)
    BY <2>1, <2>2, <2>6, ExtendsAppend DEF RecordCertification, actionTables
  <2>7. CASE \E o \in OfferedOutcomes : RecordOutcome(o)
    BY <2>1, <2>2, <2>7, ExtendsAppend DEF RecordOutcome, OutcomesWith, actionTables
  <2>8. CASE \/ \E k \in CaseKinds : CreateCase(k)
             \/ ReconcileStep
             \/ \E id \in FindingIds \union TieIds : Explain(id)
             \/ \E target \in States : Transition(target)
    BY <2>2, <2>8 DEF CreateCase, ReconcileStep, ReconcileCase, ReconcileClashes,
                      Explain, Transition, actionTables, records
  <2>9. QED
    BY <1>1, <2>3, <2>4, <2>5, <2>6, <2>7, <2>8
    DEF Next, ReconcileStep, FindingActionStep, TieActionStep
<1>2. QED
  BY <1>1, InvariantHolds, PTL DEF Spec, HistoryOnlyGrows

(***************************************************************************)
(* What outlives its observation is the explanation of a tie, and only     *)
(* after a reconciliation that died on a repeated tie id: one that gets    *)
(* through drops the explanations of all it removes, either does so for    *)
(* findings, and an explanation is made for a current id only.             *)
(***************************************************************************)
THEOREM OnlyHalfDoneReconciliationsOrphan ==
  Spec => OrphansAreOfHalfDoneReconciliations
<1> DEFINE Excused ==
      \A id \in Orphans' \ Orphans : id \in ties \ ties' /\ state' = state
<1>1. ASSUME [Next]_vars PROVE [Excused]_vars
  <2>1. CASE \E F \in SUBSET FindingIds, T \in SUBSET TieIds : ReconcileCase(F, T)
    BY <2>1 DEF ReconcileCase, Removed, Orphans
  <2>2. CASE \E F \in SUBSET FindingIds, T \in SUBSET TieIds : ReconcileClashes(F, T)
    <3>1. PICK F \in SUBSET FindingIds, T \in SUBSET TieIds : ReconcileClashes(F, T)
      BY <2>2
    <3>2. /\ findings' = F /\ ties' = T /\ state' = state
          /\ explanations' = explanations \ (findings \ F)
      BY <3>1 DEF ReconcileClashes
    <3>3. \A id \in Orphans' \ Orphans : id \in ties \ ties'
      BY <3>2 DEF Orphans
    <3>4. QED
      BY <3>2, <3>3
  <2>3. CASE \E id \in FindingIds \union TieIds : Explain(id)
    BY <2>3 DEF Explain, Orphans
  <2>4. CASE UNCHANGED observations
    BY <2>4 DEF observations, Orphans
  <2>5. QED
    BY <1>1, <2>1, <2>2, <2>3, <2>4, FindingActionStepFrame, TieActionStepFrame
    DEF Next, vars, FindingActionStep, TieActionStep, CreateCase, Transition,
        RecordAdjudication, RecordCertification, RecordOutcome
<1>2. QED
  BY <1>1, PTL DEF Spec, OrphansAreOfHalfDoneReconciliations

(***************************************************************************)
(* The evidence, the dispositions and the decisions of a closed case stand *)
(* still until it is re-opened.                                            *)
(***************************************************************************)
THEOREM ClosedRecordsStand == Spec => ClosedRecordStands
<1> DEFINE Stands == state = "closed" =>
       UNCHANGED <<findings, ties, actionTables, adjudications, case_outcomes>>
<1>1. ASSUME [Next]_vars PROVE [Stands]_vars
  <2> SUFFICES ASSUME state = "closed", Next
               PROVE UNCHANGED <<findings, ties, actionTables, adjudications,
                                 case_outcomes>>
    BY <1>1
  <2>1. ~FindingActionStep /\ ~TieActionStep
    BY FindingActionStepFrame, TieActionStepFrame
  <2>2. ~(\E k \in CaseKinds : CreateCase(k))
    BY DEF CreateCase, NoCase
  <2>3. ~(ReconcileStep)
    BY DEF ReconcileStep, ReconcileCase, ReconcileClashes, RECONCILE_ALLOWED_STATES
  <2>4. ~RecordAdjudication /\ ~(\E o \in OfferedOutcomes : RecordOutcome(o))
    BY DEF RecordAdjudication, RecordOutcome
  <2>5. CASE \/ \E id \in FindingIds \union TieIds : Explain(id)
             \/ \E target \in States : Transition(target)
             \/ \E f \in FindingIds : RecordCertification(f)
    BY <2>5 DEF Explain, Transition, RecordCertification, observations,
                actionTables, records
  <2>6. QED
    BY <2>1, <2>2, <2>3, <2>4, <2>5
    DEF Next, ReconcileStep, FindingActionStep, TieActionStep
<1>2. QED
  BY <1>1, PTL DEF Spec, ClosedRecordStands
=============================================================================
