------------------------ MODULE CaseRefinementProofs ------------------------
(***************************************************************************)
(* CaseLifecycle implements CaseContract, for every value of the constants.*)
(***************************************************************************)
EXTENDS CaseRefinement, CaseLifecycleProofs

(***************************************************************************)
(* Without a row in the tables nothing is open.                            *)
(***************************************************************************)
LEMMA InitKeepsThePromise == Init => Contract!PromiseInit
<1> SUFFICES ASSUME Init PROVE Contract!PromiseInit
  OBVIOUS
<1>1. PhaseOf(state) = "absent"
  BY DEF Init, PhaseOf, NoCase
<1>2. Unactioned = {}
  BY DEF Init, Unactioned
<1>3. ~(adjudications # {}) /\ ~(case_outcomes # <<>>)
  BY DEF Init
<1>4. QED
  BY <1>1, <1>2, <1>3, Zenon DEF Contract!PromiseInit

(***************************************************************************)
(* Reconciliation is Gather: it is refused outside the phase "preparing".  *)
(***************************************************************************)
LEMMA ReconcileGathers ==
  ASSUME TypeOK, NEW F \in SUBSET FindingIds, NEW T \in SUBSET TieIds,
         ReconcileCase(F, T)
  PROVE  Contract!PromiseNext
<1>1. PhaseOf(state) = "preparing" /\ PhaseOf(state') = "review"
  BY DEF ReconcileCase, RECONCILE_ALLOWED_STATES, PhaseOf, NoCase
<1>2. Unactioned' \in SUBSET (FindingIds \union TieIds)
  BY DEF ReconcileCase, Unactioned
<1>3. Contract!Gather(Unactioned')
  BY <1>1 DEF ReconcileCase, records, Contract!Gather
<1>4. QED
  BY <1>2, <1>3 DEF Contract!PromiseNext

(***************************************************************************)
(* One that dies on a repeated tie id is GatherInPart: the case stays where*)
(* it was.                                                                 *)
(***************************************************************************)
LEMMA ClashGathersInPart ==
  ASSUME TypeOK, NEW F \in SUBSET FindingIds, NEW T \in SUBSET TieIds,
         ReconcileClashes(F, T)
  PROVE  Contract!PromiseNext
<1>1. PhaseOf(state) = "preparing" /\ PhaseOf(state') = PhaseOf(state)
  BY DEF ReconcileClashes, RECONCILE_ALLOWED_STATES, PhaseOf, NoCase
<1>2. Unactioned' \in SUBSET (FindingIds \union TieIds)
  BY DEF ReconcileClashes, Unactioned
<1>3. Contract!GatherInPart(Unactioned')
  BY <1>1 DEF ReconcileClashes, records, Contract!GatherInPart
<1>4. QED
  BY <1>2, <1>3 DEF Contract!PromiseNext

(***************************************************************************)
(* An analyst action, single or bulk, on either table, is Dispose of the   *)
(* observations that were open before and are not after.                   *)
(***************************************************************************)
LEMMA ActionsDispose ==
  ASSUME TypeOK, FindingActionStep \/ TieActionStep
  PROVE  Contract!PromiseNext
<1> DEFINE done == Unactioned \ Unactioned'
<1>1. /\ UNCHANGED <<state, observations, records>>
      /\ state \notin {NoCase, "closed"}
  BY FindingActionStepFrame, TieActionStepFrame
<1>2. /\ Disposed(worksheet_actions) \subseteq Disposed(worksheet_actions')
      /\ Disposed(tie_actions) \subseteq Disposed(tie_actions')
  <2>1. CASE FindingActionStep
    <3>1. Disposed(tie_actions') = Disposed(tie_actions)
      BY <2>1, FindingActionStepFrame
    <3>2. QED
      BY <2>1, <3>1, ActionsKeepType DEF FindingActionStep
  <2>2. CASE TieActionStep
    <3>1. Disposed(worksheet_actions') = Disposed(worksheet_actions)
      BY <2>2, TieActionStepFrame
    <3>2. QED
      BY <2>2, <3>1, TieActionsKeepType DEF TieActionStep
  <2>3. QED
    BY <2>1, <2>2
<1>3. Unactioned' \subseteq Unactioned
  <2>1. findings' = findings /\ ties' = ties
    BY <1>1 DEF observations
  <2>2. Unactioned' = (findings' \ Disposed(worksheet_actions'))
                        \union (ties' \ Disposed(tie_actions'))
    BY DEF Unactioned, Disposed
  <2>3. QED
    BY <1>2, <2>1, <2>2 DEF Unactioned
<1>4. done \in SUBSET (FindingIds \union TieIds)
  BY DEF Unactioned, TypeOK
<1>5. PhaseOf(state) \notin {"absent", "closed"} /\ PhaseOf(state') = PhaseOf(state)
  BY <1>1 DEF PhaseOf, NoCase, TypeOK, States
<1>6. Contract!Dispose(done)
  BY <1>1, <1>3, <1>5 DEF Contract!Dispose, records
<1>7. QED
  BY <1>4, <1>6 DEF Contract!PromiseNext

(***************************************************************************)
(* Every arrow of the lifecycle is a step of the contract, or stays inside *)
(* the phase "preparing".                                                  *)
(***************************************************************************)
LEMMA TransitionsKeepThePromise ==
  ASSUME TypeOK, NEW target \in States, Transition(target)
  PROVE  [Contract!PromiseNext]_(Contract!promise)
<1>1. /\ state \in States /\ target \in TRANSITIONS[state] /\ MayEnter(target)
      /\ state' = target
      /\ adjudications' = adjudications /\ case_outcomes' = case_outcomes
  BY DEF Transition, records
<1>2. Unactioned' = Unactioned
  BY DEF Transition, observations, actionTables, Unactioned, Disposed
<1>3. CASE state \in {"intake", "declaration_assembly"}
  <2>1. PhaseOf(state) = "preparing" /\ PhaseOf(state') = "preparing"
    BY <1>1, <1>3 DEF TRANSITIONS, States, PhaseOf, NoCase
  <2>2. QED
    BY <1>1, <1>2, <2>1 DEF Contract!promise
<1>4. CASE state = "discovery"
  <2>1. PhaseOf(state) = "preparing" /\ PhaseOf(state') = "review"
    BY <1>1, <1>4 DEF TRANSITIONS, States, PhaseOf, NoCase
  <2>2. Unactioned' \in SUBSET (FindingIds \union TieIds)
    BY <1>2 DEF Unactioned, TypeOK
  <2>3. Contract!Gather(Unactioned')
    BY <1>1, <2>1 DEF Contract!Gather
  <2>4. QED
    BY <2>2, <2>3 DEF Contract!PromiseNext
<1>5. CASE state = "worksheet"
  <2>1. PhaseOf(state) = "review" /\ PhaseOf(state') = "assessment" /\ Unactioned = {}
    BY <1>1, <1>5 DEF TRANSITIONS, States, PhaseOf, NoCase, MayEnter, can_close
  <2>2. QED
    BY <1>1, <1>2, <2>1 DEF Contract!FinishReview, Contract!PromiseNext
<1>6. CASE state = "adjudication"
  <2>1. PhaseOf(state) = "assessment"
    BY <1>6 DEF PhaseOf, NoCase
  <2>2. CASE target = "worksheet"
    <3>1. PhaseOf(state') = "review"
      BY <1>1, <2>2 DEF PhaseOf, NoCase
    <3>2. QED
      BY <1>1, <1>2, <2>1, <3>1 DEF Contract!ReturnToReview, Contract!PromiseNext
  <2>3. CASE target = "outcome"
    <3>1. PhaseOf(state') = "decision"
      BY <1>1, <2>3 DEF PhaseOf, NoCase
    <3>2. adjudications # {}
      BY <1>1, <1>6, <2>3 DEF MayEnter, next_adjudication_seq
    <3>3. QED
      BY <1>1, <1>2, <2>1, <3>1, <3>2 DEF Contract!Conclude, Contract!PromiseNext
  <2>4. QED
    BY <1>1, <1>6, <2>2, <2>3 DEF TRANSITIONS, States
<1>7. CASE state = "outcome"
  <2>1. PhaseOf(state) = "decision" /\ PhaseOf(state') = "closed"
        /\ case_outcomes # <<>>
    BY <1>1, <1>7 DEF TRANSITIONS, States, PhaseOf, NoCase, MayEnter
  <2>2. QED
    BY <1>1, <1>2, <2>1 DEF Contract!Close, Contract!PromiseNext
<1>8. CASE state = "closed"
  <2>1. PhaseOf(state) = "closed" /\ PhaseOf(state') = "preparing"
    BY <1>1, <1>8 DEF TRANSITIONS, States, PhaseOf, NoCase
  <2>2. QED
    BY <1>1, <1>2, <2>1 DEF Contract!Reopen, Contract!PromiseNext
<1>9. QED
  BY <1>1, <1>3, <1>4, <1>5, <1>6, <1>7, <1>8 DEF States

(***************************************************************************)
(* Every step of the case is a step of the contract or a stutter of it.    *)
(***************************************************************************)
LEMMA NextKeepsThePromise ==
  ASSUME IInv, [Next]_vars
  PROVE  [Contract!PromiseNext]_(Contract!promise)
<1> USE DEF IInv
<1>1. CASE \E k \in CaseKinds : CreateCase(k)
  <2>1. PhaseOf(state) = "absent" /\ PhaseOf(state') = "preparing"
    BY <1>1 DEF CreateCase, PhaseOf, NoCase
  <2>2. Unactioned' = Unactioned
    BY <1>1 DEF CreateCase, observations, actionTables, Unactioned, Disposed
  <2>3. QED
    BY <1>1, <2>1, <2>2 DEF CreateCase, records, Contract!Raise, Contract!PromiseNext
<1>2. CASE ReconcileStep
  BY <1>2, ReconcileGathers, ClashGathersInPart DEF ReconcileStep
<1>3. CASE FindingActionStep \/ TieActionStep
  BY <1>3, ActionsDispose
<1>4. CASE \E target \in States : Transition(target)
  BY <1>4, TransitionsKeepThePromise
<1>5. CASE RecordAdjudication
  <2>1. PhaseOf(state) = "assessment" /\ state' = state /\ adjudications' # {}
    BY <1>5 DEF RecordAdjudication, PhaseOf, NoCase
  <2>2. Unactioned' = Unactioned /\ case_outcomes' = case_outcomes
    BY <1>5 DEF RecordAdjudication, observations, actionTables, Unactioned, Disposed
  <2>3. QED
    BY <2>1, <2>2 DEF Contract!Assess, Contract!PromiseNext
<1>6. CASE \E o \in OfferedOutcomes : RecordOutcome(o)
  <2>1. PICK o \in OfferedOutcomes : RecordOutcome(o)
    BY <1>6
  <2>2. PhaseOf(state) = "decision" /\ state' = state
        /\ adjudications' = adjudications
    BY <2>1 DEF RecordOutcome, PhaseOf, NoCase
  <2>3. Unactioned' = Unactioned
    BY <2>1 DEF RecordOutcome, observations, actionTables, Unactioned, Disposed
  <2>4. case_outcomes' # <<>>
    BY <2>1 DEF RecordOutcome, OutcomesWith, TypeOK
  <2>5. QED
    BY <2>2, <2>3, <2>4 DEF Contract!Decide, Contract!PromiseNext
<1>7. CASE \/ \E id \in FindingIds \union TieIds : Explain(id)
           \/ \E f \in FindingIds : RecordCertification(f)
           \/ UNCHANGED vars
  <2>1. /\ state' = state /\ adjudications' = adjudications
        /\ case_outcomes' = case_outcomes
    BY <1>7 DEF Explain, RecordCertification, vars, records
  <2>2. Unactioned' = Unactioned
    BY <1>7 DEF Explain, RecordCertification, vars, observations, actionTables,
                Unactioned, Disposed
  <2>3. QED
    BY <2>1, <2>2 DEF Contract!promise
<1>8. QED
  BY <1>1, <1>2, <1>3, <1>4, <1>5, <1>6, <1>7
  DEF Next, ReconcileStep, FindingActionStep, TieActionStep

(***************************************************************************)
(* The case tables implement the promise of CaseContract.                  *)
(***************************************************************************)
THEOREM CaseImplementsContract == Spec => KeepsThePromise
<1>1. Init => Contract!PromiseInit
  BY InitKeepsThePromise
<1>2. IInv /\ [Next]_vars => [Contract!PromiseNext]_(Contract!promise)
  BY NextKeepsThePromise
<1>3. QED
  BY <1>1, <1>2, InvariantHolds, PTL DEF Spec, KeepsThePromise, Contract!Promise
=============================================================================
