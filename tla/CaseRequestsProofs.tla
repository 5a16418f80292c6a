------------------------- MODULE CaseRequestsProofs -------------------------
(***************************************************************************)
(* What overlapping requests and crashes can not break, for any number of  *)
(* requests in progress and every value of the other constants; and that   *)
(* requests that do not overlap are each one step of CaseLifecycle.        *)
(***************************************************************************)
EXTENDS CaseRequestsSerial, FiniteSetTheorems, SequenceTheorems, TLAPS

WorksheetLabels == {"worksheet", "load_findings", "effective_actions", "load_ties",
                    "effective_tie_actions"}
ReplaceLabels == {"load_subject", "load_declaration", "old_findings", "delete_findings",
                  "insert_findings", "old_ties", "delete_ties", "insert_ties"}
IntakeLabels == {"delete_subject", "insert_subject", "delete_declaration",
                 "insert_declaration"}
SaveLabels == {"delete_case", "insert_case"}

(***************************************************************************)
(* What a request in progress still knows, however old its reads are: the  *)
(* records it checked for exist, because no statement ever deletes one,    *)
(* and the adjudication number it read is at most the next free one.       *)
(***************************************************************************)
Knows(q) ==
  /\ q.at \in WorksheetLabels => q.target = "adjudication"
  /\ q.at \in ReplaceLabels => q.target \in {"worksheet", NoCase}
  /\ q.at \in IntakeLabels => q.target = "declaration_assembly"
  /\ q.at = "check_adjudication" => q.target = "outcome"
  /\ q.at = "check_outcome" => q.target = "closed" /\ adjudications # {}
  /\ q.at \in SaveLabels =>
       /\ q.target \in States
       /\ q.target \in {"outcome", "closed"} => adjudications # {}
       /\ q.target = "closed" => case_outcomes # <<>>
  /\ q.at = "insert_adjudication" => q.seq <= accepted

Types ==
  /\ request \in [Requests -> RequestRecords]
  /\ intake \subseteq IntakeRows
  /\ state \in States \union {NoCase}
  /\ findings \subseteq FindingIds
  /\ ties \subseteq TieIds
  /\ case_outcomes \in Seq(VALID_OUTCOMES)
  /\ accepted \in Nat
  /\ crashes \in Nat

RowKept ==
  created /\ state = NoCase /\ crashes = 0 => \E r \in Requests : At(r, "insert_case")

RInv ==
  /\ Types
  /\ AcceptedAreNumbered
  /\ DecisionsAreRecorded
  /\ RowKept
  /\ \A r \in Requests : Knows(request[r])

(***************************************************************************)
(* The shape of a step of request r: the other requests wait, and r knows  *)
(* afterwards what it should.                                              *)
(***************************************************************************)
Advances(r) ==
  /\ \E q \in RequestRecords : request' = [request EXCEPT ![r] = q]
  /\ Knows(request[r])'

-----------------------------------------------------------------------------
(***************************************************************************)
(* The statement that follows load_case in a transition is the one the     *)
(* arrow calls for.                                                        *)
(***************************************************************************)
LEMMA ArrowsAreChecked ==
  ASSUME NEW s \in States, NEW t \in TRANSITIONS[s]
  PROVE  /\ t \in States
         /\ FirstCheck(s, t) \in {"worksheet", "check_adjudication",
                                  "check_outcome", "delete_case"}
         /\ FirstCheck(s, t) = "worksheet" => t = "adjudication"
         /\ FirstCheck(s, t) = "check_adjudication" => t = "outcome"
         /\ FirstCheck(s, t) = "check_outcome" => s = "outcome" /\ t = "closed"
         /\ FirstCheck(s, t) = "delete_case" => t \notin {"outcome", "closed"}
<1>1. CASE s \in {"intake", "declaration_assembly", "discovery", "closed"}
  BY <1>1 DEF TRANSITIONS, States, FirstCheck
<1>2. CASE s = "worksheet"
  BY <1>2 DEF TRANSITIONS, States, FirstCheck
<1>3. CASE s = "adjudication"
  BY <1>3 DEF TRANSITIONS, States, FirstCheck
<1>4. CASE s = "outcome"
  BY <1>4 DEF TRANSITIONS, States, FirstCheck
<1>5. QED
  BY <1>1, <1>2, <1>3, <1>4 DEF States

(***************************************************************************)
(* The idle request is a request that knows nothing.                       *)
(***************************************************************************)
LEMMA IdleKnows == Idle \in RequestRecords /\ Knows(Idle)
BY DEF Idle, RequestRecords, Labels, Operations, Knows, WorksheetLabels,
       ReplaceLabels, SaveLabels, IntakeLabels

(***************************************************************************)
(* A request that ends advances, whatever else the step writes.            *)
(***************************************************************************)
LEMMA EndsAdvances ==
  ASSUME Types, NEW r \in Requests, Ends(r)
  PROVE  Advances(r)
<1>1. request'[r] = Idle
  BY DEF Ends, Types
<1>2. Knows(request[r])'
  BY <1>1 DEF Idle, Knows, WorksheetLabels, ReplaceLabels, SaveLabels, IntakeLabels
<1>3. \E q \in RequestRecords : request' = [request EXCEPT ![r] = q]
  BY IdleKnows DEF Ends
<1>4. QED
  BY <1>2, <1>3 DEF Advances

(***************************************************************************)
(* GoesTo and GoesWith change the place of the request (and its ids), and  *)
(* nothing of another request.                                             *)
(***************************************************************************)
Moves(r, label) ==
  /\ \E q \in RequestRecords : request' = [request EXCEPT ![r] = q]
  /\ request'[r].at = label
  /\ request'[r].target = request[r].target
  /\ request'[r].seq = request[r].seq

\* A request that only goes to another label moves, whatever its other fields.
LEMMA GoesToMoves ==
  ASSUME Types, NEW r \in Requests, NEW label \in Labels, GoesTo(r, label)
  PROVE  Moves(r, label)
<1> DEFINE q == [request[r] EXCEPT !.at = label]
<1>1. request[r] \in RequestRecords
  BY DEF Types
<1>2. q \in RequestRecords /\ q.at = label /\ q.target = request[r].target
        /\ q.seq = request[r].seq
  BY <1>1 DEF RequestRecords
<1>3. request' = [request EXCEPT ![r] = q]
  BY DEF GoesTo, Types
<1>4. request'[r] = q
  BY <1>3 DEF Types
<1>5. QED
  BY <1>2, <1>3, <1>4 DEF Moves

(***************************************************************************)
(* The same for GoesWith.                                                  *)
(***************************************************************************)
LEMMA GoesWithMoves ==
  ASSUME Types, NEW r \in Requests, NEW label \in Labels, NEW ids \in SUBSET Ids,
         GoesWith(r, label, ids)
  PROVE  Moves(r, label)
<1> DEFINE q == [request[r] EXCEPT !.at = label, !.ids = ids]
<1>1. request[r] \in RequestRecords
  BY DEF Types
<1>2. q \in RequestRecords /\ q.at = label /\ q.target = request[r].target
        /\ q.seq = request[r].seq
  BY <1>1 DEF RequestRecords
<1>3. request' = [request EXCEPT ![r] = q]
  BY DEF GoesWith, Types
<1>4. request'[r] = q
  BY <1>3 DEF Types
<1>5. QED
  BY <1>2, <1>3, <1>4 DEF Moves

(***************************************************************************)
(* And for GoesOn, with what is left of the lists.                         *)
(***************************************************************************)
LEMMA GoesOnMoves ==
  ASSUME Types, NEW r \in Requests, NEW label \in Labels, NEW rows \in Seq(FindingIds),
         NEW tied \in Seq(TieIds), GoesOn(r, label, rows, tied)
  PROVE  Moves(r, label)
<1> DEFINE q == [request[r] EXCEPT !.at = label, !.rows = rows, !.tied = tied]
<1>1. request[r] \in RequestRecords
  BY DEF Types
<1>2. q \in RequestRecords /\ q.at = label /\ q.target = request[r].target
        /\ q.seq = request[r].seq
  BY <1>1 DEF RequestRecords
<1>3. request' = [request EXCEPT ![r] = q]
  BY DEF GoesOn, Types
<1>4. request'[r] = q
  BY <1>3 DEF Types
<1>5. QED
  BY <1>2, <1>3, <1>4 DEF Moves

(***************************************************************************)
(* The lists a request holds are lists of ids, and so is what is left of   *)
(* them after the first.                                                   *)
(***************************************************************************)
LEMMA ListsShorten ==
  ASSUME Types, NEW r \in Requests
  PROVE  /\ request[r].rows \in Seq(FindingIds) /\ request[r].tied \in Seq(TieIds)
         /\ request[r].rows # <<>> => /\ Head(request[r].rows) \in FindingIds
                                      /\ Tail(request[r].rows) \in Seq(FindingIds)
         /\ request[r].tied # <<>> => /\ Head(request[r].tied) \in TieIds
                                      /\ Tail(request[r].tied) \in Seq(TieIds)
<1>1. request[r].rows \in Seq(FindingIds) /\ request[r].tied \in Seq(TieIds)
  BY DEF Types, RequestRecords
<1>2. QED
  BY <1>1

(***************************************************************************)
(* Starts gives the request its first label, its target and its ids.       *)
(***************************************************************************)
LEMMA StartsIs ==
  ASSUME Types, NEW r \in Requests, NEW op \in Operations, NEW label \in Labels,
         NEW target \in States \union {NoCase}, NEW ids \in SUBSET Ids,
         Starts(r, op, label, target, ids)
  PROVE  /\ \E q \in RequestRecords : request' = [request EXCEPT ![r] = q]
         /\ request'[r].at = label
         /\ request'[r].target = target
<1>0. PICK idle \in RequestRecords : idle = Idle
  BY IdleKnows
<1> DEFINE q == [idle EXCEPT !.op = op, !.at = label, !.target = target, !.ids = ids]
<1>1. q \in RequestRecords /\ q.at = label /\ q.target = target
  BY DEF RequestRecords
<1>2. request' = [request EXCEPT ![r] = q]
  BY <1>0 DEF Starts
<1>3. request'[r] = q
  BY <1>2 DEF Types
<1>4. QED
  BY <1>1, <1>2, <1>3

(***************************************************************************)
(* StartsWith gives it its first label and its lists.                      *)
(***************************************************************************)
LEMMA StartsWithIs ==
  ASSUME Types, NEW r \in Requests, NEW op \in Operations, NEW label \in Labels,
         NEW rows \in Seq(FindingIds), NEW tied \in Seq(TieIds),
         StartsWith(r, op, label, rows, tied)
  PROVE  /\ \E q \in RequestRecords : request' = [request EXCEPT ![r] = q]
         /\ request'[r].at = label
<1>0. PICK idle \in RequestRecords : idle = Idle
  BY IdleKnows
<1> DEFINE q == [idle EXCEPT !.op = op, !.at = label, !.rows = rows, !.tied = tied]
<1>1. q \in RequestRecords /\ q.at = label
  BY DEF RequestRecords
<1>2. request' = [request EXCEPT ![r] = q]
  BY <1>0 DEF StartsWith
<1>3. request'[r] = q
  BY <1>2 DEF Types
<1>4. QED
  BY <1>1, <1>2, <1>3

(***************************************************************************)
(* The lists a client names, and a discovery returns, are lists of ids.    *)
(***************************************************************************)
LEMMA SelectionsAreLists ==
  ASSUME NEW S, NEW selection \in Selections(S)
  PROVE  selection \in Seq(S)
BY InputAssumption DEF Selections

-----------------------------------------------------------------------------
(***************************************************************************)
(* Every first statement leaves the request knowing what it should.        *)
(***************************************************************************)
LEMMA BeginAdvances ==
  ASSUME RInv, NEW r \in Requests, Begin(r)
  PROVE  Advances(r) /\ UNCHANGED <<vars, intake, history>>
<1> USE DEF RInv
<1> USE DEF WorksheetLabels, ReplaceLabels, SaveLabels, IntakeLabels
<1>1. CASE CreateLooks(r)
  <2>1. Starts(r, "create", "delete_subject", "declaration_assembly", {})
    BY <1>1 DEF CreateLooks
  <2>2. /\ \E q \in RequestRecords : request' = [request EXCEPT ![r] = q]
        /\ request'[r].at = "delete_subject"
        /\ request'[r].target = "declaration_assembly"
    <3>1. /\ "create" \in Operations /\ "delete_subject" \in Labels
          /\ "declaration_assembly" \in States \union {NoCase} /\ {} \in SUBSET Ids
      BY DEF Operations, Labels, States
    <3>2. Types
      OBVIOUS
    <3> HIDE DEF RInv, WorksheetLabels, ReplaceLabels, SaveLabels, IntakeLabels
    <3>3. QED
      BY <2>1, <3>1, <3>2, StartsIs
  <2>3. Knows(request[r])'
    BY <2>2 DEF Knows, States
  <2>4. QED
    BY <1>1, <2>2, <2>3 DEF CreateLooks, Reads, Advances
<1>2. CASE \E target \in States : TransitionLoads(r, target)
  <2>1. PICK target \in States : TransitionLoads(r, target)
    BY <1>2
  <2> DEFINE label == FirstCheck(state, target)
  <2>2. /\ state \in States /\ target \in TRANSITIONS[state]
        /\ Starts(r, "transition", label, target, {})
        /\ UNCHANGED <<vars, intake, history>>
    BY <2>1 DEF TransitionLoads, Reads
  <2>3. /\ label \in {"worksheet", "check_adjudication", "check_outcome", "delete_case"}
        /\ label = "worksheet" => target = "adjudication"
        /\ label = "check_adjudication" => target = "outcome"
        /\ label = "check_outcome" => state = "outcome" /\ target = "closed"
        /\ label = "delete_case" => target \notin {"outcome", "closed"}
    BY <2>2, ArrowsAreChecked
  <2>4. /\ \E q \in RequestRecords : request' = [request EXCEPT ![r] = q]
        /\ request'[r].at = label
        /\ request'[r].target = target
    <3>1. label \in Labels /\ "transition" \in Operations
      BY <2>3 DEF Labels, Operations
    <3>2. QED
      BY <2>2, <3>1, StartsIs
  <2>5. state = "outcome" => adjudications # {}
    BY DEF DecisionsAreRecorded
  <2>6. adjudications' = adjudications
    BY <2>2 DEF vars, records
  <2>7. Knows(request[r])'
    BY <2>3, <2>4, <2>5, <2>6 DEF Knows
  <2>8. QED
    BY <2>2, <2>4, <2>7 DEF Advances
<1>3. CASE ReconcileLooks(r)
  <2>1. /\ \E q \in RequestRecords : request' = [request EXCEPT ![r] = q]
        /\ request'[r].at = "load_case"
    BY <1>3, StartsIs DEF ReconcileLooks, Operations, Labels
  <2>2. QED
    BY <1>3, <2>1 DEF ReconcileLooks, Reads, Advances, Knows
<1>4. CASE \E selection \in Selections(FindingIds) : ActionLoads(r, selection)
  <2>1. PICK selection \in Selections(FindingIds) : ActionLoads(r, selection)
    BY <1>4
  <2>2. /\ selection \in Seq(FindingIds) /\ <<>> \in Seq(TieIds)
        /\ "act" \in Operations /\ "known_ids" \in Labels
    BY SelectionsAreLists DEF Operations, Labels
  <2>3. /\ \E q \in RequestRecords : request' = [request EXCEPT ![r] = q]
        /\ request'[r].at = "known_ids"
    <3>1. Types
      OBVIOUS
    <3> HIDE DEF RInv, WorksheetLabels, ReplaceLabels, SaveLabels, IntakeLabels
    <3>2. QED
      BY <2>1, <2>2, <3>1, StartsWithIs DEF ActionLoads
  <2>4. QED
    BY <2>1, <2>3 DEF ActionLoads, Reads, Advances, Knows
<1>5. CASE AdjudicationLoads(r)
  <2>1. /\ \E q \in RequestRecords : request' = [request EXCEPT ![r] = q]
        /\ request'[r].at = "next_seq"
    BY <1>5, StartsIs DEF AdjudicationLoads, Operations, Labels
  <2>2. QED
    BY <1>5, <2>1 DEF AdjudicationLoads, Reads, Advances, Knows
<1>6. CASE OutcomeLoads(r)
  <2>1. /\ \E q \in RequestRecords : request' = [request EXCEPT ![r] = q]
        /\ request'[r].at = "insert_outcome"
    BY <1>6, StartsIs DEF OutcomeLoads, Operations, Labels
  <2>2. QED
    BY <1>6, <2>1 DEF OutcomeLoads, Reads, Advances, Knows
<1>7. CASE \E id \in Ids : ExplainLoads(r, id)
  <2>1. /\ \E q \in RequestRecords : request' = [request EXCEPT ![r] = q]
        /\ request'[r].at = "find_primary"
    BY <1>7, StartsIs DEF ExplainLoads, Operations, Labels
  <2>2. QED
    BY <1>7, <2>1 DEF ExplainLoads, Reads, Advances, Knows
<1>8. CASE \E f \in FindingIds : CertificationLoads(r, f)
  <2>1. PICK f \in FindingIds : CertificationLoads(r, f)
    BY <1>8
  <2>2. /\ <<f>> \in Seq(FindingIds) /\ <<>> \in Seq(TieIds)
        /\ "certify" \in Operations /\ "known_ids" \in Labels
    BY DEF Operations, Labels
  <2>3. /\ \E q \in RequestRecords : request' = [request EXCEPT ![r] = q]
        /\ request'[r].at = "known_ids"
    <3>1. Types
      OBVIOUS
    <3> HIDE DEF RInv, WorksheetLabels, ReplaceLabels, SaveLabels, IntakeLabels
    <3>2. QED
      BY <2>1, <2>2, <3>1, StartsWithIs DEF CertificationLoads
  <2>4. QED
    BY <2>1, <2>3 DEF CertificationLoads, Reads, Advances, Knows
<1>9. CASE \E selection \in Selections(TieIds) : TieActionLoads(r, selection)
  <2>1. PICK selection \in Selections(TieIds) : TieActionLoads(r, selection)
    BY <1>9
  <2>2. /\ selection \in Seq(TieIds) /\ <<>> \in Seq(FindingIds)
        /\ "act_on_ties" \in Operations /\ "known_ties" \in Labels
    BY SelectionsAreLists DEF Operations, Labels
  <2>3. /\ \E q \in RequestRecords : request' = [request EXCEPT ![r] = q]
        /\ request'[r].at = "known_ties"
    <3>1. Types
      OBVIOUS
    <3> HIDE DEF RInv, WorksheetLabels, ReplaceLabels, SaveLabels, IntakeLabels
    <3>2. QED
      BY <2>1, <2>2, <3>1, StartsWithIs DEF TieActionLoads
  <2>4. QED
    BY <2>1, <2>3 DEF TieActionLoads, Reads, Advances, Knows
<1>10. QED
  BY <1>1, <1>2, <1>3, <1>4, <1>5, <1>6, <1>7, <1>8, <1>9 DEF Begin

-----------------------------------------------------------------------------
(***************************************************************************)
(* The statements of a request that only read.                             *)
(***************************************************************************)
ReadStep(r) ==
  \/ WorksheetLoads(r) \/ LoadFindings(r) \/ EffectiveActions(r)
  \/ LoadTies(r) \/ EffectiveTieActions(r)
  \/ CheckAdjudication(r) \/ CheckOutcome(r)
  \/ ReconcileLoads(r) \/ LoadSubject(r) \/ LoadDeclaration(r)
  \/ \E ids \in SUBSET FindingIds : OldFindings(r, ids)
  \/ \E list \in Selections(TieIds) : OldTies(r, list)
  \/ OutsideFails(r) \/ KnownIds(r) \/ KnownTies(r) \/ NextTie(r)
  \/ NextSeq(r) \/ FindPrimary(r) \/ LoadCached(r)

(***************************************************************************)
(* The statements that write tables the state and the records of the case  *)
(* do not depend on.                                                       *)
(***************************************************************************)
SideStep(r) ==
  \/ DeleteFindings(r) \/ \E f \in FindingIds : InsertFinding(r, f)
  \/ DropFindingExplanations(r)
  \/ DeleteTies(r) \/ InsertTie(r)
  \/ DropTieExplanations(r) \/ WriteManifest(r)
  \/ InsertAction(r) \/ InsertTieAction(r) \/ InsertCertification(r)
  \/ DeleteSubject(r) \/ InsertSubject(r)
  \/ DeleteDeclaration(r) \/ InsertDeclaration(r)
  \/ SaveExplanation(r)

(***************************************************************************)
(* A request that moves on keeps its target; what it has to know at the    *)
(* next statement follows from where it was, or has just been checked.     *)
(***************************************************************************)
LEMMA MovesAdvances ==
  ASSUME Types, NEW r \in Requests, NEW label \in Labels, Moves(r, label),
         Knows(request[r]),
         UNCHANGED <<adjudications, case_outcomes, accepted>>,
         label \in WorksheetLabels => request[r].at \in WorksheetLabels,
         label \in ReplaceLabels => request[r].at \in ReplaceLabels,
         label \in IntakeLabels => request[r].at \in IntakeLabels,
         label \notin {"check_adjudication", "check_outcome", "insert_adjudication"},
         label = "insert_case" => request[r].at = "delete_case",
         label = "delete_case" =>
           \/ request[r].at \in WorksheetLabels
           \/ request[r].at \in ReplaceLabels /\ request[r].target # NoCase
           \/ request[r].at \in IntakeLabels
           \/ request[r].at = "check_adjudication" /\ adjudications # {}
           \/ request[r].at = "check_outcome" /\ case_outcomes # <<>>
  PROVE  Advances(r)
<1> DEFINE at == request[r].at  target == request[r].target
<1>1. request'[r].at = label /\ request'[r].target = target
  BY DEF Moves
<1>2. label \in WorksheetLabels => target = "adjudication"
  BY DEF Knows
<1>3. label \in ReplaceLabels => target \in {"worksheet", NoCase}
  BY DEF Knows
<1>4. label \in IntakeLabels => target = "declaration_assembly"
  BY DEF Knows
<1>5. label \in SaveLabels =>
        /\ target \in States
        /\ target \in {"outcome", "closed"} => adjudications # {}
        /\ target = "closed" => case_outcomes # <<>>
  <2>1. CASE label = "insert_case"
    BY <2>1 DEF Knows, SaveLabels
  <2>2. CASE label = "delete_case"
    BY <2>2 DEF Knows, States, NoCase
  <2>3. QED
    BY <2>1, <2>2 DEF SaveLabels
<1>6. Knows(request[r])'
  BY <1>1, <1>2, <1>3, <1>4, <1>5 DEF Knows
<1>7. QED
  BY <1>6 DEF Advances, Moves

(***************************************************************************)
(* Since the numbers have no gap, the next one is the number accepted.     *)
(***************************************************************************)
LEMMA NumberedByAccepted ==
  ASSUME Types, AcceptedAreNumbered
  PROVE  next_adjudication_seq = accepted
<1>1. accepted \in Nat /\ adjudications = 0 .. accepted - 1
  BY DEF Types, AcceptedAreNumbered
<1>2. CASE accepted = 0
  BY <1>1, <1>2 DEF next_adjudication_seq
<1>3. CASE accepted # 0
  <2>1. accepted - 1 \in adjudications /\ \A m \in adjudications : m <= accepted - 1
    BY <1>1, <1>3
  <2>2. (CHOOSE n \in adjudications : \A m \in adjudications : m <= n) = accepted - 1
    BY <1>1, <2>1
  <2>3. adjudications # {}
    BY <2>1
  <2>4. next_adjudication_seq = 1 + (accepted - 1)
    BY <2>2, <2>3, Zenon DEF next_adjudication_seq
  <2>5. QED
    BY <1>1, <2>4
<1>4. QED
  BY <1>2, <1>3

(***************************************************************************)
(* A statement that reads leaves the request knowing what it should.       *)
(***************************************************************************)
LEMMA ReadStepAdvances ==
  ASSUME RInv, NEW r \in Requests, ReadStep(r)
  PROVE  /\ Advances(r)
         /\ UNCHANGED <<vars, intake, history>>
         /\ ~At(r, "insert_case")
<1> DEFINE at == request[r].at
<1>1. Types /\ Knows(request[r])
  BY DEF RInv
<1>2. /\ UNCHANGED <<vars, intake, history>>
      /\ ~At(r, "insert_case")
  BY DEF ReadStep, WorksheetLoads, LoadFindings, EffectiveActions, LoadTies,
         EffectiveTieActions, CheckAdjudication, CheckOutcome, ReconcileLoads,
         LoadSubject, LoadDeclaration, OldFindings, OldTies, KnownIds, KnownTies, NextTie,
         OutsideFails, NextSeq,
         FindPrimary, LoadCached, Reads, At
<1>3. UNCHANGED <<adjudications, case_outcomes, accepted>>
  BY <1>2 DEF vars, records, history
<1>4. request[r].ids \in SUBSET Ids
  BY <1>1 DEF Types, RequestRecords
<1>5. CASE Ends(r)
  BY <1>1, <1>2, <1>5, EndsAdvances
<1>6. CASE WorksheetLoads(r) /\ ~Ends(r)
  <2>1. at = "worksheet" /\ GoesTo(r, "load_findings")
    BY <1>6 DEF WorksheetLoads, At
  <2>2. Moves(r, "load_findings")
    BY <1>1, <2>1, GoesToMoves DEF Labels
  <2>3. QED
    BY <1>1, <1>2, <1>3, <2>1, <2>2, MovesAdvances
    DEF WorksheetLabels, ReplaceLabels, IntakeLabels, Labels
<1>7. CASE LoadFindings(r)
  <2>1. at = "load_findings" /\ GoesWith(r, "effective_actions", findings)
    BY <1>7 DEF LoadFindings, At
  <2>2. Moves(r, "effective_actions")
    BY <1>1, <2>1, GoesWithMoves DEF Labels, Types, Ids
  <2>3. QED
    BY <1>1, <1>2, <1>3, <2>1, <2>2, MovesAdvances
    DEF WorksheetLabels, ReplaceLabels, IntakeLabels, Labels
<1>8. CASE EffectiveActions(r)
  <2>1. at = "effective_actions"
        /\ GoesWith(r, "load_ties", request[r].ids \ Disposed(worksheet_actions))
    BY <1>8 DEF EffectiveActions, At
  <2>2. Moves(r, "load_ties")
    BY <1>1, <1>4, <2>1, GoesWithMoves DEF Labels
  <2>3. QED
    BY <1>1, <1>2, <1>3, <2>1, <2>2, MovesAdvances
    DEF WorksheetLabels, ReplaceLabels, IntakeLabels, Labels
<1>9. CASE LoadTies(r)
  <2>1. at = "load_ties"
        /\ GoesWith(r, "effective_tie_actions", request[r].ids \union ties)
    BY <1>9 DEF LoadTies, At
  <2>2. Moves(r, "effective_tie_actions")
    <3>1. request[r].ids \union ties \in SUBSET Ids
      BY <1>1, <1>4 DEF Types, Ids
    <3>2. QED
      BY <1>1, <2>1, <3>1, GoesWithMoves DEF Labels
  <2>3. QED
    BY <1>1, <1>2, <1>3, <2>1, <2>2, MovesAdvances
    DEF WorksheetLabels, ReplaceLabels, IntakeLabels, Labels
<1>10. CASE EffectiveTieActions(r) /\ ~Ends(r)
  <2>1. at = "effective_tie_actions" /\ GoesWith(r, "delete_case", {})
    BY <1>10 DEF EffectiveTieActions, At
  <2>2. Moves(r, "delete_case")
    BY <1>1, <2>1, GoesWithMoves DEF Labels
  <2>3. QED
    BY <1>1, <1>2, <1>3, <2>1, <2>2, MovesAdvances
    DEF WorksheetLabels, ReplaceLabels, IntakeLabels, Labels
<1>11. CASE CheckAdjudication(r) /\ ~Ends(r)
  <2>1. at = "check_adjudication" /\ GoesTo(r, "delete_case")
        /\ adjudications # {}
    BY <1>11 DEF CheckAdjudication, At, next_adjudication_seq
  <2>2. Moves(r, "delete_case")
    BY <1>1, <2>1, GoesToMoves DEF Labels
  <2>3. QED
    BY <1>1, <1>2, <1>3, <2>1, <2>2, MovesAdvances
    DEF WorksheetLabels, ReplaceLabels, IntakeLabels, Labels
<1>12. CASE CheckOutcome(r) /\ ~Ends(r)
  <2>1. at = "check_outcome" /\ GoesTo(r, "delete_case") /\ case_outcomes # <<>>
    BY <1>12 DEF CheckOutcome, At
  <2>2. Moves(r, "delete_case")
    BY <1>1, <2>1, GoesToMoves DEF Labels
  <2>3. QED
    BY <1>1, <1>2, <1>3, <2>1, <2>2, MovesAdvances
    DEF WorksheetLabels, ReplaceLabels, IntakeLabels, Labels
<1>13. CASE ReconcileLoads(r) /\ ~Ends(r)
  <2> DEFINE t == IF state \in RECONCILE_ALLOWED_STATES THEN "worksheet" ELSE NoCase
  <2> DEFINE q == [request[r] EXCEPT !.at = "load_subject", !.target = t]
  <2>1. request' = [request EXCEPT ![r] = q]
    BY <1>1, <1>13 DEF ReconcileLoads, Types
  <2>2. q \in RequestRecords /\ q.at = "load_subject" /\ q.target \in {"worksheet", NoCase}
    <3>1. request[r] \in RequestRecords
      BY <1>1 DEF Types
    <3>2. "load_subject" \in Labels /\ t \in States \union {NoCase}
      BY DEF Labels, States
    <3>3. t \in {"worksheet", NoCase}
      OBVIOUS
    <3> HIDE DEF t
    <3>4. QED
      BY <3>1, <3>2, <3>3 DEF RequestRecords
  <2>3. request'[r] = q
    BY <1>1, <2>1 DEF Types
  <2>4. Knows(request[r])'
    <3>1. request'[r].at = "load_subject" /\ request'[r].target \in {"worksheet", NoCase}
      BY <2>2, <2>3
    <3>2. QED
      BY <3>1 DEF Knows, WorksheetLabels, SaveLabels, IntakeLabels
  <2>5. QED
    BY <1>2, <2>1, <2>2, <2>4 DEF Advances
<1>14. CASE \E ids \in SUBSET FindingIds : OldFindings(r, ids)
  <2>1. PICK ids \in SUBSET FindingIds : OldFindings(r, ids)
    BY <1>14
  <2> DEFINE q == [request[r] EXCEPT !.at = "delete_findings", !.ids = ids,
                                     !.gone = findings \ ids]
  <2>2. request' = [request EXCEPT ![r] = q]
    BY <1>1, <2>1 DEF OldFindings, Types
  <2>3. /\ q \in RequestRecords /\ q.at = "delete_findings"
        /\ q.target = request[r].target /\ q.seq = request[r].seq
    <3>1. request[r] \in RequestRecords /\ findings \ ids \subseteq Ids /\ ids \subseteq Ids
      BY <1>1 DEF Types, Ids
    <3>2. "delete_findings" \in Labels
      BY DEF Labels
    <3>3. QED
      BY <3>1, <3>2 DEF RequestRecords
  <2>4. request'[r] = q
    BY <1>1, <2>2 DEF Types
  <2>5. Moves(r, "delete_findings")
    BY <2>2, <2>3, <2>4 DEF Moves
  <2>6. at = "old_findings"
    BY <2>1 DEF OldFindings, At
  <2>7. QED
    BY <1>1, <1>2, <1>3, <2>5, <2>6, MovesAdvances
    DEF WorksheetLabels, ReplaceLabels, IntakeLabels, Labels
<1>15. CASE \E list \in Selections(TieIds) : OldTies(r, list)
  <2>1. PICK list \in Selections(TieIds) : OldTies(r, list)
    BY <1>15
  <2>2. list \in Seq(TieIds)
    BY SelectionsAreLists
  <2> DEFINE q == [request[r] EXCEPT !.at = "delete_ties", !.tied = list,
                                     !.gone = ties \ Range(list)]
  <2>3. request' = [request EXCEPT ![r] = q]
    BY <1>1, <2>1 DEF OldTies, Types
  <2>4. /\ q \in RequestRecords /\ q.at = "delete_ties"
        /\ q.target = request[r].target /\ q.seq = request[r].seq
    <3>1. request[r] \in RequestRecords /\ ties \ Range(list) \subseteq Ids
      BY <1>1 DEF Types, Ids
    <3>2. "delete_ties" \in Labels
      BY DEF Labels
    <3>3. QED
      BY <2>2, <3>1, <3>2 DEF RequestRecords
  <2>5. request'[r] = q
    BY <1>1, <2>3 DEF Types
  <2>6. Moves(r, "delete_ties")
    BY <2>3, <2>4, <2>5 DEF Moves
  <2>7. at = "old_ties"
    BY <2>1 DEF OldTies, At
  <2>8. QED
    BY <1>1, <1>2, <1>3, <2>6, <2>7, MovesAdvances
    DEF WorksheetLabels, ReplaceLabels, IntakeLabels, Labels
<1>16. CASE KnownIds(r) /\ ~Ends(r)
  <2> DEFINE label == IF request[r].op = "certify" THEN "insert_certification"
                      ELSE "insert_actions"
  <2>1. label \in Labels /\ GoesTo(r, label)
    BY <1>16 DEF KnownIds, KnownTies, NextTie, OutsideFails, Labels
  <2>2. Moves(r, label)
    BY <1>1, <2>1, GoesToMoves
  <2>3. QED
    BY <1>1, <1>2, <1>3, <2>1, <2>2, MovesAdvances
    DEF WorksheetLabels, ReplaceLabels, IntakeLabels, Labels
<1>17. CASE NextSeq(r)
  <2> DEFINE q == [request[r] EXCEPT !.at = "insert_adjudication",
                                     !.seq = next_adjudication_seq]
  <2>1. request' = [request EXCEPT ![r] = q]
    BY <1>1, <1>17 DEF NextSeq, Types
  <2>2. next_adjudication_seq = accepted
    BY NumberedByAccepted DEF RInv
  <2>3. q \in RequestRecords /\ q.at = "insert_adjudication" /\ q.seq = accepted
    <3>1. request[r] \in RequestRecords /\ accepted \in Nat
      BY <1>1 DEF Types
    <3>2. "insert_adjudication" \in Labels
      BY DEF Labels
    <3>3. QED
      BY <2>2, <3>1, <3>2 DEF RequestRecords
  <2>4. request'[r] = q
    BY <1>1, <2>1 DEF Types
  <2>5. Knows(request[r])'
    <3>1. request'[r].at = "insert_adjudication" /\ request'[r].seq = accepted'
          /\ accepted \in Nat
      BY <1>1, <1>3, <2>3, <2>4 DEF Types
    <3>2. QED
      BY <1>3, <3>1 DEF Knows, WorksheetLabels, ReplaceLabels, SaveLabels, IntakeLabels
  <2>6. QED
    BY <1>2, <2>1, <2>3, <2>5 DEF Advances
<1>18. CASE FindPrimary(r) /\ ~Ends(r)
  <2>1. Moves(r, "load_cached")
    BY <1>1, <1>18, GoesToMoves DEF FindPrimary, Labels
  <2>2. QED
    BY <1>1, <1>2, <1>3, <2>1, MovesAdvances
    DEF WorksheetLabels, ReplaceLabels, IntakeLabels, Labels
<1>19. CASE LoadCached(r) /\ ~Ends(r)
  <2>1. Moves(r, "save_explanation")
    BY <1>1, <1>19, GoesToMoves DEF LoadCached, Labels
  <2>2. QED
    BY <1>1, <1>2, <1>3, <2>1, MovesAdvances
    DEF WorksheetLabels, ReplaceLabels, IntakeLabels, Labels
<1>20. CASE LoadSubject(r) /\ ~Ends(r)
  <2>1. at = "load_subject" /\ Moves(r, "load_declaration")
    BY <1>1, <1>20, GoesToMoves DEF LoadSubject, At, Labels
  <2>2. QED
    BY <1>1, <1>2, <1>3, <2>1, MovesAdvances
    DEF WorksheetLabels, ReplaceLabels, IntakeLabels, Labels
<1>21. CASE LoadDeclaration(r) /\ ~Ends(r)
  <2>1. at = "load_declaration" /\ Moves(r, "old_findings")
    BY <1>1, <1>21, GoesToMoves DEF LoadDeclaration, At, Labels
  <2>2. QED
    BY <1>1, <1>2, <1>3, <2>1, MovesAdvances
    DEF WorksheetLabels, ReplaceLabels, IntakeLabels, Labels
<1>22. CASE KnownTies(r) /\ ~Ends(r)
  <2>1. Moves(r, "insert_tie_action")
    BY <1>1, <1>22, GoesToMoves DEF KnownTies, Labels
  <2>2. QED
    BY <1>1, <1>2, <1>3, <2>1, MovesAdvances
    DEF WorksheetLabels, ReplaceLabels, IntakeLabels, Labels
<1>23. CASE NextTie(r) /\ ~Ends(r)
  <2>1. Moves(r, "known_ties")
    BY <1>1, <1>23, GoesToMoves DEF NextTie, Labels
  <2>2. QED
    BY <1>1, <1>2, <1>3, <2>1, MovesAdvances
    DEF WorksheetLabels, ReplaceLabels, IntakeLabels, Labels
<1>24. QED
  BY <1>5, <1>6, <1>7, <1>8, <1>9, <1>10, <1>11, <1>12, <1>13, <1>14, <1>15,
     <1>16, <1>17, <1>18, <1>19, <1>20, <1>21, <1>22, <1>23 DEF ReadStep, OutsideFails

(***************************************************************************)
(* So does a statement that writes observations, explanations, actions or  *)
(* the manifest, and it leaves the case and its records alone.             *)
(***************************************************************************)
LEMMA SideStepAdvances ==
  ASSUME RInv, NEW r \in Requests, SideStep(r)
  PROVE  /\ Advances(r)
         /\ UNCHANGED <<state, adjudications, case_outcomes, history>>
         /\ findings' \subseteq FindingIds /\ ties' \subseteq TieIds /\ intake' \subseteq IntakeRows
         /\ ~At(r, "insert_case")
<1> DEFINE at == request[r].at
<1>1. Types /\ Knows(request[r])
  BY DEF RInv
<1>2. /\ UNCHANGED <<state, adjudications, case_outcomes, history>>
      /\ ~At(r, "insert_case")
  BY DEF SideStep, DeleteFindings, InsertFinding, DropFindingExplanations, DeleteTies,
         InsertTie, DropTieExplanations, WriteManifest, InsertAction, InsertTieAction,
         InsertCertification, SaveExplanation, DeleteSubject, InsertSubject,
         DeleteDeclaration, InsertDeclaration, Removes, Adds, vars, records, At
<1>3. findings' \subseteq FindingIds /\ ties' \subseteq TieIds /\ intake' \subseteq IntakeRows
  <2>1. CASE InsertAction(r) \/ InsertTieAction(r)
    BY <1>1, <2>1 DEF InsertAction, InsertTieAction, observations, Types
  <2>2. CASE InsertCertification(r)
    BY <1>1, <2>2 DEF InsertCertification, observations, Types
  <2>3. CASE \/ DeleteSubject(r) \/ InsertSubject(r)
             \/ DeleteDeclaration(r) \/ InsertDeclaration(r)
    BY <1>1, <2>3 DEF DeleteSubject, InsertSubject, DeleteDeclaration,
         InsertDeclaration, Removes, Adds, vars, observations, Types, IntakeRows
  <2>4. CASE \/ DeleteFindings(r) \/ \E f \in FindingIds : InsertFinding(r, f)
             \/ DropFindingExplanations(r)
             \/ DeleteTies(r) \/ InsertTie(r)
             \/ DropTieExplanations(r) \/ WriteManifest(r)
             \/ SaveExplanation(r)
    BY <1>1, <2>4, ListsShorten DEF DeleteFindings, InsertFinding,
         DropFindingExplanations, DeleteTies, InsertTie, DropTieExplanations,
         WriteManifest, SaveExplanation, Types
  <2>5. QED
    BY <2>1, <2>2, <2>3, <2>4 DEF SideStep
<1>4. UNCHANGED <<adjudications, case_outcomes, accepted>>
  BY <1>2 DEF history
<1>5. request[r].ids \in SUBSET Ids
  BY <1>1 DEF Types, RequestRecords
<1>6. CASE Ends(r)
  BY <1>1, <1>2, <1>3, <1>6, EndsAdvances
<1>7. CASE DeleteFindings(r)
  <2>1. at = "delete_findings" /\ Moves(r, "insert_findings")
    BY <1>1, <1>7, GoesToMoves DEF DeleteFindings, At, Labels
  <2>2. QED
    BY <1>1, <1>2, <1>3, <1>4, <2>1, MovesAdvances
    DEF WorksheetLabels, ReplaceLabels, IntakeLabels, Labels
<1>8. CASE DropFindingExplanations(r)
  <2>1. at = "insert_findings" /\ Moves(r, "old_ties")
    BY <1>1, <1>8, GoesToMoves DEF DropFindingExplanations, At, Labels
  <2>2. QED
    BY <1>1, <1>2, <1>3, <1>4, <2>1, MovesAdvances
    DEF WorksheetLabels, ReplaceLabels, IntakeLabels, Labels
<1>9. CASE DeleteTies(r)
  <2>1. at = "delete_ties" /\ Moves(r, "insert_ties")
    BY <1>1, <1>9, GoesToMoves DEF DeleteTies, At, Labels
  <2>2. QED
    BY <1>1, <1>2, <1>3, <1>4, <2>1, MovesAdvances
    DEF WorksheetLabels, ReplaceLabels, IntakeLabels, Labels
<1>10. CASE (\E f \in FindingIds : InsertFinding(r, f)) /\ ~Ends(r)
  <2>1. PICK f \in FindingIds : InsertFinding(r, f)
    BY <1>10
  <2>2. at = "insert_findings" /\ GoesWith(r, "insert_findings", request[r].ids \ {f})
    BY <1>10, <2>1 DEF InsertFinding, At
  <2>3. Moves(r, "insert_findings")
    BY <1>1, <1>5, <2>2, GoesWithMoves DEF Labels
  <2>4. QED
    BY <1>1, <1>2, <1>3, <1>4, <2>2, <2>3, MovesAdvances
    DEF WorksheetLabels, ReplaceLabels, IntakeLabels, Labels
<1>11. CASE InsertTie(r) /\ ~Ends(r)
  <2>1. /\ at = "insert_ties"
        /\ GoesOn(r, "insert_ties", request[r].rows, Tail(request[r].tied))
        /\ request[r].tied # <<>>
    BY <1>11 DEF InsertTie, At
  <2>2. Moves(r, "insert_ties")
    BY <1>1, <2>1, ListsShorten, GoesOnMoves DEF Labels
  <2>3. QED
    BY <1>1, <1>2, <1>3, <1>4, <2>1, <2>2, MovesAdvances
    DEF WorksheetLabels, ReplaceLabels, IntakeLabels, Labels
<1>12. CASE InsertAction(r) /\ ~Ends(r)
  <2>1. /\ at = "insert_actions"
        /\ GoesOn(r, "insert_actions", Tail(request[r].rows), request[r].tied)
        /\ request[r].rows # <<>>
    BY <1>12 DEF InsertAction, At
  <2>2. Moves(r, "insert_actions")
    BY <1>1, <2>1, ListsShorten, GoesOnMoves DEF Labels
  <2>3. QED
    BY <1>1, <1>2, <1>3, <1>4, <2>1, <2>2, MovesAdvances
    DEF WorksheetLabels, ReplaceLabels, IntakeLabels, Labels
<1>13. CASE DropTieExplanations(r)
  <2> DEFINE label == IF request[r].target = NoCase THEN "write_manifest"
                      ELSE "delete_case"
  <2>1. at = "insert_ties" /\ GoesTo(r, label) /\ label \in Labels
    BY <1>13 DEF DropTieExplanations, At, Labels
  <2>2. Moves(r, label)
    BY <1>1, <2>1, GoesToMoves
  <2>3. QED
    BY <1>1, <1>2, <1>3, <1>4, <2>1, <2>2, MovesAdvances
    DEF WorksheetLabels, ReplaceLabels, IntakeLabels
<1>14. CASE DeleteSubject(r)
  <2>1. at = "delete_subject" /\ Moves(r, "insert_subject")
    BY <1>1, <1>14, GoesToMoves DEF DeleteSubject, Removes, At, Labels
  <2>2. QED
    BY <1>1, <1>2, <1>3, <1>4, <2>1, MovesAdvances
    DEF WorksheetLabels, ReplaceLabels, IntakeLabels, Labels
<1>15. CASE InsertSubject(r) /\ ~Ends(r)
  <2>1. at = "insert_subject" /\ Moves(r, "delete_declaration")
    BY <1>1, <1>15, GoesToMoves DEF InsertSubject, Adds, At, Labels
  <2>2. QED
    BY <1>1, <1>2, <1>3, <1>4, <2>1, MovesAdvances
    DEF WorksheetLabels, ReplaceLabels, IntakeLabels, Labels
<1>16. CASE DeleteDeclaration(r)
  <2>1. at = "delete_declaration" /\ Moves(r, "insert_declaration")
    BY <1>1, <1>16, GoesToMoves DEF DeleteDeclaration, Removes, At, Labels
  <2>2. QED
    BY <1>1, <1>2, <1>3, <1>4, <2>1, MovesAdvances
    DEF WorksheetLabels, ReplaceLabels, IntakeLabels, Labels
<1>17. CASE InsertDeclaration(r) /\ ~Ends(r)
  <2>1. at = "insert_declaration" /\ Moves(r, "delete_case")
    BY <1>1, <1>17, GoesToMoves DEF InsertDeclaration, Adds, At, Labels
  <2>2. QED
    BY <1>1, <1>2, <1>3, <1>4, <2>1, MovesAdvances
    DEF WorksheetLabels, ReplaceLabels, IntakeLabels, Labels
<1>18. CASE InsertTieAction(r) /\ ~Ends(r)
  <2>1. /\ at = "insert_tie_action"
        /\ GoesOn(r, "next_tie", request[r].rows, Tail(request[r].tied))
        /\ request[r].tied # <<>>
    BY <1>18 DEF InsertTieAction, At
  <2>2. Moves(r, "next_tie")
    BY <1>1, <2>1, ListsShorten, GoesOnMoves DEF Labels
  <2>3. QED
    BY <1>1, <1>2, <1>3, <1>4, <2>1, <2>2, MovesAdvances
    DEF WorksheetLabels, ReplaceLabels, IntakeLabels, Labels
<1>19. QED
  BY <1>6, <1>7, <1>8, <1>9, <1>10, <1>11, <1>12, <1>13, <1>14, <1>15, <1>16, <1>17, <1>18
  DEF SideStep, WriteManifest, InsertCertification, SaveExplanation

(***************************************************************************)
(* The two statements of save_case. Between them the row is missing, and   *)
(* this request stands before its INSERT.                                  *)
(***************************************************************************)
LEMMA DeleteCaseAdvances ==
  ASSUME RInv, NEW r \in Requests, DeleteCase(r)
  PROVE  /\ Advances(r)
         /\ state' = NoCase /\ At(r, "insert_case")'
         /\ UNCHANGED <<observations, records, intake, history>>
<1>1. Types /\ Knows(request[r])
  BY DEF RInv
<1>2. request[r].at = "delete_case" /\ Moves(r, "insert_case")
  BY <1>1, GoesToMoves DEF DeleteCase, At, Labels
<1>3. UNCHANGED <<observations, records, intake, history>> /\ state' = NoCase
  BY DEF DeleteCase
<1>4. Advances(r)
  BY <1>1, <1>2, <1>3, MovesAdvances
  DEF WorksheetLabels, ReplaceLabels, IntakeLabels, Labels, records, history
<1>5. At(r, "insert_case")'
  BY <1>2 DEF At, Moves
<1>6. QED
  BY <1>3, <1>4, <1>5

(***************************************************************************)
(* After an INSERT on cases, refused or not, the row is there; the state   *)
(* it holds rests on the records the request checked for.                  *)
(***************************************************************************)
LEMMA InsertCaseAdvances ==
  ASSUME RInv, NEW r \in Requests, InsertCase(r)
  PROVE  /\ Advances(r)
         /\ state' \in States
         /\ state' = state \/ state' = request[r].target
         /\ UNCHANGED <<observations, records, intake, accepted, crashes>>
<1>1. Types /\ Knows(request[r])
  BY DEF RInv
<1>2. request[r].at = "insert_case"
  BY DEF InsertCase, At
<1>3. request[r].target \in States
  BY <1>1, <1>2 DEF Knows, SaveLabels
<1>4. UNCHANGED <<observations, records, intake, accepted, crashes>>
  BY DEF InsertCase
<1>5. state' \in States /\ (state' = state \/ state' = request[r].target)
  BY <1>1, <1>3 DEF InsertCase, Types
<1>6. Advances(r)
  <2>1. CASE Ends(r)
    BY <1>1, <2>1, EndsAdvances
  <2>2. CASE GoesTo(r, "write_manifest")
    <3>1. Moves(r, "write_manifest")
      BY <1>1, <2>2, GoesToMoves DEF Labels
    <3>2. QED
      BY <1>1, <1>4, <3>1, MovesAdvances
      DEF WorksheetLabels, ReplaceLabels, IntakeLabels, Labels, records
  <2>3. QED
    BY <2>1, <2>2 DEF InsertCase
<1>7. QED
  BY <1>4, <1>5, <1>6

-----------------------------------------------------------------------------
(***************************************************************************)
(* What the other requests know stays true: records are never deleted.     *)
(***************************************************************************)
LEMMA OthersStillKnow ==
  ASSUME RInv, NEW r \in Requests, Advances(r),
         adjudications # {} => adjudications' # {},
         case_outcomes # <<>> => case_outcomes' # <<>>,
         accepted' \in Nat, accepted <= accepted'
  PROVE  /\ request' \in [Requests -> RequestRecords]
         /\ \A q \in Requests : Knows(request[q])'
         /\ \A q \in Requests : q # r /\ At(q, "insert_case") => At(q, "insert_case")'
<1>1. Types
  BY DEF RInv
<1>2. PICK new \in RequestRecords : request' = [request EXCEPT ![r] = new]
  BY DEF Advances
<1>3. \A q \in Requests : q # r => request'[q] = request[q]
  BY <1>1, <1>2 DEF Types
<1>4. ASSUME NEW q \in Requests PROVE Knows(request[q])'
  <2>1. CASE q = r
    BY <2>1 DEF Advances
  <2>2. CASE q # r
    <3>1. Knows(request[q]) /\ request'[q] = request[q] /\ request[q] \in RequestRecords
      BY <1>1, <1>3, <2>2 DEF RInv, Types
    <3>2. request[q].seq \in Nat /\ accepted \in Nat
      BY <1>1, <3>1 DEF RequestRecords, Types
    <3>3. QED
      BY <3>1, <3>2 DEF Knows
  <2>3. QED
    BY <2>1, <2>2
<1>5. request' \in [Requests -> RequestRecords]
  BY <1>1, <1>2 DEF Types
<1>6. QED
  BY <1>3, <1>4, <1>5 DEF At

(***************************************************************************)
(* A step that leaves the case, its records and the history alone, taken   *)
(* by a request that does not stand before an INSERT on cases.             *)
(***************************************************************************)
LEMMA QuietStepKeepsInvariant ==
  ASSUME RInv, NEW r \in Requests, Advances(r),
         UNCHANGED <<state, adjudications, case_outcomes, history>>,
         findings' \subseteq FindingIds, ties' \subseteq TieIds,
         intake' \subseteq IntakeRows,
         ~At(r, "insert_case")
  PROVE  RInv'
<1>1. Types
  BY DEF RInv
<1>2. /\ adjudications' = adjudications /\ case_outcomes' = case_outcomes
      /\ accepted' = accepted /\ created' = created /\ crashes' = crashes
      /\ state' = state
  BY DEF history
<1>3. /\ request' \in [Requests -> RequestRecords]
      /\ \A q \in Requests : Knows(request[q])'
      /\ \A q \in Requests : q # r /\ At(q, "insert_case") => At(q, "insert_case")'
  BY <1>1, <1>2, OthersStillKnow DEF Types
<1>4. Types'
  BY <1>1, <1>2, <1>3 DEF Types
<1>5. RowKept'
  BY <1>2, <1>3 DEF RInv, RowKept
<1>6. AcceptedAreNumbered' /\ DecisionsAreRecorded'
  BY <1>2 DEF RInv, AcceptedAreNumbered, DecisionsAreRecorded
<1>7. QED
  BY <1>3, <1>4, <1>5, <1>6 DEF RInv

(***************************************************************************)
(* A DELETE on cases: the request that deleted the row will insert it.     *)
(***************************************************************************)
LEMMA DeleteCaseKeepsInvariant ==
  ASSUME RInv, NEW r \in Requests, DeleteCase(r)
  PROVE  RInv'
<1>1. /\ Types /\ Advances(r) /\ state' = NoCase /\ At(r, "insert_case")'
      /\ UNCHANGED <<observations, records, intake, history>>
  BY DeleteCaseAdvances DEF RInv
<1>2. /\ findings' = findings /\ ties' = ties
      /\ adjudications' = adjudications /\ case_outcomes' = case_outcomes
      /\ accepted' = accepted /\ created' = created /\ crashes' = crashes
  BY <1>1 DEF observations, records, history
<1>3. /\ request' \in [Requests -> RequestRecords]
      /\ \A q \in Requests : Knows(request[q])'
  BY <1>1, <1>2, OthersStillKnow DEF Types
<1>4. Types'
  BY <1>1, <1>2, <1>3 DEF Types
<1>5. RowKept'
  BY <1>1 DEF RowKept
<1>6. AcceptedAreNumbered' /\ DecisionsAreRecorded'
  BY <1>1, <1>2 DEF RInv, AcceptedAreNumbered, DecisionsAreRecorded, NoCase
<1>7. QED
  BY <1>3, <1>4, <1>5, <1>6 DEF RInv

(***************************************************************************)
(* An INSERT on cases: the row is there again, and a decided state rests   *)
(* on the records its request knows of.                                    *)
(***************************************************************************)
LEMMA InsertCaseKeepsInvariant ==
  ASSUME RInv, NEW r \in Requests, InsertCase(r)
  PROVE  RInv'
<1>1. /\ Types /\ Advances(r) /\ state' \in States
      /\ state' = state \/ state' = request[r].target
      /\ UNCHANGED <<observations, records, intake, accepted, crashes>>
  BY InsertCaseAdvances DEF RInv
<1>2. /\ findings' = findings /\ ties' = ties
      /\ adjudications' = adjudications /\ case_outcomes' = case_outcomes
      /\ accepted' = accepted /\ crashes' = crashes
  BY <1>1 DEF observations, records
<1>3. /\ request' \in [Requests -> RequestRecords]
      /\ \A q \in Requests : Knows(request[q])'
  BY <1>1, <1>2, OthersStillKnow DEF Types
<1>4. Types'
  BY <1>1, <1>2, <1>3 DEF Types
<1>5. RowKept'
  BY <1>1 DEF RowKept, States, NoCase
<1>6. DecisionsAreRecorded'
  <2>1. Knows(request[r]) /\ request[r].at = "insert_case"
    BY DEF RInv, InsertCase, At
  <2>2. QED
    BY <1>1, <1>2, <2>1 DEF RInv, Knows, SaveLabels, DecisionsAreRecorded
<1>7. AcceptedAreNumbered'
  BY <1>2 DEF RInv, AcceptedAreNumbered
<1>8. QED
  BY <1>3, <1>4, <1>5, <1>6, <1>7 DEF RInv

(***************************************************************************)
(* An INSERT on adjudications: a number that is not taken is the next one, *)
(* since the number read was at most the next one then.                    *)
(***************************************************************************)
LEMMA InsertAdjudicationKeepsInvariant ==
  ASSUME RInv, NEW r \in Requests, InsertAdjudication(r)
  PROVE  RInv'
<1> DEFINE seq == request[r].seq
<1>1. /\ Types /\ Advances(r) /\ ~At(r, "insert_case")
      /\ UNCHANGED <<state, observations, case_outcomes, intake, created, crashes>>
      /\ adjudications' = adjudications \union {seq}
      /\ accepted' = IF seq \in adjudications THEN accepted ELSE accepted + 1
  BY EndsAdvances DEF RInv, InsertAdjudication, At
<1>2. seq \in Nat /\ accepted \in Nat /\ seq <= accepted
  BY <1>1 DEF RInv, Types, RequestRecords, Knows, InsertAdjudication, At
<1>3. adjudications = 0 .. accepted - 1
  BY DEF RInv, AcceptedAreNumbered
<1>4. AcceptedAreNumbered' /\ accepted' \in Nat /\ accepted <= accepted'
  <2>1. CASE seq \in adjudications
    BY <1>1, <1>2, <1>3, <2>1 DEF AcceptedAreNumbered
  <2>2. CASE seq \notin adjudications
    <3>1. seq = accepted
      BY <1>2, <1>3, <2>2
    <3>2. adjudications' = 0 .. (accepted + 1) - 1 /\ accepted' = accepted + 1
      BY <1>1, <1>2, <1>3, <2>2, <3>1
    <3>3. QED
      BY <1>2, <3>2 DEF AcceptedAreNumbered
  <2>3. QED
    BY <2>1, <2>2
<1>5. /\ request' \in [Requests -> RequestRecords]
      /\ \A q \in Requests : Knows(request[q])'
      /\ \A q \in Requests : q # r /\ At(q, "insert_case") => At(q, "insert_case")'
  BY <1>1, <1>4, OthersStillKnow
<1>6. Types'
  BY <1>1, <1>4, <1>5 DEF Types, observations
<1>7. RowKept'
  BY <1>1, <1>5 DEF RInv, RowKept
<1>8. DecisionsAreRecorded'
  BY <1>1 DEF RInv, DecisionsAreRecorded
<1>9. QED
  BY <1>4, <1>5, <1>6, <1>7, <1>8 DEF RInv

(***************************************************************************)
(* An INSERT on case_outcomes adds to the records.                         *)
(***************************************************************************)
LEMMA InsertOutcomeKeepsInvariant ==
  ASSUME RInv, NEW r \in Requests, NEW o, InsertOutcome(r, o)
  PROVE  RInv'
<1>1. /\ Types /\ Advances(r) /\ ~At(r, "insert_case")
      /\ UNCHANGED <<state, observations, adjudications, intake, history>>
      /\ o \in VALID_OUTCOMES /\ case_outcomes' = Append(case_outcomes, o)
  BY EndsAdvances DEF RInv, InsertOutcome, OutcomesWith, At
<1>2. case_outcomes' \in Seq(VALID_OUTCOMES) /\ case_outcomes' # <<>>
  BY <1>1 DEF Types
<1>3. accepted' = accepted /\ created' = created /\ crashes' = crashes
  BY <1>1 DEF history
<1>4. /\ request' \in [Requests -> RequestRecords]
      /\ \A q \in Requests : Knows(request[q])'
      /\ \A q \in Requests : q # r /\ At(q, "insert_case") => At(q, "insert_case")'
  BY <1>1, <1>2, <1>3, OthersStillKnow DEF Types
<1>5. Types'
  BY <1>1, <1>2, <1>3, <1>4 DEF Types, observations
<1>6. RowKept'
  BY <1>1, <1>3, <1>4 DEF RInv, RowKept
<1>7. DecisionsAreRecorded' /\ AcceptedAreNumbered'
  BY <1>1, <1>2, <1>3 DEF RInv, DecisionsAreRecorded, AcceptedAreNumbered
<1>8. QED
  BY <1>4, <1>5, <1>6, <1>7 DEF RInv

(***************************************************************************)
(* A crash loses the requests, and no row that was written.                *)
(***************************************************************************)
LEMMA CrashKeepsInvariant ==
  ASSUME RInv, Crash
  PROVE  RInv'
<1>1. /\ Types /\ request' = [q \in Requests |-> Idle] /\ crashes' = crashes + 1
      /\ UNCHANGED <<vars, intake, accepted>>
  BY DEF RInv, Crash
<1>2. \A q \in Requests : request'[q] = Idle
  BY <1>1
<1>3. Types'
  BY <1>1, IdleKnows DEF Types, vars, observations, records
<1>4. RowKept'
  BY <1>1 DEF RowKept, Types
<1>5. AcceptedAreNumbered' /\ DecisionsAreRecorded'
  BY <1>1 DEF RInv, AcceptedAreNumbered, DecisionsAreRecorded, vars, records
<1>6. \A q \in Requests : Knows(request[q])'
  BY <1>2 DEF Idle, Knows, WorksheetLabels, ReplaceLabels, SaveLabels, IntakeLabels
<1>7. QED
  BY <1>3, <1>4, <1>5, <1>6 DEF RInv

-----------------------------------------------------------------------------
(***************************************************************************)
(* RInv holds at the start and is kept by every statement of every request *)
(* and by a crash.                                                         *)
(***************************************************************************)
LEMMA RInvInductive ==
  /\ RequestsInit => RInv
  /\ RInv /\ [RequestsNext]_requestVars => RInv'
<1>1. RequestsInit => RInv
  <2> SUFFICES ASSUME RequestsInit PROVE RInv
    OBVIOUS
  <2>1. request \in [Requests -> RequestRecords]
    BY IdleKnows DEF RequestsInit
  <2>2. case_outcomes \in Seq(VALID_OUTCOMES)
    BY DEF RequestsInit, Init
  <2>3. Types
    BY <2>1, <2>2 DEF RequestsInit, Init, Types
  <2>4. AcceptedAreNumbered /\ RowKept
    BY DEF RequestsInit, Init, AcceptedAreNumbered, RowKept
  <2>5. DecisionsAreRecorded
    BY DEF RequestsInit, Init, DecisionsAreRecorded, NoCase
  <2>6. \A q \in Requests : Knows(request[q])
    BY IdleKnows DEF RequestsInit
  <2>7. QED
    BY <2>3, <2>4, <2>5, <2>6 DEF RInv
<1>2. ASSUME RInv, [RequestsNext]_requestVars PROVE RInv'
  <2>1. CASE Crash
    BY <1>2, <2>1, CrashKeepsInvariant
  <2>2. CASE \E r \in Requests : Begin(r)
    <3>1. PICK r \in Requests : Begin(r)
      BY <2>2
    <3>2. Advances(r) /\ UNCHANGED <<vars, intake, history>>
      BY <1>2, <3>1, BeginAdvances
    <3>3. ~At(r, "insert_case")
      BY <3>1 DEF Begin, CreateLooks, TransitionLoads, ReconcileLooks, ActionLoads,
      TieActionLoads,
                  CertificationLoads, AdjudicationLoads, OutcomeLoads, ExplainLoads, At
    <3>4. /\ UNCHANGED <<state, adjudications, case_outcomes, history>>
          /\ findings' \subseteq FindingIds /\ ties' \subseteq TieIds
          /\ intake' \subseteq IntakeRows
      BY <1>2, <3>2 DEF RInv, Types, vars, observations, records
    <3>5. QED
      BY <1>2, <3>2, <3>3, <3>4, QuietStepKeepsInvariant
  <2>3. CASE \E r \in Requests : ReadStep(r)
    <3>1. PICK r \in Requests : ReadStep(r)
      BY <2>3
    <3>2. Advances(r) /\ UNCHANGED <<vars, intake, history>> /\ ~At(r, "insert_case")
      BY <1>2, <3>1, ReadStepAdvances
    <3>3. /\ UNCHANGED <<state, adjudications, case_outcomes, history>>
          /\ findings' \subseteq FindingIds /\ ties' \subseteq TieIds
          /\ intake' \subseteq IntakeRows
      BY <1>2, <3>2 DEF RInv, Types, vars, observations, records
    <3>4. QED
      BY <1>2, <3>2, <3>3, QuietStepKeepsInvariant
  <2>4. CASE \E r \in Requests : SideStep(r)
    BY <1>2, <2>4, SideStepAdvances, QuietStepKeepsInvariant
  <2>5. CASE \E r \in Requests :
               \/ DeleteCase(r) \/ InsertCase(r) \/ InsertAdjudication(r)
               \/ \E o \in OfferedOutcomes : InsertOutcome(r, o)
    BY <1>2, <2>5, DeleteCaseKeepsInvariant, InsertCaseKeepsInvariant,
       InsertAdjudicationKeepsInvariant, InsertOutcomeKeepsInvariant
  <2>6. CASE UNCHANGED requestVars
    <3>1. UNCHANGED <<state, findings, ties, adjudications, case_outcomes, intake, request,
                      created, accepted, crashes>>
      BY <2>6 DEF requestVars, vars, observations, records, history
    <3>2. QED
      BY <1>2, <3>1 DEF RInv, Types, AcceptedAreNumbered, DecisionsAreRecorded,
                        RowKept, At, Knows
  <2>7. QED
    BY <1>2, <2>1, <2>2, <2>3, <2>4, <2>5, <2>6
    DEF RequestsNext, Continue, ReadStep, SideStep
<1>3. QED
  BY <1>1, <1>2

(***************************************************************************)
(* The inductive invariant holds in every reachable state.                 *)
(***************************************************************************)
LEMMA RInvHolds == RequestsSpec => []RInv
BY RInvInductive, PTL DEF RequestsSpec

(***************************************************************************)
(* The checks of transition() on the adjudication and the outcome survive  *)
(* stale reads and crashes, unlike the closure rule.                       *)
(***************************************************************************)
THEOREM DecisionsAreRecordedUnderRaces == RequestsSpec => []DecisionsAreRecorded
<1>1. RInv => DecisionsAreRecorded
  BY DEF RInv
<1>2. QED
  BY <1>1, RInvHolds, PTL

(***************************************************************************)
(* Accepted adjudications are numbered without a gap or a repetition,      *)
(* whoever adjudicates at the same time.                                   *)
(***************************************************************************)
THEOREM AcceptedAdjudicationsAreNumbered == RequestsSpec => []AcceptedAreNumbered
<1>1. RInv => AcceptedAreNumbered
  BY DEF RInv
<1>2. QED
  BY <1>1, RInvHolds, PTL

-----------------------------------------------------------------------------
(***************************************************************************)
(* The rows of the subject and the declaration. Only a creation deletes    *)
(* them, and it puts each back before it goes on: so once one creation has *)
(* passed a row, the row is there or a creation is about to insert it.     *)
(* Every other request found a case, which a creation had inserted.        *)
(***************************************************************************)
PastSubject == {"delete_declaration", "insert_declaration"} \union SaveLabels

PassedBy(labels) ==
  created \/ \E r \in Requests : request[r].op = "create" /\ request[r].at \in labels

KnowsCase(q) ==
  /\ q.op = "create" => q.at \in IntakeLabels \union SaveLabels
  /\ q.op = "none" => q.at = "idle"
  /\ q.op \notin {"create", "none"} => created
  /\ q.at \in IntakeLabels => q.op = "create"

SubjectKept == PassedBy(PastSubject) /\ "subject" \notin intake =>
                 \E r \in Requests : At(r, "insert_subject")

DeclarationKept == PassedBy(SaveLabels) /\ "declaration" \notin intake =>
                     \E r \in Requests : At(r, "insert_declaration")

IntakeInv ==
  /\ state # NoCase => created
  /\ \A r \in Requests : KnowsCase(request[r])
  /\ crashes = 0 => SubjectKept /\ DeclarationKept

(***************************************************************************)
(* A step of request r and of no other request.                            *)
(***************************************************************************)
Alone(r) == /\ request' \in [Requests -> RequestRecords]
            /\ \A q \in Requests : q # r => request'[q] = request[q]

(***************************************************************************)
(* Request r is away from the intake and from save_case; it ends, or it    *)
(* keeps its operation and stays away from the intake.                     *)
(***************************************************************************)
StaysAway(r) ==
  /\ request[r].at \notin IntakeLabels \union SaveLabels \union {"idle"}
  /\ \/ request'[r] = Idle
     \/ request'[r].op = request[r].op /\ request'[r].at \notin IntakeLabels

(***************************************************************************)
(* Such a step keeps the invariant, and so does the first statement of a   *)
(* request that found the case.                                            *)
(***************************************************************************)
LEMMA AwayKeepsIntake ==
  ASSUME IntakeInv, NEW r \in Requests, Alone(r),
         UNCHANGED <<state, intake, created, crashes>>,
         \/ StaysAway(r)
         \/ /\ request[r].at = "idle" /\ state # NoCase
            /\ request'[r].op \notin {"create", "none"}
            /\ request'[r].at \notin IntakeLabels
  PROVE  IntakeInv'
<1>1. KnowsCase(request[r])' /\ request'[r].op # "create"
      /\ request[r].at \notin IntakeLabels \union SaveLabels
  BY DEF IntakeInv, KnowsCase, StaysAway, Idle, IntakeLabels, SaveLabels
<1>2. \A q \in Requests : KnowsCase(request[q])'
  BY <1>1 DEF Alone, IntakeInv, KnowsCase
<1>3. ASSUME NEW labels, PassedBy(labels)' PROVE PassedBy(labels)
  BY <1>1, <1>3 DEF PassedBy, Alone
<1>4. ASSUME NEW label \in IntakeLabels, NEW q \in Requests, At(q, label)
      PROVE  At(q, label)'
  BY <1>1, <1>4 DEF At, Alone
<1>5. crashes = 0 => SubjectKept' /\ DeclarationKept'
  BY <1>3, <1>4 DEF IntakeInv, SubjectKept, DeclarationKept, IntakeLabels, PastSubject
<1>6. QED
  BY <1>2, <1>5 DEF IntakeInv

(***************************************************************************)
(* A DELETE or an INSERT on the intake: the DELETE goes to its INSERT, and *)
(* the INSERT puts the row there before the creation passes it.            *)
(***************************************************************************)
LEMMA IntakeStepKeepsIntake ==
  ASSUME Types, IntakeInv, NEW r \in Requests, Alone(r),
         \/ DeleteSubject(r) \/ InsertSubject(r)
         \/ DeleteDeclaration(r) \/ InsertDeclaration(r)
  PROVE  IntakeInv'
<1> DEFINE at == request[r].at
<1>1. at \in IntakeLabels /\ request[r].op = "create"
  BY DEF IntakeInv, KnowsCase, DeleteSubject, InsertSubject, DeleteDeclaration,
         InsertDeclaration, Removes, Adds, At, IntakeLabels
<1>2. UNCHANGED <<state, created, crashes>>
  BY DEF DeleteSubject, InsertSubject, DeleteDeclaration, InsertDeclaration,
         Removes, Adds, vars, history
<1>3. \/ request'[r] = Idle
      \/ /\ request'[r].op = "create"
         /\ <<at, request'[r].at>> \in {<<"delete_subject", "insert_subject">>,
                                        <<"insert_subject", "delete_declaration">>,
                                        <<"delete_declaration", "insert_declaration">>,
                                        <<"insert_declaration", "delete_case">>}
  <2>1. request[r] \in RequestRecords
    BY DEF Types
  <2>2. Ends(r) => request'[r] = Idle
    BY DEF Ends, Types
  <2>3. ASSUME NEW label, GoesTo(r, label)
        PROVE  request'[r].op = request[r].op /\ request'[r].at = label
    BY <2>1, <2>3 DEF GoesTo, Types, RequestRecords
  <2>4. QED
    BY <1>1, <2>2, <2>3 DEF DeleteSubject, InsertSubject, DeleteDeclaration,
         InsertDeclaration, Removes, Adds, At
<1>4. \A q \in Requests : KnowsCase(request[q])'
  BY <1>1, <1>2, <1>3 DEF Alone, IntakeInv, KnowsCase, Idle, IntakeLabels, SaveLabels
<1>5. PassedBy(SaveLabels)' => PassedBy(SaveLabels) \/ at = "insert_declaration"
  BY <1>1, <1>2, <1>3 DEF PassedBy, Alone, Idle, IntakeLabels, SaveLabels
<1>6. PassedBy(PastSubject)' => PassedBy(PastSubject) \/ at = "insert_subject"
  BY <1>1, <1>2, <1>3 DEF PassedBy, Alone, Idle, IntakeLabels, SaveLabels, PastSubject
<1>7. ASSUME NEW label, NEW q \in Requests, At(q, label), label # at
      PROVE  At(q, label)'
  BY <1>7 DEF At, Alone
<1>8. crashes = 0 => SubjectKept' /\ DeclarationKept'
  <2> SUFFICES ASSUME crashes = 0 PROVE SubjectKept' /\ DeclarationKept'
    OBVIOUS
  <2>0. SubjectKept /\ DeclarationKept
    BY DEF IntakeInv
  <2>1. CASE DeleteSubject(r)
    <3>1. At(r, "insert_subject")' /\ intake' = intake \ {"subject"} /\ at = "delete_subject"
      BY <2>1, GoesToMoves DEF DeleteSubject, Removes, Moves, At, Labels
    <3>2. QED
      BY <2>0, <3>1, <1>5, <1>7 DEF SubjectKept, DeclarationKept
  <2>2. CASE InsertSubject(r)
    <3>1. intake' = intake \union {"subject"} /\ at = "insert_subject"
      BY <2>2 DEF InsertSubject, Adds, At
    <3>2. QED
      BY <2>0, <3>1, <1>5, <1>7 DEF SubjectKept, DeclarationKept
  <2>3. CASE DeleteDeclaration(r)
    <3>1. /\ At(r, "insert_declaration")' /\ intake' = intake \ {"declaration"}
          /\ at = "delete_declaration"
      BY <2>3, GoesToMoves DEF DeleteDeclaration, Removes, Moves, At, Labels
    <3>2. QED
      BY <2>0, <3>1, <1>6, <1>7 DEF SubjectKept, DeclarationKept
  <2>4. CASE InsertDeclaration(r)
    <3>1. intake' = intake \union {"declaration"} /\ at = "insert_declaration"
      BY <2>4 DEF InsertDeclaration, Adds, At
    <3>2. QED
      BY <2>0, <3>1, <1>6, <1>7 DEF SubjectKept, DeclarationKept
  <2>5. QED
    BY <2>1, <2>2, <2>3, <2>4
<1>9. QED
  BY <1>2, <1>4, <1>8 DEF IntakeInv

(***************************************************************************)
(* save_case: the row is only inserted by a creation that has passed both  *)
(* others, or after one.                                                   *)
(***************************************************************************)
LEMMA SaveCaseKeepsIntake ==
  ASSUME Types, IntakeInv, NEW r \in Requests, Alone(r),
         DeleteCase(r) \/ InsertCase(r)
  PROVE  IntakeInv'
<1>1. request[r].at \in SaveLabels /\ request[r].op # "none"
  BY DEF DeleteCase, InsertCase, At, SaveLabels, IntakeInv, KnowsCase
<1>2. PassedBy(SaveLabels) /\ PassedBy(PastSubject)
  BY <1>1 DEF IntakeInv, KnowsCase, PassedBy, PastSubject
<1>3. intake' = intake /\ crashes' = crashes /\ (created => created')
  BY DEF DeleteCase, InsertCase, history
<1>4. state' # NoCase => created'
  BY DEF DeleteCase, InsertCase, IntakeInv
<1>5. \/ request'[r] = Idle
      \/ /\ request'[r].op = request[r].op
         /\ \/ request'[r].at = "insert_case"
            \/ request'[r].at = "write_manifest" /\ request[r].op = "reconcile"
  <2>1. request[r] \in RequestRecords
    BY DEF Types
  <2>2. Ends(r) => request'[r] = Idle
    BY DEF Ends, Types
  <2>3. ASSUME NEW label, GoesTo(r, label)
        PROVE  request'[r].op = request[r].op /\ request'[r].at = label
    BY <2>1, <2>3 DEF GoesTo, Types, RequestRecords
  <2>4. QED
    BY <2>2, <2>3 DEF DeleteCase, InsertCase
<1>6. request'[r].op \notin {"create", "none"} => created'
  BY <1>1, <1>3, <1>5 DEF IntakeInv, KnowsCase, Idle
<1>7. KnowsCase(request[r])'
  BY <1>1, <1>5, <1>6 DEF KnowsCase, Idle, SaveLabels, IntakeLabels
<1>8. \A q \in Requests : KnowsCase(request[q])'
  BY <1>3, <1>7 DEF Alone, IntakeInv, KnowsCase
<1>9. ASSUME NEW label \in IntakeLabels, NEW q \in Requests, At(q, label)
      PROVE  At(q, label)'
  BY <1>1, <1>9 DEF At, Alone, IntakeLabels, SaveLabels
<1>10. crashes = 0 => SubjectKept' /\ DeclarationKept'
  BY <1>2, <1>3, <1>9 DEF IntakeInv, SubjectKept, DeclarationKept, IntakeLabels
<1>11. QED
  BY <1>3, <1>4, <1>8, <1>10 DEF IntakeInv

(***************************************************************************)
(* A request that moves on keeps its operation.                            *)
(***************************************************************************)
LEMMA OperationStays ==
  ASSUME Types, NEW r \in Requests, NEW label \in Labels,
         label \notin IntakeLabels,
         GoesTo(r, label) \/ \E ids \in SUBSET Ids : GoesWith(r, label, ids)
  PROVE  request'[r].op = request[r].op /\ request'[r].at \notin IntakeLabels
<1>1. request[r] \in RequestRecords
  BY DEF Types
<1>2. CASE GoesTo(r, label)
  BY <1>1, <1>2 DEF GoesTo, Types, RequestRecords
<1>3. CASE \E ids \in SUBSET Ids : GoesWith(r, label, ids)
  BY <1>1, <1>3 DEF GoesWith, Types, RequestRecords
<1>4. QED
  BY <1>2, <1>3

(***************************************************************************)
(* So does one that goes on with what is left of its lists.                *)
(***************************************************************************)
LEMMA OperationGoesOn ==
  ASSUME Types, NEW r \in Requests, NEW label \in Labels, label \notin IntakeLabels,
         NEW rows, NEW tied, GoesOn(r, label, rows, tied)
  PROVE  request'[r].op = request[r].op /\ request'[r].at \notin IntakeLabels
<1>1. request[r] \in RequestRecords
  BY DEF Types
<1>2. request'[r] = [request[r] EXCEPT !.at = label, !.rows = rows, !.tied = tied]
  BY DEF GoesOn, Types
<1>3. QED
  BY <1>1, <1>2 DEF RequestRecords

(***************************************************************************)
(* The statements that only read stay away from the intake.                *)
(***************************************************************************)
LEMMA ReadStepStaysAway ==
  ASSUME Types, NEW r \in Requests, ReadStep(r)
  PROVE  StaysAway(r)
<1> DEFINE NextLabels == Labels \ IntakeLabels
<1>1. request[r].ids \in SUBSET Ids /\ findings \in SUBSET Ids /\ ties \in SUBSET Ids
  BY DEF Types, RequestRecords, Ids
<1>2. Ends(r) => request'[r] = Idle
  BY DEF Ends, Types
<1>3. request[r].at \notin IntakeLabels \union SaveLabels \union {"idle"}
  BY DEF ReadStep, WorksheetLoads, LoadFindings, EffectiveActions, LoadTies,
         EffectiveTieActions, CheckAdjudication, CheckOutcome, ReconcileLoads,
         LoadSubject, LoadDeclaration, OldFindings, OldTies, KnownIds, KnownTies, NextTie,
         OutsideFails, NextSeq,
         FindPrimary, LoadCached, At, IntakeLabels, SaveLabels
<1>4. ASSUME NEW label \in NextLabels, GoesTo(r, label) PROVE StaysAway(r)
  BY <1>3, <1>4, OperationStays DEF StaysAway
<1>5. ASSUME NEW label \in NextLabels, NEW ids \in SUBSET Ids, GoesWith(r, label, ids)
      PROVE  StaysAway(r)
  BY <1>3, <1>5, OperationStays DEF StaysAway
<1>6. ASSUME Ends(r) PROVE StaysAway(r)
  BY <1>2, <1>3, <1>6 DEF StaysAway
<1>7. CASE WorksheetLoads(r) \/ CheckAdjudication(r) \/ CheckOutcome(r)
  BY <1>4, <1>6, <1>7
  DEF WorksheetLoads, CheckAdjudication, CheckOutcome, Labels, IntakeLabels
<1>8. CASE LoadSubject(r) \/ LoadDeclaration(r)
  BY <1>4, <1>6, <1>8 DEF LoadSubject, LoadDeclaration, Labels, IntakeLabels
<1>9. CASE KnownIds(r) \/ KnownTies(r) \/ NextTie(r) \/ OutsideFails(r)
           \/ FindPrimary(r) \/ LoadCached(r)
  BY <1>4, <1>6, <1>9 DEF KnownIds, KnownTies, NextTie, OutsideFails, FindPrimary, LoadCached,
    Labels, IntakeLabels
<1>10. CASE LoadFindings(r)
  BY <1>1, <1>5, <1>10 DEF LoadFindings, Labels, IntakeLabels
<1>11. CASE EffectiveActions(r)
  <2>1. request[r].ids \ Disposed(worksheet_actions) \in SUBSET Ids
    BY <1>1
  <2>2. "load_ties" \in NextLabels
    BY DEF Labels, IntakeLabels
  <2>3. QED
    BY <1>5, <1>11, <2>1, <2>2 DEF EffectiveActions
<1>12. CASE LoadTies(r) \/ EffectiveTieActions(r)
  <2>1. request[r].ids \union ties \in SUBSET Ids /\ {} \in SUBSET Ids
    BY <1>1
  <2>2. "effective_tie_actions" \in NextLabels /\ "delete_case" \in NextLabels
    BY DEF Labels, IntakeLabels
  <2>3. QED
    BY <1>5, <1>6, <1>12, <2>1, <2>2 DEF LoadTies, EffectiveTieActions
<1>13. CASE ReconcileLoads(r) \/ NextSeq(r)
  BY <1>2, <1>3, <1>13 DEF ReconcileLoads, NextSeq, StaysAway, Types, RequestRecords,
                          IntakeLabels
<1>14. CASE \E ids \in SUBSET FindingIds : OldFindings(r, ids)
  BY <1>3, <1>14 DEF OldFindings, StaysAway, Types, RequestRecords, IntakeLabels
<1>15. CASE \E list \in Selections(TieIds) : OldTies(r, list)
  BY <1>3, <1>15 DEF OldTies, StaysAway, Types, RequestRecords, IntakeLabels
<1>16. QED
  BY <1>7, <1>8, <1>9, <1>10, <1>11, <1>12, <1>13, <1>14, <1>15 DEF ReadStep

(***************************************************************************)
(* So do those that write other tables.                                    *)
(***************************************************************************)
OtherTables(r) ==
  \/ DeleteFindings(r) \/ \E f \in FindingIds : InsertFinding(r, f)
  \/ DropFindingExplanations(r)
  \/ DeleteTies(r) \/ InsertTie(r)
  \/ DropTieExplanations(r) \/ WriteManifest(r)
  \/ InsertAction(r) \/ InsertTieAction(r) \/ InsertCertification(r)
  \/ SaveExplanation(r) \/ InsertAdjudication(r)
  \/ \E o \in OfferedOutcomes : InsertOutcome(r, o)

\* Statements on the tables of findings, ties, explanations and history touch neither the
\* cases nor their intake rows.
LEMMA OtherTablesStayAway ==
  ASSUME Types, NEW r \in Requests, OtherTables(r)
  PROVE  StaysAway(r) /\ UNCHANGED <<state, intake, created, crashes>>
<1> DEFINE NextLabels == Labels \ IntakeLabels
<1>1. \A ids : request[r].ids \ ids \in SUBSET Ids
  BY DEF Types, RequestRecords
<1>2. /\ UNCHANGED <<state, intake, created, crashes>>
      /\ request[r].at \notin IntakeLabels \union SaveLabels \union {"idle"}
  BY DEF OtherTables, DeleteFindings, InsertFinding, DropFindingExplanations,
         DeleteTies, InsertTie, DropTieExplanations, WriteManifest, InsertAction,
         InsertTieAction,
         InsertCertification, SaveExplanation, InsertAdjudication, InsertOutcome,
         history, At, IntakeLabels, SaveLabels
<1>3. ASSUME NEW label \in NextLabels, GoesTo(r, label) PROVE StaysAway(r)
  BY <1>2, <1>3, OperationStays DEF StaysAway
<1>4. ASSUME NEW label \in NextLabels, NEW ids \in SUBSET Ids, GoesWith(r, label, ids)
      PROVE  StaysAway(r)
  BY <1>2, <1>4, OperationStays DEF StaysAway
<1>5. ASSUME Ends(r) PROVE StaysAway(r)
  BY <1>2, <1>5 DEF StaysAway, Ends, Types
<1>6. /\ "insert_findings" \in NextLabels /\ "old_ties" \in NextLabels
      /\ "insert_ties" \in NextLabels /\ "write_manifest" \in NextLabels
      /\ "delete_case" \in NextLabels /\ "insert_actions" \in NextLabels
      /\ "next_tie" \in NextLabels
  BY DEF Labels, IntakeLabels
<1> HIDE DEF NextLabels
<1>7. CASE DeleteFindings(r) \/ DropFindingExplanations(r) \/ DeleteTies(r)
             \/ DropTieExplanations(r)
  BY <1>2, <1>3, <1>6, <1>7
  DEF DeleteFindings, DropFindingExplanations, DeleteTies, DropTieExplanations
<1>8. CASE \E f \in FindingIds : InsertFinding(r, f)
  BY <1>2, <1>1, <1>4, <1>5, <1>6, <1>8 DEF InsertFinding
<1>9. CASE InsertTie(r) /\ ~Ends(r)
  BY <1>2, <1>6, <1>9, OperationGoesOn DEF InsertTie, StaysAway, NextLabels
<1>10. CASE (InsertAction(r) \/ InsertTieAction(r)) /\ ~Ends(r)
  BY <1>2, <1>6, <1>10, OperationGoesOn DEF InsertAction, InsertTieAction, StaysAway,
    NextLabels
<1>11. CASE \/ WriteManifest(r) \/ InsertCertification(r)
            \/ SaveExplanation(r) \/ InsertAdjudication(r)
            \/ \E o \in OfferedOutcomes : InsertOutcome(r, o)
  BY <1>2, <1>5, <1>11
  DEF WriteManifest, InsertCertification, SaveExplanation, InsertAdjudication, InsertOutcome
<1>12. QED
  BY <1>2, <1>5, <1>7, <1>8, <1>9, <1>10, <1>11 DEF OtherTables

(***************************************************************************)
(* A request that begins found a case, or begins to create one.            *)
(***************************************************************************)
LEMMA BeginKeepsIntake ==
  ASSUME Types, IntakeInv, NEW r \in Requests, Begin(r), Alone(r),
         UNCHANGED <<state, intake, created, crashes>>
  PROVE  IntakeInv'
<1>1. request[r].at = "idle"
  BY DEF Begin, CreateLooks, TransitionLoads, ReconcileLooks, ActionLoads, TieActionLoads,
         CertificationLoads, AdjudicationLoads, OutcomeLoads, ExplainLoads, At
<1>2. ASSUME NEW op, NEW label, NEW target, NEW ids, Starts(r, op, label, target, ids)
      PROVE  request'[r].op = op /\ request'[r].at = label
  BY <1>2 DEF Starts, Idle, Types
<1>0. ASSUME NEW op, NEW label, NEW rows, NEW tied, StartsWith(r, op, label, rows, tied)
      PROVE  request'[r].op = op /\ request'[r].at = label
  BY <1>0 DEF StartsWith, Idle, Types
<1>3. CASE CreateLooks(r)
  <2>1. request'[r].op = "create" /\ request'[r].at = "delete_subject"
    BY <1>2, <1>3 DEF CreateLooks
  <2>2. \A q \in Requests : KnowsCase(request[q])'
    BY <2>1 DEF Alone, IntakeInv, KnowsCase, IntakeLabels
  <2>3. (PassedBy(SaveLabels)' => PassedBy(SaveLabels))
        /\ (PassedBy(PastSubject)' => PassedBy(PastSubject))
    BY <2>1 DEF PassedBy, Alone, SaveLabels, PastSubject
  <2>4. ASSUME NEW label \in IntakeLabels, NEW q \in Requests, At(q, label)
        PROVE  At(q, label)'
    BY <1>1, <2>4 DEF At, Alone, IntakeLabels
  <2>5. crashes = 0 => SubjectKept' /\ DeclarationKept'
    BY <2>3, <2>4 DEF IntakeInv, SubjectKept, DeclarationKept, IntakeLabels
  <2>6. QED
    BY <2>2, <2>5 DEF IntakeInv
<1>4. CASE ~CreateLooks(r)
  <2>1. /\ state # NoCase
        /\ request'[r].op \notin {"create", "none"}
        /\ request'[r].at \notin IntakeLabels
    <3>1. CASE \E target \in States : TransitionLoads(r, target)
      <4>1. PICK target \in States : TransitionLoads(r, target)
        BY <3>1
      <4>2. FirstCheck(state, target) \notin IntakeLabels
        BY <4>1, ArrowsAreChecked DEF TransitionLoads, IntakeLabels
      <4>3. QED
        BY <1>2, <4>1, <4>2 DEF TransitionLoads, States, NoCase
    <3>2. CASE ReconcileLooks(r) \/ AdjudicationLoads(r) \/ OutcomeLoads(r)
      BY <1>2, <3>2 DEF ReconcileLooks, AdjudicationLoads, OutcomeLoads,
                        RECONCILE_ALLOWED_STATES, NoCase, IntakeLabels
    <3>3. CASE \E selection \in Selections(FindingIds) : ActionLoads(r, selection)
      BY <1>0, <3>3 DEF ActionLoads, AcceptsActions, IntakeLabels
    <3>7. CASE \E selection \in Selections(TieIds) : TieActionLoads(r, selection)
      BY <1>0, <3>7 DEF TieActionLoads, AcceptsActions, IntakeLabels
    <3>4. CASE \E f \in FindingIds : CertificationLoads(r, f)
      BY <1>0, <3>4 DEF CertificationLoads, IntakeLabels
    <3>5. CASE \E id \in Ids : ExplainLoads(r, id)
      <4>1. PICK id \in Ids : ExplainLoads(r, id)
        BY <3>5
      <4>2. QED
        BY <1>2, <4>1 DEF ExplainLoads, IntakeLabels
    <3>6. QED
      BY <1>4, <3>1, <3>2, <3>3, <3>4, <3>5, <3>7 DEF Begin
  <2>2. QED
    BY <1>1, <2>1, AwayKeepsIntake
<1>5. QED
  BY <1>3, <1>4

(***************************************************************************)
(* With the invariant of the case, this one is inductive.                  *)
(***************************************************************************)
LEMMA IntakeInductive ==
  /\ RequestsInit => IntakeInv
  /\ RInv /\ IntakeInv /\ [RequestsNext]_requestVars => IntakeInv'
<1>1. RequestsInit => IntakeInv
  BY DEF RequestsInit, Init, IntakeInv, KnowsCase, Idle, SubjectKept, DeclarationKept,
         PassedBy, IntakeLabels, SaveLabels, PastSubject
<1>2. ASSUME RInv, IntakeInv, [RequestsNext]_requestVars PROVE IntakeInv'
  <2>1. Types
    BY <1>2 DEF RInv
  <2>2. ASSUME NEW r \in Requests, Advances(r) PROVE Alone(r)
    BY <2>1, <2>2 DEF Advances, Alone, Types
  <2>3. CASE Crash
    <3>1. /\ \A q \in Requests : request'[q] = Idle
          /\ crashes' # 0 /\ state' = state /\ created' = created
      BY <2>1, <2>3 DEF Crash, Types, vars
    <3>2. QED
      BY <1>2, <3>1 DEF IntakeInv, KnowsCase, Idle, IntakeLabels
  <2>4. ASSUME NEW r \in Requests, Begin(r) PROVE IntakeInv'
    <3>1. Advances(r) /\ UNCHANGED <<state, intake, created, crashes>>
      BY <1>2, <2>4, BeginAdvances DEF vars, history
    <3>2. QED
      BY <1>2, <2>1, <2>2, <2>4, <3>1, BeginKeepsIntake
  <2>5. ASSUME NEW r \in Requests, ReadStep(r) PROVE IntakeInv'
    <3>1. Advances(r) /\ UNCHANGED <<state, intake, created, crashes>>
      BY <1>2, <2>5, ReadStepAdvances DEF vars, history
    <3>2. QED
      BY <1>2, <2>1, <2>2, <2>5, <3>1, ReadStepStaysAway, AwayKeepsIntake
  <2>6. ASSUME NEW r \in Requests, OtherTables(r) PROVE IntakeInv'
    <3>1. Advances(r)
      BY <1>2, <2>1, <2>6, SideStepAdvances, EndsAdvances
      DEF OtherTables, SideStep, InsertAdjudication, InsertOutcome
    <3>2. QED
      BY <1>2, <2>1, <2>2, <2>6, <3>1, OtherTablesStayAway, AwayKeepsIntake
  <2>7. ASSUME NEW r \in Requests,
               \/ DeleteSubject(r) \/ InsertSubject(r)
               \/ DeleteDeclaration(r) \/ InsertDeclaration(r)
        PROVE  IntakeInv'
    <3>1. Advances(r)
      BY <1>2, <2>7, SideStepAdvances DEF SideStep
    <3>2. QED
      BY <1>2, <2>1, <2>2, <2>7, <3>1, IntakeStepKeepsIntake
  <2>8. ASSUME NEW r \in Requests, DeleteCase(r) \/ InsertCase(r) PROVE IntakeInv'
    <3>1. Advances(r)
      BY <1>2, <2>8, DeleteCaseAdvances, InsertCaseAdvances
    <3>2. QED
      BY <1>2, <2>1, <2>2, <2>8, <3>1, SaveCaseKeepsIntake
  <2>9. CASE UNCHANGED requestVars
    BY <1>2, <2>9 DEF requestVars, vars, history, IntakeInv, KnowsCase, SubjectKept,
                      DeclarationKept, PassedBy, At
  <2>10. QED
    BY <1>2, <2>3, <2>4, <2>5, <2>6, <2>7, <2>8, <2>9
    DEF RequestsNext, Continue, ReadStep, OtherTables
<1>3. QED
  BY <1>1, <1>2

(***************************************************************************)
(* However many requests write the case over one another, a row of it is   *)
(* only ever missing while one of them stands before its INSERT.           *)
(***************************************************************************)
THEOREM RowsAlwaysSurvive == RequestsSpec => []RowsSurvive
<1>1. RequestsSpec => []IntakeInv
  BY IntakeInductive, RInvHolds, PTL DEF RequestsSpec
<1>2. RInv /\ IntakeInv => RowsSurvive
  BY DEF RInv, RowKept, IntakeInv, SubjectKept, DeclarationKept, PassedBy,
         RowsSurvive, CaseRowSurvives, IntakeSurvives
<1>3. QED
  BY <1>1, <1>2, RInvHolds, PTL

-----------------------------------------------------------------------------
(***************************************************************************)
(* The append-only tables, and what appending to them means.               *)
(***************************************************************************)
ActionRowsOf(ids) == {Row(id) : id \in ids}

Appended ==
  /\ worksheet_actions \in Seq(ActionRowsOf(Ids))
  /\ tie_actions \in Seq(ActionRowsOf(Ids))
  /\ certifications \in Seq(FindingIds)
  /\ case_outcomes \in Seq(VALID_OUTCOMES)

Grows ==
  /\ Extends(worksheet_actions', worksheet_actions)
  /\ Extends(tie_actions', tie_actions)
  /\ adjudications \subseteq adjudications'
  /\ Extends(certifications', certifications)
  /\ Extends(case_outcomes', case_outcomes)

(***************************************************************************)
(* A table extends itself, and with one more row.                          *)
(***************************************************************************)
LEMMA OneMoreRow ==
  ASSUME NEW S, NEW table \in Seq(S)
  PROVE  /\ Extends(table, table)
         /\ \A row \in S : Append(table, row) \in Seq(S) /\ Extends(Append(table, row), table)
BY DEF Extends

(***************************************************************************)
(* A statement that records nothing leaves all of them alone.              *)
(***************************************************************************)
LEMMA NothingRecorded ==
  ASSUME Appended, UNCHANGED <<actionTables, records>>
  PROVE  Appended' /\ Grows
<1>1. UNCHANGED <<worksheet_actions, tie_actions, adjudications, certifications,
    case_outcomes>>
  BY DEF actionTables, records
<1>2. QED
  BY <1>1, OneMoreRow DEF Appended, Grows

(***************************************************************************)
(* Every statement of every request, and a crash, only appends.            *)
(***************************************************************************)
LEMMA StatementsAppend ==
  ASSUME Types, Appended, [RequestsNext]_requestVars
  PROVE  Appended' /\ Grows
<1>1. CASE UNCHANGED requestVars
  BY <1>1, NothingRecorded DEF requestVars, vars
<1>2. CASE Crash
  BY <1>2, NothingRecorded DEF Crash, vars
<1>3. ASSUME NEW r \in Requests, Begin(r) PROVE UNCHANGED <<actionTables, records>>
  BY <1>3 DEF Begin, CreateLooks, TransitionLoads, ReconcileLooks, ActionLoads, TieActionLoads,
              CertificationLoads, AdjudicationLoads, OutcomeLoads, ExplainLoads, Reads, vars
<1>4. ASSUME NEW r \in Requests, Continue(r)
      PROVE  \/ UNCHANGED <<actionTables, records>>
             \/ InsertAction(r) \/ InsertTieAction(r) \/ InsertCertification(r)
             \/ InsertAdjudication(r)
             \/ \E o \in OfferedOutcomes : InsertOutcome(r, o)
  <2>1. CASE \/ DeleteCase(r) \/ InsertCase(r)
             \/ WorksheetLoads(r) \/ LoadFindings(r) \/ EffectiveActions(r)
             \/ LoadTies(r) \/ EffectiveTieActions(r)
             \/ CheckAdjudication(r) \/ CheckOutcome(r)
             \/ ReconcileLoads(r) \/ LoadSubject(r) \/ LoadDeclaration(r)
             \/ DeleteSubject(r) \/ InsertSubject(r)
             \/ DeleteDeclaration(r) \/ InsertDeclaration(r)
    BY <2>1 DEF DeleteCase, InsertCase, WorksheetLoads, LoadFindings, EffectiveActions,
                LoadTies, EffectiveTieActions, CheckAdjudication, CheckOutcome,
                ReconcileLoads, LoadSubject, LoadDeclaration, DeleteSubject,
                InsertSubject, DeleteDeclaration, InsertDeclaration, Removes, Adds,
                Reads, vars
  <2>2. CASE \/ \E ids \in SUBSET FindingIds : OldFindings(r, ids)
             \/ DeleteFindings(r)
             \/ \E f \in FindingIds : InsertFinding(r, f)
             \/ DropFindingExplanations(r)
             \/ \E list \in Selections(TieIds) : OldTies(r, list)
             \/ DeleteTies(r) \/ InsertTie(r)
             \/ DropTieExplanations(r) \/ WriteManifest(r)
    BY <2>2 DEF OldFindings, DeleteFindings, InsertFinding, DropFindingExplanations,
                OldTies, DeleteTies, InsertTie, DropTieExplanations, WriteManifest,
                Reads, vars
  <2>3. CASE KnownIds(r) \/ KnownTies(r) \/ NextTie(r) \/ OutsideFails(r)
             \/ NextSeq(r) \/ FindPrimary(r) \/ LoadCached(r) \/ SaveExplanation(r)
    BY <2>3 DEF KnownIds, KnownTies, NextTie, OutsideFails, NextSeq, FindPrimary, LoadCached,
    SaveExplanation, Reads, vars
  <2>4. QED
    BY <1>4, <2>1, <2>2, <2>3 DEF Continue
<1>5. ASSUME NEW r \in Requests, InsertAction(r) \/ InsertTieAction(r)
      PROVE  Appended' /\ Grows
  <2>1. PICK id \in Ids :
          /\ worksheet_actions' \in {worksheet_actions, Append(worksheet_actions, Row(id))}
          /\ tie_actions' \in {tie_actions, Append(tie_actions, Row(id))}
    BY <1>5, ListsShorten DEF InsertAction, InsertTieAction, Ids
  <2>2. Row(id) \in ActionRowsOf(Ids)
    BY DEF ActionRowsOf
  <2>3. UNCHANGED <<adjudications, certifications, case_outcomes>>
    BY <1>5 DEF InsertAction, InsertTieAction, records
  <2>4. QED
    BY <2>1, <2>2, <2>3, OneMoreRow DEF Appended, Grows
<1>6. ASSUME NEW r \in Requests, InsertAdjudication(r) PROVE Appended' /\ Grows
  <2>1. /\ UNCHANGED <<worksheet_actions, tie_actions, certifications, case_outcomes>>
        /\ adjudications \subseteq adjudications'
    BY <1>6 DEF InsertAdjudication, actionTables
  <2>2. QED
    BY <2>1, OneMoreRow DEF Appended, Grows
<1>7. ASSUME NEW r \in Requests, NEW o \in OfferedOutcomes, InsertOutcome(r, o)
      PROVE  Appended' /\ Grows
  <2>1. /\ o \in VALID_OUTCOMES /\ case_outcomes' = Append(case_outcomes, o)
        /\ UNCHANGED <<worksheet_actions, tie_actions, adjudications, certifications>>
    BY <1>7 DEF InsertOutcome, OutcomesWith, actionTables
  <2>2. QED
    BY <2>1, OneMoreRow DEF Appended, Grows
<1>8. ASSUME NEW r \in Requests, InsertCertification(r) PROVE Appended' /\ Grows
  <2>1. /\ certifications' = Append(certifications, Head(request[r].rows))
        /\ Head(request[r].rows) \in FindingIds
        /\ UNCHANGED <<worksheet_actions, tie_actions, adjudications, case_outcomes>>
    BY <1>8, ListsShorten DEF InsertCertification, actionTables
  <2>2. QED
    BY <2>1, OneMoreRow DEF Appended, Grows
<1>9. QED
  BY <1>1, <1>2, <1>3, <1>4, <1>5, <1>6, <1>7, <1>8, NothingRecorded DEF RequestsNext

(***************************************************************************)
(* Whatever overlaps, and wherever the process dies, no statement changes  *)
(* or removes a recorded action, adjudication, certification or outcome.   *)
(***************************************************************************)
THEOREM HistoryOnlyGrowsUnderRaces == RequestsSpec => HistoryOnlyGrows
<1>1. RequestsInit => Appended
  BY DEF RequestsInit, Init, Appended
<1>2. RInv /\ Appended /\ [RequestsNext]_requestVars => Appended' /\ [Grows]_vars
  BY StatementsAppend DEF RInv
<1>3. QED
  BY <1>1, <1>2, RInvHolds, PTL DEF RequestsSpec, HistoryOnlyGrows, Grows

-----------------------------------------------------------------------------
(***************************************************************************)
(* The tables RInv says nothing of, and the history.                       *)
(***************************************************************************)
RestOK ==
  /\ case_kind \in CaseKinds
  /\ explanations \subseteq Ids
  /\ worksheet_actions \in Seq(ActionRows(FindingIds))
  /\ tie_actions \in Seq(ActionRows(TieIds))
  /\ certifications \in Seq(FindingIds)
  /\ reconciled \in BOOLEAN
  /\ closures \in Nat
  /\ created \in BOOLEAN

(***************************************************************************)
(* A row an analyst action writes belongs into the table of its id.        *)
(***************************************************************************)
LEMMA RowsAreActionRows ==
  ASSUME NEW S, NEW id \in S
  PROVE  Row(id) \in ActionRows(S)
BY DEF Row, ActionRows, ActionKinds, ReasonCodes, DISMISS_REASON_CODES

(***************************************************************************)
(* No statement, whoever else is writing, puts a row of a wrong kind into  *)
(* a table: the only writers are the six below.                            *)
(***************************************************************************)
LEMMA StatementsKeepTables ==
  ASSUME RInv, RestOK, [RequestsNext]_requestVars
  PROVE  RestOK'
<1> DEFINE Kept == UNCHANGED <<case_kind, explanations, worksheet_actions, tie_actions,
                               certifications, reconciled, closures, created>>
<1>1. CASE UNCHANGED requestVars \/ Crash
  <2>1. Kept
    BY <1>1 DEF requestVars, Crash, vars, observations, actionTables, records, history
  <2>2. QED
    BY <2>1 DEF RestOK
<1>2. ASSUME NEW r \in Requests, Begin(r) \/ ReadStep(r) PROVE RestOK'
  <2>1. UNCHANGED <<vars, intake, history>>
    BY <1>2, BeginAdvances, ReadStepAdvances
  <2>2. Kept
    BY <2>1 DEF vars, observations, actionTables, records, history
  <2>3. QED
    BY <2>2 DEF RestOK
<1>3. ASSUME NEW r \in Requests,
             \/ DeleteFindings(r) \/ \E f \in FindingIds : InsertFinding(r, f)
             \/ DeleteTies(r) \/ InsertTie(r)
             \/ DeleteSubject(r) \/ InsertSubject(r)
             \/ DeleteDeclaration(r) \/ InsertDeclaration(r)
             \/ DeleteCase(r) \/ InsertAdjudication(r)
             \/ \E o \in OfferedOutcomes : InsertOutcome(r, o)
      PROVE  RestOK'
  <2>1. Kept
    BY <1>3 DEF DeleteFindings, InsertFinding, DeleteTies, InsertTie, DeleteSubject,
                InsertSubject, DeleteDeclaration, InsertDeclaration, Removes, Adds,
                DeleteCase, InsertAdjudication, InsertOutcome, vars, observations,
                actionTables, records, history
  <2>2. QED
    BY <2>1 DEF RestOK
<1>4. ASSUME NEW r \in Requests, InsertCase(r) PROVE RestOK'
  <2>1. UNCHANGED <<case_kind, explanations, worksheet_actions, tie_actions,
                    certifications, reconciled>>
    BY <1>4 DEF InsertCase, observations, actionTables, records
  <2>2. closures' = closures \/ closures' = closures + 1
    BY <1>4 DEF InsertCase
  <2>3. created' = created \/ created' = TRUE
    BY <1>4 DEF InsertCase
  <2>4. closures' \in Nat
    BY <2>2 DEF RestOK
  <2>5. created' \in BOOLEAN
    BY <2>3 DEF RestOK
  <2>6. QED
    BY <2>1, <2>4, <2>5 DEF RestOK
<1>5. ASSUME NEW r \in Requests,
             \/ DropFindingExplanations(r) \/ DropTieExplanations(r)
             \/ WriteManifest(r) \/ SaveExplanation(r)
      PROVE  RestOK'
  <2>1. request[r].ids \subseteq Ids
    BY DEF RInv, Types, RequestRecords
  <2>2. /\ UNCHANGED <<case_kind, worksheet_actions, tie_actions, certifications,
                        closures, created>>
        /\ reconciled' = reconciled \/ reconciled' = TRUE
        /\ explanations' \subseteq explanations \union request[r].ids
    BY <1>5 DEF DropFindingExplanations, DropTieExplanations, WriteManifest,
                SaveExplanation, actionTables, records, history
  <2>3. QED
    BY <2>1, <2>2 DEF RestOK
<1>6. ASSUME NEW r \in Requests, InsertAction(r) \/ InsertTieAction(r) PROVE RestOK'
  <2>1. UNCHANGED <<case_kind, explanations, certifications, reconciled, closures, created>>
    BY <1>6 DEF InsertAction, InsertTieAction, observations, records, history
  <2>2. Types
    BY DEF RInv
  <2>3. CASE InsertAction(r)
    <3>1. /\ worksheet_actions' = Append(worksheet_actions, Row(Head(request[r].rows)))
          /\ tie_actions' = tie_actions
          /\ Head(request[r].rows) \in FindingIds
      BY <2>2, <2>3, ListsShorten DEF InsertAction
    <3>2. Row(Head(request[r].rows)) \in ActionRows(FindingIds)
      BY <3>1, RowsAreActionRows
    <3>3. QED
      BY <2>1, <3>1, <3>2 DEF RestOK
  <2>4. CASE InsertTieAction(r)
    <3>1. /\ tie_actions' = Append(tie_actions, Row(Head(request[r].tied)))
          /\ worksheet_actions' = worksheet_actions
          /\ Head(request[r].tied) \in TieIds
      BY <2>2, <2>4, ListsShorten DEF InsertTieAction
    <3>2. Row(Head(request[r].tied)) \in ActionRows(TieIds)
      BY <3>1, RowsAreActionRows
    <3>3. QED
      BY <2>1, <3>1, <3>2 DEF RestOK
  <2>5. QED
    BY <1>6, <2>3, <2>4
<1>7. ASSUME NEW r \in Requests, InsertCertification(r) PROVE RestOK'
  <2>1. /\ certifications' = Append(certifications, Head(request[r].rows))
        /\ Head(request[r].rows) \in FindingIds
        /\ UNCHANGED <<case_kind, explanations, worksheet_actions, tie_actions,
                        reconciled, closures, created>>
    BY <1>7, ListsShorten DEF RInv, InsertCertification, observations, actionTables, history
  <2>2. QED
    BY <2>1 DEF RestOK
<1>8. QED
  BY <1>1, <1>2, <1>3, <1>4, <1>5, <1>6, <1>7 DEF RequestsNext, Continue, ReadStep

\* The empty tables hold rows of their kinds.
LEMMA RestStarts ==
  ASSUME RequestsInit
  PROVE  RestOK
<1>1. /\ <<>> \in Seq(ActionRows(FindingIds)) /\ <<>> \in Seq(ActionRows(TieIds))
      /\ <<>> \in Seq(FindingIds)
  OBVIOUS
<1>2. QED
  BY <1>1 DEF RequestsInit, Init, RestOK, CaseKinds

(***************************************************************************)
(* Overlapping requests and crashes keep every table to rows of its kind.  *)
(***************************************************************************)
THEOREM RequestsKeepTypes == RequestsSpec => []RequestsTypeOK
<1>1. RequestsInit => RestOK
  BY RestStarts
<1>2. RInv /\ RestOK /\ [RequestsNext]_requestVars => RestOK'
  BY StatementsKeepTables
<1>3. RInv /\ RestOK => RequestsTypeOK
  <2> SUFFICES ASSUME RInv, RestOK PROVE RequestsTypeOK
    OBVIOUS
  <2>1. Types /\ adjudications \subseteq Nat
    BY DEF RInv, Types, AcceptedAreNumbered
  <2>2. TypeOK
    BY <2>1 DEF Types, RestOK, TypeOK, Ids
  <2>3. QED
    BY <2>1, <2>2 DEF Types, RestOK, RequestsTypeOK
<1>4. QED
  BY <1>1, <1>2, <1>3, RInvHolds, PTL DEF RequestsSpec

-----------------------------------------------------------------------------
(***************************************************************************)
(* Requests that do not overlap are atomic. Nobody is in progress but one, *)
(* and the process lives.                                                  *)
(***************************************************************************)
OneAtATime ==
  /\ crashes = 0
  /\ \A r, s \in Requests : At(r, "idle") \/ At(s, "idle") \/ r = s

\* The tables that are as they were when no request was in progress.
SameState == before.state = state
SameRecords ==
  /\ before.case_kind = case_kind
  /\ before.adjudications = adjudications
  /\ before.certifications = certifications
  /\ before.case_outcomes = case_outcomes
  /\ before.reconciled = reconciled
  /\ before.closures = closures
SameRows ==
  /\ before.findings = findings
  /\ before.ties = ties
  /\ before.explanations = explanations
SameActions ==
  /\ before.worksheet_actions = worksheet_actions
  /\ before.tie_actions = tie_actions

Same == SameState /\ SameRecords /\ SameRows /\ SameActions

(***************************************************************************)
(* Where a request q alone can be, with what it has read, and what it has  *)
(* written so far.                                                         *)
(***************************************************************************)
Creating(q) ==
  /\ q.at \in IntakeLabels \union SaveLabels
  /\ q.target = "declaration_assembly"
  /\ state = NoCase /\ Same
  /\ q.at = "insert_subject" => "subject" \notin intake
  /\ q.at = "insert_declaration" => "declaration" \notin intake

Checking == WorksheetLabels \union {"check_adjudication", "check_outcome"}

Transiting(q) ==
  /\ q.at \in Checking \union SaveLabels
  /\ before.state \in States
  /\ q.target \in TRANSITIONS[before.state]
  /\ q.target = "closed" => closures < MaxClosures
  /\ state = IF q.at = "insert_case" THEN NoCase ELSE before.state
  /\ SameRecords /\ SameRows /\ SameActions
  /\ q.at \in WorksheetLabels => before.state = "worksheet"
  /\ q.at = "effective_actions" => q.ids = findings
  /\ q.at = "load_ties" => q.ids = findings \ Disposed(worksheet_actions)
  /\ q.at = "effective_tie_actions" =>
       q.ids = (findings \ Disposed(worksheet_actions)) \union ties
  /\ q.at = "check_adjudication" => before.state = "adjudication"
  /\ q.at = "check_outcome" => before.state = "outcome"
  /\ q.at \in SaveLabels => Whole!MayEnter(q.target)

BeforeDeletes == {"load_case", "load_subject", "load_declaration", "old_findings",
                  "delete_findings"}
TiesStand == {"insert_findings", "old_ties", "delete_ties"}

Replacing(q) ==
  /\ q.at \in {"load_case", "write_manifest"} \union ReplaceLabels \union SaveLabels
  /\ before.state \in RECONCILE_ALLOWED_STATES
  /\ q.at # "load_case" => q.target = "worksheet"
  /\ state = CASE q.at = "insert_case"    -> NoCase
               [] q.at = "write_manifest" -> "worksheet"
               [] OTHER                   -> before.state
  /\ SameRecords /\ SameActions
  /\ q.at \in BeforeDeletes => SameRows
  /\ q.at \in TiesStand => before.ties = ties
  /\ q.at = "delete_findings" => q.gone = findings \ q.ids
  /\ q.at = "insert_findings" =>
       /\ before.explanations = explanations
       /\ findings \intersect q.ids = {}
       /\ q.gone = before.findings \ (findings \union q.ids)
  /\ q.at \in {"old_ties", "delete_ties", "insert_ties"} =>
       explanations = before.explanations \ (before.findings \ findings)
  /\ q.at = "delete_ties" => q.gone = ties \ Range(q.tied)
  /\ q.at = "insert_ties" => q.gone = before.ties \ (ties \union Range(q.tied))
  /\ q.at \in {"write_manifest"} \union SaveLabels =>
       explanations = before.explanations \ Whole!Removed(findings, ties)

(***************************************************************************)
(* What is left of the ids of a list sel: the table is as it was, and then *)
(* holds a row for each of the first n.                                    *)
(***************************************************************************)
Recorded(old, table, sel, n) ==
  /\ Len(table) = Len(old) + n
  /\ \A i \in 1..Len(old) : table[i] = old[i]
  /\ \A i \in 1..n : table[Len(old) + i] = Row(sel[i])

Progress(left, old, table, sel, n) ==
  /\ n < Len(sel)
  /\ Len(left) = Len(sel) - n
  /\ \A i \in 1..Len(left) : left[i] = sel[n + i]
  /\ Recorded(old, table, sel, n)
  /\ n = 0 => table = old

ActingOn(q, sel, n) ==
  /\ Progress(q.rows, before.worksheet_actions, worksheet_actions, sel, n)
  /\ q.at = "known_ids" => n = 0
  /\ q.at = "insert_actions" => \A i \in 1..Len(sel) : sel[i] \in findings

Acting(q) ==
  /\ q.at \in {"known_ids", "insert_actions"}
  /\ AcceptsActions
  /\ SameState /\ SameRecords /\ SameRows
  /\ before.tie_actions = tie_actions
  /\ before.worksheet_actions \in Seq(ActionRows(FindingIds))
  /\ \E sel \in Selections(FindingIds), n \in Nat : ActingOn(q, sel, n)

ActingOnTie(q, sel, n) ==
  /\ Progress(q.tied, before.tie_actions, tie_actions, sel, n)
  /\ \A i \in 1..n : sel[i] \in ties
  /\ n # 0 => Len(tie_actions) <= MaxActions
  /\ q.at = "insert_tie_action" => Head(q.tied) \in ties

ActingOnTies(q) ==
  /\ q.at \in {"known_ties", "insert_tie_action", "next_tie"}
  /\ AcceptsActions
  /\ SameState /\ SameRecords /\ SameRows
  /\ before.worksheet_actions = worksheet_actions
  /\ before.tie_actions \in Seq(ActionRows(TieIds))
  /\ \E sel \in Selections(TieIds), n \in Nat : ActingOnTie(q, sel, n)

Adjudicating(q) ==
  /\ q.at \in {"next_seq", "insert_adjudication"}
  /\ state = "adjudication" /\ Cardinality(adjudications) < MaxRecords
  /\ Same
  /\ q.at = "insert_adjudication" => q.seq = next_adjudication_seq

Certifying(q) ==
  /\ q.at \in {"known_ids", "insert_certification"}
  /\ \E f \in FindingIds : q.rows = <<f>>
  /\ state # NoCase /\ Same
  /\ q.at = "insert_certification" => Head(q.rows) \in findings

Deciding(q) == q.at = "insert_outcome" /\ state = "outcome" /\ Same

Telling(q) ==
  /\ q.at \in {"find_primary", "load_cached", "save_explanation"}
  /\ \E id \in Ids : q.ids = {id}
  /\ state # NoCase /\ Same
  /\ q.at # "find_primary" => q.ids \subseteq findings \union ties

Midway(q) ==
  \/ q.op = "create" /\ Creating(q)
  \/ q.op = "transition" /\ Transiting(q)
  \/ q.op = "reconcile" /\ Replacing(q)
  \/ q.op = "act" /\ Acting(q)
  \/ q.op = "act_on_ties" /\ ActingOnTies(q)
  \/ q.op = "adjudicate" /\ Adjudicating(q)
  \/ q.op = "certify" /\ Certifying(q)
  \/ q.op = "outcome" /\ Deciding(q)
  \/ q.op = "explain" /\ Telling(q)

SerialInv ==
  /\ AllIdle => Same
  /\ \A r \in Requests : ~At(r, "idle") => Midway(request[r])

(***************************************************************************)
(* A step of r is well when it takes r on, with what it has read and       *)
(* written, or ends it with the tables as they were or as one step of      *)
(* CaseLifecycle leaves them.                                              *)
(***************************************************************************)
GoesWell(r) ==
  IF request'[r].at = "idle" THEN Same' => [Whole!Next]_(Whole!vars)
  ELSE before' = before => Midway(request[r])'

\* r stands at a label with these ids, and keeps what else it holds.
Stands(r, label, ids) ==
  /\ request'[r].at = label
  /\ request'[r].ids = ids
  /\ request'[r].rows = request[r].rows
  /\ request'[r].tied = request[r].tied
  /\ request'[r].op = request[r].op
  /\ request'[r].target = request[r].target
  /\ request'[r].gone = request[r].gone
  /\ request'[r].seq = request[r].seq

\* GoesTo changes the label alone.
LEMMA GoesToStands ==
  ASSUME Types, NEW r \in Requests, NEW label, GoesTo(r, label)
  PROVE  Stands(r, label, request[r].ids)
<1>1. request[r] \in RequestRecords
  BY DEF Types
<1>2. request'[r] = [request[r] EXCEPT !.at = label]
  BY DEF GoesTo, Types
<1>3. QED
  BY <1>1, <1>2 DEF Stands, RequestRecords

\* GoesWith changes the label and the ids.
LEMMA GoesWithStands ==
  ASSUME Types, NEW r \in Requests, NEW label, NEW ids, GoesWith(r, label, ids)
  PROVE  Stands(r, label, ids)
<1>1. request[r] \in RequestRecords
  BY DEF Types
<1>2. request'[r] = [request[r] EXCEPT !.at = label, !.ids = ids]
  BY DEF GoesWith, Types
<1>3. QED
  BY <1>1, <1>2 DEF Stands, RequestRecords

\* GoesOn changes the label and the lists.
LEMMA GoesOnKeeps ==
  ASSUME Types, NEW r \in Requests, NEW label, NEW rows, NEW tied,
         GoesOn(r, label, rows, tied)
  PROVE  /\ request'[r].at = label
         /\ request'[r].rows = rows /\ request'[r].tied = tied
         /\ request'[r].ids = request[r].ids /\ request'[r].op = request[r].op
         /\ request'[r].target = request[r].target
         /\ request'[r].gone = request[r].gone
<1>1. request[r] \in RequestRecords
  BY DEF Types
<1>2. request'[r] = [request[r] EXCEPT !.at = label, !.rows = rows, !.tied = tied]
  BY DEF GoesOn, Types
<1>3. QED
  BY <1>1, <1>2 DEF RequestRecords

\* A request that ends is at rest.
LEMMA EndsRests ==
  ASSUME Types, NEW r \in Requests, Ends(r)
  PROVE  request'[r].at = "idle"
BY DEF Ends, Types, Idle

\* What is the same stays the same while nobody writes.
LEMMA SameStays ==
  ASSUME before' = before, UNCHANGED vars
  PROVE  /\ SameState => SameState'
         /\ SameRecords => SameRecords'
         /\ SameRows => SameRows'
         /\ SameActions => SameActions'
BY DEF SameState, SameRecords, SameRows, SameActions, vars, observations, actionTables, records

\* A request that ends with the tables as they were is a stutter.
LEMMA EndsInVain ==
  ASSUME Types, NEW r \in Requests, Ends(r), Same, UNCHANGED vars
  PROVE  GoesWell(r)
<1>1. request'[r].at = "idle"
  BY EndsRests
<1>2. ASSUME Same' PROVE UNCHANGED Whole!vars
  BY <1>2 DEF Same, SameState, SameRecords, SameRows, SameActions, vars, observations,
              actionTables, records, Whole!vars, Whole!observations, Whole!actionTables,
              Whole!records
<1>3. QED
  BY <1>1, <1>2 DEF GoesWell

-----------------------------------------------------------------------------
(***************************************************************************)
(* POST /cases is CreateCase, for the kind the case has.                   *)
(***************************************************************************)
LEMMA CreateGoesWell ==
  ASSUME Types, RestOK, NEW r \in Requests, request[r].op = "create", Creating(request[r]),
         Continue(r)
  PROVE  GoesWell(r)
<1>1. \/ DeleteSubject(r) \/ InsertSubject(r)
      \/ DeleteDeclaration(r) \/ InsertDeclaration(r)
      \/ DeleteCase(r) \/ InsertCase(r)
  <2>1. request[r].at \in IntakeLabels \union SaveLabels
    BY DEF Creating
  <2>2. QED
    BY <2>1 DEF Continue, IntakeLabels, SaveLabels, At, WorksheetLoads, LoadFindings,
      EffectiveActions, LoadTies, EffectiveTieActions, CheckAdjudication, CheckOutcome,
      ReconcileLoads, LoadSubject, LoadDeclaration, OldFindings, DeleteFindings,
      InsertFinding, DropFindingExplanations, OldTies, DeleteTies, InsertTie,
      DropTieExplanations, WriteManifest, KnownIds, KnownTies, NextTie, OutsideFails,
      InsertAction, InsertTieAction, InsertCertification,
      NextSeq, InsertAdjudication, InsertOutcome, FindPrimary, LoadCached, SaveExplanation
<1>2. ASSUME NEW label \in IntakeLabels \union SaveLabels, GoesTo(r, label), UNCHANGED vars,
             label = "insert_subject" => "subject" \notin intake',
             label = "insert_declaration" => "declaration" \notin intake'
      PROVE  GoesWell(r)
  <2>1. Stands(r, label, request[r].ids)
    BY <1>2, GoesToStands
  <2>2. label # "idle"
    BY <1>2 DEF IntakeLabels, SaveLabels
  <2>3. ASSUME before' = before PROVE Creating(request[r])'
    <3>1. Same' /\ state' = NoCase
      BY <1>2, <2>3, SameStays DEF Creating, Same, vars
    <3>2. QED
      BY <1>2, <2>1, <3>1 DEF Creating, Stands, IntakeLabels, SaveLabels
  <2>4. QED
    BY <2>1, <2>2, <2>3 DEF GoesWell, Midway, Stands
<1>3. CASE DeleteSubject(r) \/ DeleteDeclaration(r)
  BY <1>2, <1>3 DEF DeleteSubject, DeleteDeclaration, Removes, IntakeLabels
<1>4. CASE InsertSubject(r)
  <2>1. GoesTo(r, "delete_declaration") /\ UNCHANGED vars
    BY <1>4 DEF InsertSubject, Adds, At, Creating
  <2>2. QED
    BY <1>2, <2>1 DEF IntakeLabels
<1>5. CASE InsertDeclaration(r)
  <2>1. GoesTo(r, "delete_case") /\ UNCHANGED vars
    BY <1>5 DEF InsertDeclaration, Adds, At, Creating
  <2>2. QED
    BY <1>2, <2>1 DEF SaveLabels
<1>6. CASE DeleteCase(r)
  <2>1. GoesTo(r, "insert_case") /\ UNCHANGED vars
    BY <1>6 DEF DeleteCase, Creating, vars
  <2>2. QED
    BY <1>2, <2>1 DEF SaveLabels
<1>7. CASE InsertCase(r)
  <2>1. /\ state = NoCase /\ state' = "declaration_assembly" /\ Ends(r)
        /\ closures' = closures
        /\ UNCHANGED <<case_kind, observations, actionTables, records>>
    BY <1>7 DEF InsertCase, Creating, NoCase
  <2>2. ASSUME Same' PROVE Whole!CreateCase(case_kind)
    BY <2>1, <2>2 DEF Creating, Same, SameState, SameRecords, SameRows, SameActions,
    observations,
              actionTables, records, Whole!CreateCase, Whole!observations,
              Whole!actionTables, Whole!records, NoCase, Whole!NoCase
  <2>3. case_kind \in Whole!CaseKinds
    BY DEF RestOK, CaseKinds, Whole!CaseKinds
  <2>4. request'[r].at = "idle"
    BY <2>1, EndsRests
  <2>5. QED
    BY <2>2, <2>3, <2>4 DEF GoesWell, Whole!Next
<1>8. QED
  BY <1>1, <1>3, <1>4, <1>5, <1>6, <1>7

(***************************************************************************)
(* POST .../transition is Transition: what it checks, statement by         *)
(* statement, is what MayEnter asks of the tables together.                *)
(***************************************************************************)
LEMMA TransitionGoesWell ==
  ASSUME Types, RestOK, NEW r \in Requests, request[r].op = "transition",
         Transiting(request[r]), Continue(r)
  PROVE  GoesWell(r)
<1> DEFINE q == request[r]
<1>1. \/ WorksheetLoads(r) \/ LoadFindings(r) \/ EffectiveActions(r) \/ LoadTies(r)
      \/ EffectiveTieActions(r) \/ CheckAdjudication(r) \/ CheckOutcome(r)
      \/ DeleteCase(r) \/ InsertCase(r)
  <2>1. q.at \in Checking \union SaveLabels
    BY DEF Transiting
  <2>2. QED
    BY <2>1 DEF Continue, Checking, WorksheetLabels, SaveLabels, At, DeleteSubject,
      InsertSubject, DeleteDeclaration, InsertDeclaration, Removes, Adds,
      ReconcileLoads, LoadSubject, LoadDeclaration, OldFindings, DeleteFindings,
      InsertFinding, DropFindingExplanations, OldTies, DeleteTies, InsertTie,
      DropTieExplanations, WriteManifest, KnownIds, KnownTies, NextTie, OutsideFails,
      InsertAction, InsertTieAction, InsertCertification,
      NextSeq, InsertAdjudication, InsertOutcome, FindPrimary, LoadCached, SaveExplanation
<1>2. /\ before.state \in States /\ q.target \in TRANSITIONS[before.state]
      /\ SameRecords /\ SameRows /\ SameActions
  BY DEF Transiting
<1> PICK t : t = q.target
  OBVIOUS
<1>3. CASE WorksheetLoads(r) \/ LoadFindings(r) \/ EffectiveActions(r) \/ LoadTies(r)
  <2>1. UNCHANGED vars
    BY <1>3 DEF WorksheetLoads, LoadFindings, EffectiveActions, LoadTies, Reads
  <2>2. q.at \in WorksheetLabels /\ before.state = "worksheet" /\ state = "worksheet"
    BY <1>3 DEF WorksheetLoads, LoadFindings, EffectiveActions, LoadTies, At,
                WorksheetLabels, Transiting
  <2>3. ASSUME NEW label \in WorksheetLabels, NEW ids, Stands(r, label, ids),
               label = "effective_actions" => ids = findings,
               label = "load_ties" => ids = findings \ Disposed(worksheet_actions),
               label = "effective_tie_actions" =>
                 ids = (findings \ Disposed(worksheet_actions)) \union ties
        PROVE  GoesWell(r)
    <3>1. ASSUME before' = before PROVE Transiting(request[r])'
      <4>1. SameState' /\ SameRecords' /\ SameRows' /\ SameActions'
        BY <1>2, <2>1, <2>2, <3>1, SameStays DEF SameState
      <4>2. /\ closures' = closures /\ findings' = findings /\ ties' = ties
            /\ worksheet_actions' = worksheet_actions /\ state' = "worksheet"
        BY <2>1, <2>2 DEF vars, observations, actionTables
      <4>3. request'[r].at = label /\ request'[r].ids = ids /\ request'[r].target = q.target
        BY <2>3 DEF Stands
      <4>4. label \notin SaveLabels /\ label \notin {"check_adjudication", "check_outcome"}
        BY DEF WorksheetLabels, SaveLabels
      <4>5. q.target = "closed" => closures < MaxClosures
        BY DEF Transiting
      <4>6. Disposed(worksheet_actions)' = Disposed(worksheet_actions)
        BY <4>2 DEF Disposed
      <4>7. label # "insert_case"
        BY DEF WorksheetLabels
      <4>8. QED
        BY <1>2, <2>2, <2>3, <3>1, <4>1, <4>2, <4>3, <4>4, <4>5, <4>6, <4>7
        DEF Transiting, Checking
    <3>2. label # "idle"
      BY DEF WorksheetLabels
    <3>3. QED
      BY <2>3, <3>1, <3>2 DEF GoesWell, Midway, Stands
  <2>4. CASE WorksheetLoads(r)
    <3>1. GoesTo(r, "load_findings")
      BY <2>2, <2>4 DEF WorksheetLoads, NoCase
    <3>2. Stands(r, "load_findings", q.ids)
      BY <3>1, GoesToStands
    <3>3. QED
      BY <2>3, <3>2 DEF WorksheetLabels
  <2>5. CASE LoadFindings(r)
    <3>1. Stands(r, "effective_actions", findings)
      BY <2>5, GoesWithStands DEF LoadFindings
    <3>2. QED
      BY <2>3, <3>1 DEF WorksheetLabels
  <2>6. CASE EffectiveActions(r)
    <3>1. Stands(r, "load_ties", q.ids \ Disposed(worksheet_actions))
      BY <2>6, GoesWithStands DEF EffectiveActions
    <3>2. q.ids = findings
      BY <2>6 DEF EffectiveActions, At, Transiting
    <3>3. QED
      BY <2>3, <3>1, <3>2 DEF WorksheetLabels
  <2>7. CASE LoadTies(r)
    <3>1. Stands(r, "effective_tie_actions", q.ids \union ties)
      BY <2>7, GoesWithStands DEF LoadTies
    <3>2. q.ids = findings \ Disposed(worksheet_actions)
      BY <2>7 DEF LoadTies, At, Transiting
    <3>3. QED
      BY <2>3, <3>1, <3>2 DEF WorksheetLabels
  <2>8. QED
    BY <1>3, <2>4, <2>5, <2>6, <2>7
<1>4. CASE EffectiveTieActions(r) \/ CheckAdjudication(r) \/ CheckOutcome(r)
  <2>1. UNCHANGED vars /\ q.at \notin SaveLabels /\ state = before.state /\ Same
    <3>1. q.at \in {"effective_tie_actions", "check_adjudication", "check_outcome"}
      BY <1>4 DEF EffectiveTieActions, CheckAdjudication, CheckOutcome, At
    <3>2. state = before.state
      BY <3>1 DEF Transiting
    <3>3. QED
      BY <1>2, <1>4, <3>1, <3>2 DEF EffectiveTieActions, CheckAdjudication, CheckOutcome,
      Reads,
        SaveLabels, Same, SameState
  <2>2. CASE Ends(r)
    BY <2>1, <2>2, EndsInVain
  <2>3. CASE \E ids : Stands(r, "delete_case", ids) /\ Whole!MayEnter(q.target)
    <3>1. ASSUME before' = before PROVE Transiting(request[r])'
      <4>1. Same' /\ closures' = closures
        BY <2>1, <3>1, SameStays DEF vars, Same
      <4>2. request'[r].at = "delete_case" /\ request'[r].target = q.target
        BY <2>3 DEF Stands
      <4>3. Whole!MayEnter(t)'
        BY <2>3, <3>1 DEF Whole!MayEnter, Whole!can_close, Whole!Unactioned, Whole!Disposed,
                          Whole!next_adjudication_seq
      <4>4. q.target = "closed" => closures < MaxClosures
        BY DEF Transiting
      <4>5. QED
        BY <1>2, <3>1, <4>1, <4>2, <4>3, <4>4 DEF Transiting, Checking, WorksheetLabels,
        SaveLabels,
          Same, SameState
    <3>2. QED
      BY <2>3, <3>1 DEF GoesWell, Midway, Stands
  <2>4. CASE EffectiveTieActions(r) /\ ~Ends(r)
    <3>1. /\ q.ids = (findings \ Disposed(worksheet_actions)) \union ties
          /\ before.state = "worksheet"
          /\ q.ids \subseteq Disposed(tie_actions)
          /\ GoesWith(r, "delete_case", {})
      BY <2>4 DEF EffectiveTieActions, At, Transiting, WorksheetLabels
    <3>2. Disposed(tie_actions) \subseteq TieIds
      <4>1. \A i \in DOMAIN tie_actions : tie_actions[i] \in ActionRows(TieIds)
        BY DEF RestOK
      <4>2. QED
        BY <4>1 DEF Disposed, ActionRows
    <3>3. findings \intersect TieIds = {}
      BY InputAssumption DEF Types
    <3>4. Unactioned = {}
      BY <3>1, <3>2, <3>3 DEF Unactioned
    <3>5. Whole!can_close
      BY <1>2, <3>4 DEF Unactioned, Disposed, SameRows, SameActions, Whole!can_close,
                        Whole!Unactioned, Whole!Disposed
    <3>6. Whole!MayEnter(q.target)
      BY <3>1, <3>5 DEF Whole!MayEnter
    <3>7. QED
      BY <2>3, <3>1, <3>6, GoesWithStands
  <2>5. CASE CheckAdjudication(r) /\ ~Ends(r)
    <3>1. before.state = "adjudication" /\ next_adjudication_seq # 0 /\ GoesTo(r,
    "delete_case")
      BY <2>5 DEF CheckAdjudication, At, Transiting
    <3>2. Whole!next_adjudication_seq # 0
      BY <1>2, <3>1 DEF SameRecords, next_adjudication_seq, Whole!next_adjudication_seq
    <3>3. Whole!MayEnter(q.target)
      BY <3>1, <3>2 DEF Whole!MayEnter
    <3>4. QED
      BY <2>3, <3>1, <3>3, GoesToStands
  <2>6. CASE CheckOutcome(r) /\ ~Ends(r)
    <3>1. before.state = "outcome" /\ case_outcomes # <<>> /\ GoesTo(r, "delete_case")
      BY <2>6 DEF CheckOutcome, At, Transiting
    <3>2. Whole!MayEnter(q.target)
      BY <1>2, <3>1 DEF Whole!MayEnter, SameRecords
    <3>3. QED
      BY <2>3, <3>1, <3>2, GoesToStands
  <2>7. QED
    BY <1>4, <2>2, <2>4, <2>5, <2>6
<1>5. CASE DeleteCase(r)
  <2>1. Stands(r, "insert_case", q.ids)
    BY <1>5, GoesToStands DEF DeleteCase
  <2>2. /\ state' = NoCase
        /\ UNCHANGED <<case_kind, observations, actionTables, records, closures>>
    BY <1>5 DEF DeleteCase
  <2>3. Whole!MayEnter(q.target)
    BY <1>5 DEF DeleteCase, At, Transiting, SaveLabels
  <2>4. q.target = "closed" => closures < MaxClosures
    BY DEF Transiting
  <2>5. ASSUME before' = before PROVE Transiting(request[r])'
    <3>1. SameRecords' /\ SameRows' /\ SameActions'
      BY <1>2, <2>2, <2>5 DEF SameRecords, SameRows, SameActions, observations, actionTables,
      records
    <3>2. Whole!MayEnter(t)'
      BY <2>3, <2>5 DEF Whole!MayEnter, Whole!can_close, Whole!Unactioned, Whole!Disposed,
                        Whole!next_adjudication_seq
    <3>3. QED
      BY <1>2, <2>1, <2>2, <2>4, <2>5, <3>1, <3>2
      DEF Transiting, Stands, Checking, WorksheetLabels, SaveLabels
  <2>6. QED
    BY <2>1, <2>5 DEF GoesWell, Midway, Stands
<1>6. CASE InsertCase(r)
  <2>1. q.at = "insert_case" /\ state = NoCase /\ Whole!MayEnter(q.target)
        /\ (q.target = "closed" => closures < MaxClosures)
    BY <1>6 DEF InsertCase, At, Transiting, SaveLabels
  <2>2. /\ state' = q.target /\ Ends(r)
        /\ closures' = IF q.target = "closed" THEN closures + 1 ELSE closures
        /\ UNCHANGED <<case_kind, observations, actionTables, records>>
    BY <1>6, <2>1 DEF InsertCase
  <2>3. q.target \in States
    BY <1>2, ArrowsAreChecked
  <2>4. ASSUME Same' PROVE Whole!Transition(q.target)
    BY <1>2, <2>1, <2>2, <2>4 DEF Same, SameState, SameRecords, SameRows, SameActions,
      observations, actionTables, records, Whole!Transition, Whole!observations,
      Whole!actionTables, Whole!records, Whole!States, States, Whole!TRANSITIONS, TRANSITIONS
  <2>5. q.target \in Whole!States
    BY <2>3 DEF States, Whole!States
  <2>6. request'[r].at = "idle"
    BY <2>2, EndsRests
  <2>7. QED
    BY <2>4, <2>5, <2>6 DEF GoesWell, Whole!Next
<1>7. QED
  BY <1>1, <1>3, <1>4, <1>5, <1>6

\* The first element of a list and those of the rest are its elements.
LEMMA HeadOfRange ==
  ASSUME NEW S, NEW list \in Seq(S), list # <<>>
  PROVE  {Head(list)} \union Range(Tail(list)) = Range(list)
<1>1. /\ Len(list) \in Nat \ {0} /\ DOMAIN list = 1..Len(list)
      /\ Tail(list) \in Seq(S) /\ Len(Tail(list)) = Len(list) - 1
      /\ DOMAIN Tail(list) = 1..(Len(list) - 1)
      /\ \A i \in 1..(Len(list) - 1) : Tail(list)[i] = list[i + 1]
      /\ Head(list) = list[1]
  OBVIOUS
<1>2. ASSUME NEW x \in Range(list) PROVE x \in {Head(list)} \union Range(Tail(list))
  <2>1. PICK i \in 1..Len(list) : x = list[i]
    BY <1>1, <1>2 DEF Range
  <2>2. CASE i = 1
    BY <1>1, <2>1, <2>2
  <2>3. CASE i # 1
    <3>1. i - 1 \in 1..(Len(list) - 1) /\ (i - 1) + 1 = i
      BY <1>1, <2>1, <2>3
    <3>2. QED
      BY <1>1, <2>1, <3>1 DEF Range
  <2>4. QED
    BY <2>2, <2>3
<1>3. Head(list) \in Range(list)
  BY <1>1 DEF Range
<1>4. ASSUME NEW x \in Range(Tail(list)) PROVE x \in Range(list)
  <2>1. PICK i \in 1..(Len(list) - 1) : x = Tail(list)[i]
    BY <1>1, <1>4 DEF Range
  <2>2. x = list[i + 1] /\ i + 1 \in 1..Len(list)
    BY <1>1, <2>1
  <2>3. QED
    BY <1>1, <2>2 DEF Range
<1>5. QED
  BY <1>2, <1>3, <1>4

\* A reconciliation that goes on, with the tables it has written so far.
LEMMA ReplacingGoesOn ==
  ASSUME NEW r \in Requests, request[r].op = "reconcile",
         request'[r].op = request[r].op, request'[r].at # "idle",
         before' = before => Replacing(request[r])'
  PROVE  GoesWell(r)
BY DEF GoesWell, Midway

(***************************************************************************)
(* POST .../reconcile is ReconcileCase, for the rows that are there at the *)
(* end: what a table held is what is gone and what is kept.                *)
(***************************************************************************)
LEMMA ReconcileGoesWell ==
  ASSUME Types, RestOK, NEW r \in Requests, request[r].op = "reconcile",
         Replacing(request[r]), Continue(r)
  PROVE  GoesWell(r)
<1> DEFINE q == request[r]
<1>1. \/ ReconcileLoads(r) \/ LoadSubject(r) \/ LoadDeclaration(r)
      \/ \E ids \in SUBSET FindingIds : OldFindings(r, ids)
      \/ DeleteFindings(r)
      \/ \E f \in FindingIds : InsertFinding(r, f)
      \/ DropFindingExplanations(r)
      \/ \E list \in Selections(TieIds) : OldTies(r, list)
      \/ DeleteTies(r)
      \/ InsertTie(r)
      \/ DropTieExplanations(r) \/ WriteManifest(r) \/ OutsideFails(r)
      \/ DeleteCase(r) \/ InsertCase(r)
  <2>1. q.at \in {"load_case", "write_manifest"} \union ReplaceLabels \union SaveLabels
    BY DEF Replacing
  <2>2. QED
    BY <2>1 DEF Continue, ReplaceLabels, SaveLabels, At, DeleteSubject,
      InsertSubject, DeleteDeclaration, InsertDeclaration, Removes, Adds,
      WorksheetLoads, LoadFindings, EffectiveActions, LoadTies, EffectiveTieActions,
      CheckAdjudication, CheckOutcome, KnownIds, KnownTies, NextTie, InsertAction,
      InsertTieAction, InsertCertification, NextSeq, InsertAdjudication, InsertOutcome,
      FindPrimary, LoadCached, SaveExplanation
<1>2. /\ before.state \in RECONCILE_ALLOWED_STATES
      /\ before.state \notin {NoCase, "worksheet"}
      /\ SameRecords /\ SameActions
  BY DEF Replacing, RECONCILE_ALLOWED_STATES, NoCase
<1>3. q \in RequestRecords
  BY DEF Types
<1>4. CASE ReconcileLoads(r) \/ LoadSubject(r) \/ LoadDeclaration(r)
  <2>1. UNCHANGED vars /\ SameRows /\ state = before.state
    BY <1>4 DEF ReconcileLoads, LoadSubject, LoadDeclaration, Reads, At, Replacing,
    BeforeDeletes
  <2>2. CASE Ends(r)
    BY <1>2, <2>1, <2>2, EndsInVain DEF Same, SameState
  <2>3. CASE ~Ends(r)
    <3>1. /\ request'[r].at \in {"load_subject", "load_declaration", "old_findings"}
          /\ request'[r].target = "worksheet" /\ request'[r].op = q.op
      <4>1. CASE ReconcileLoads(r)
        <5>1. request' = [request EXCEPT ![r].at = "load_subject", ![r].target = "worksheet"]
          BY <1>2, <2>1, <2>3, <4>1 DEF ReconcileLoads
        <5>2. request'[r] = [q EXCEPT !.at = "load_subject", !.target = "worksheet"]
          BY <5>1 DEF Types
        <5>3. QED
          BY <1>3, <5>2 DEF RequestRecords
      <4>2. CASE LoadSubject(r)
        <5>1. Stands(r, "load_declaration", q.ids) /\ q.target = "worksheet"
          BY <2>3, <4>2, GoesToStands DEF LoadSubject, At, Replacing
        <5>2. QED
          BY <5>1 DEF Stands
      <4>3. CASE LoadDeclaration(r)
        <5>1. Stands(r, "old_findings", q.ids) /\ q.target = "worksheet"
          BY <2>3, <4>3, GoesToStands DEF LoadDeclaration, At, Replacing
        <5>2. QED
          BY <5>1 DEF Stands
      <4>4. QED
        BY <1>4, <4>1, <4>2, <4>3
    <3>2. ASSUME before' = before PROVE Replacing(request[r])'
      <4>1. SameRecords' /\ SameRows' /\ SameActions' /\ state' = before.state
        BY <1>2, <2>1, <3>2, SameStays DEF vars
      <4>2. QED
        BY <1>2, <3>1, <3>2, <4>1 DEF Replacing, ReplaceLabels, SaveLabels, TiesStand, SameRows
    <3>3. QED
      BY <3>1, <3>2, ReplacingGoesOn
  <2>4. QED
    BY <2>2, <2>3
<1>5. CASE \E ids \in SUBSET FindingIds : OldFindings(r, ids)
  <2>1. PICK ids \in SUBSET FindingIds : OldFindings(r, ids)
    BY <1>5
  <2>2. UNCHANGED vars /\ SameRows /\ state = before.state /\ q.target = "worksheet"
    BY <2>1 DEF OldFindings, Reads, At, Replacing, BeforeDeletes
  <2>3. request'[r] = [q EXCEPT !.at = "delete_findings", !.ids = ids, !.gone = findings \ ids]
    BY <2>1 DEF OldFindings, Types
  <2>4. /\ request'[r].at = "delete_findings" /\ request'[r].ids = ids
        /\ request'[r].gone = findings \ ids
        /\ request'[r].target = "worksheet" /\ request'[r].op = q.op
    BY <1>3, <2>2, <2>3 DEF RequestRecords
  <2>5. ASSUME before' = before PROVE Replacing(request[r])'
    <3>1. /\ SameRecords' /\ SameRows' /\ SameActions' /\ state' = before.state
          /\ findings' = findings
      BY <1>2, <2>2, <2>5, SameStays DEF vars, observations
    <3>2. QED
      BY <1>2, <2>4, <2>5, <3>1 DEF Replacing, ReplaceLabels, SaveLabels, TiesStand, SameRows
  <2>6. QED
    BY <2>4, <2>5, ReplacingGoesOn
<1>6. CASE DeleteFindings(r)
  <2>1. /\ findings' = {}
        /\ UNCHANGED <<state, case_kind, ties, explanations, reconciled, actionTables,
                       records, closures>>
    BY <1>6 DEF DeleteFindings
  <2>2. Stands(r, "insert_findings", q.ids)
    BY <1>6, GoesToStands DEF DeleteFindings
  <2>3. q.gone = findings \ q.ids /\ SameRows /\ state = before.state /\ q.target = "worksheet"
    BY <1>6 DEF DeleteFindings, At, Replacing, BeforeDeletes
  <2>4. ASSUME before' = before PROVE Replacing(request[r])'
    <3>1. SameRecords' /\ SameActions' /\ before'.ties = ties' /\ state' = before.state
          /\ before'.explanations = explanations'
      BY <1>2, <2>1, <2>3, <2>4 DEF SameRecords, SameRows, SameActions, actionTables, records
    <3>2. QED
      BY <1>2, <2>1, <2>2, <2>3, <2>4, <3>1 DEF Stands, Replacing, ReplaceLabels, SaveLabels,
        TiesStand, BeforeDeletes, SameRows
  <2>5. QED
    BY <2>2, <2>4, ReplacingGoesOn DEF Stands
<1>7. CASE \E f \in FindingIds : InsertFinding(r, f)
  <2>1. PICK f \in FindingIds : InsertFinding(r, f)
    BY <1>7
  <2>2. /\ findings \intersect q.ids = {}
        /\ q.gone = before.findings \ (findings \union q.ids)
        /\ before.explanations = explanations
        /\ before.ties = ties /\ state = before.state /\ q.target = "worksheet"
    BY <2>1 DEF InsertFinding, At, Replacing, TiesStand
  <2>3. /\ f \in q.ids /\ GoesWith(r, "insert_findings", q.ids \ {f})
        /\ findings' = findings \union {f}
        /\ UNCHANGED <<state, case_kind, ties, explanations, reconciled, actionTables,
                       records, closures>>
    BY <2>1, <2>2 DEF InsertFinding
  <2>4. Stands(r, "insert_findings", q.ids \ {f})
    BY <2>3, GoesWithStands
  <2>5. ASSUME before' = before PROVE Replacing(request[r])'
    <3>1. /\ SameRecords' /\ SameActions' /\ before'.ties = ties' /\ state' = before.state
          /\ before'.explanations = explanations'
      BY <1>2, <2>2, <2>3, <2>5 DEF SameRecords, SameActions, actionTables, records
    <3>2. /\ findings' \intersect (q.ids \ {f}) = {}
          /\ q.gone = before.findings \ (findings' \union (q.ids \ {f}))
      BY <2>2, <2>3
    <3>3. QED
      BY <1>2, <2>2, <2>4, <2>5, <3>1, <3>2 DEF Stands, Replacing, ReplaceLabels, SaveLabels,
        TiesStand, BeforeDeletes
  <2>6. QED
    BY <2>4, <2>5, ReplacingGoesOn DEF Stands
<1>8. CASE DropFindingExplanations(r)
  <2>1. /\ q.ids = {} /\ q.at = "insert_findings"
        /\ explanations' = explanations \ q.gone
        /\ UNCHANGED <<state, case_kind, findings, ties, reconciled, actionTables,
                       records, closures>>
    BY <1>8 DEF DropFindingExplanations, At
  <2>2. /\ q.gone = before.findings \ findings
        /\ before.explanations = explanations
        /\ before.ties = ties /\ state = before.state /\ q.target = "worksheet"
    BY <2>1 DEF Replacing, TiesStand
  <2>3. Stands(r, "old_ties", q.ids)
    BY <1>8, GoesToStands DEF DropFindingExplanations
  <2>4. ASSUME before' = before PROVE Replacing(request[r])'
    <3>1. /\ SameRecords' /\ SameActions' /\ before'.ties = ties' /\ state' = before.state
      BY <1>2, <2>1, <2>2, <2>4 DEF SameRecords, SameActions, actionTables, records
    <3>2. explanations' = before.explanations \ (before.findings \ findings')
      BY <2>1, <2>2
    <3>3. QED
      BY <1>2, <2>2, <2>3, <2>4, <3>1, <3>2 DEF Stands, Replacing, ReplaceLabels, SaveLabels,
        TiesStand, BeforeDeletes
  <2>5. QED
    BY <2>3, <2>4, ReplacingGoesOn DEF Stands
<1>9. CASE \E list \in Selections(TieIds) : OldTies(r, list)
  <2>1. PICK list \in Selections(TieIds) : OldTies(r, list)
    BY <1>9
  <2>2. /\ UNCHANGED vars /\ before.ties = ties /\ state = before.state
        /\ q.target = "worksheet"
        /\ explanations = before.explanations \ (before.findings \ findings)
    BY <2>1 DEF OldTies, Reads, At, Replacing, TiesStand
  <2>3. request'[r] = [q EXCEPT !.at = "delete_ties", !.tied = list,
                                !.gone = ties \ Range(list)]
    BY <2>1 DEF OldTies, Types
  <2>4. /\ request'[r].at = "delete_ties" /\ request'[r].tied = list
        /\ request'[r].gone = ties \ Range(list)
        /\ request'[r].target = "worksheet" /\ request'[r].op = q.op
    BY <1>3, <2>2, <2>3 DEF RequestRecords
  <2>5. ASSUME before' = before PROVE Replacing(request[r])'
    <3>1. /\ SameRecords' /\ SameActions' /\ state' = before.state /\ before'.ties = ties'
          /\ ties' = ties /\ findings' = findings /\ explanations' = explanations
      BY <1>2, <2>2, <2>5, SameStays DEF vars, observations
    <3>2. QED
      BY <1>2, <2>2, <2>4, <2>5, <3>1 DEF Replacing, ReplaceLabels, SaveLabels, TiesStand,
        BeforeDeletes
  <2>6. QED
    BY <2>4, <2>5, ReplacingGoesOn
<1>10. CASE DeleteTies(r)
  <2>1. /\ ties' = {} /\ q.at = "delete_ties"
        /\ UNCHANGED <<state, case_kind, findings, explanations, reconciled, actionTables,
                       records, closures>>
    BY <1>10 DEF DeleteTies, At
  <2>2. Stands(r, "insert_ties", q.ids)
    BY <1>10, GoesToStands DEF DeleteTies
  <2>3. /\ q.gone = ties \ Range(q.tied) /\ before.ties = ties /\ state = before.state
        /\ q.target = "worksheet"
        /\ explanations = before.explanations \ (before.findings \ findings)
    BY <2>1 DEF Replacing, TiesStand
  <2>4. ASSUME before' = before PROVE Replacing(request[r])'
    <3>1. SameRecords' /\ SameActions' /\ state' = before.state
      BY <1>2, <2>1, <2>3, <2>4 DEF SameRecords, SameActions, actionTables, records
    <3>2. QED
      BY <1>2, <2>1, <2>2, <2>3, <2>4, <3>1 DEF Stands, Replacing, ReplaceLabels, SaveLabels,
        TiesStand, BeforeDeletes
  <2>5. QED
    BY <2>2, <2>4, ReplacingGoesOn DEF Stands
<1>11. CASE InsertTie(r)
  <2>1. /\ q.at = "insert_ties" /\ q.tied # <<>>
        /\ UNCHANGED <<state, case_kind, findings, explanations, reconciled, actionTables,
                       records, closures>>
    BY <1>11 DEF InsertTie, At
  <2>2. /\ q.gone = before.ties \ (ties \union Range(q.tied))
        /\ state = before.state /\ q.target = "worksheet"
        /\ explanations = before.explanations \ (before.findings \ findings)
    BY <2>1 DEF Replacing
  <2>3. q.tied \in Seq(TieIds)
    BY ListsShorten
  <2>4. PICK t \in TieIds : t = Head(q.tied)
    BY <2>1, ListsShorten
  <2>5. CASE t \in ties
    <3>1. request'[r].at = "idle" /\ ties' = ties
      BY <1>11, <2>4, <2>5, EndsRests DEF InsertTie
    <3>2. ASSUME Same' PROVE Whole!ReconcileClashes(findings, ties)
      BY <1>2, <2>1, <2>2, <2>5, <3>1, <3>2 DEF Same, SameState, SameRecords, SameRows,
        SameActions, actionTables, records, Whole!ReconcileClashes, Whole!actionTables,
        Whole!records, RECONCILE_ALLOWED_STATES, Whole!RECONCILE_ALLOWED_STATES
    <3>3. findings \in SUBSET FindingIds /\ ties \in SUBSET TieIds
      BY DEF Types
    <3>4. QED
      BY <3>1, <3>2, <3>3 DEF GoesWell, Whole!Next
  <2>6. CASE t \notin ties
    <3>1. GoesOn(r, "insert_ties", q.rows, Tail(q.tied)) /\ ties' = ties \union {t}
      BY <1>11, <2>4, <2>6 DEF InsertTie
    <3>2. /\ request'[r].at = "insert_ties" /\ request'[r].tied = Tail(q.tied)
          /\ request'[r].target = "worksheet" /\ request'[r].gone = q.gone
          /\ request'[r].op = q.op
      BY <2>2, <3>1, GoesOnKeeps
    <3>3. {t} \union Range(Tail(q.tied)) = Range(q.tied)
      BY <2>1, <2>3, <2>4, HeadOfRange
    <3>4. ASSUME before' = before PROVE Replacing(request[r])'
      <4>1. /\ SameRecords' /\ SameActions' /\ state' = before.state
        BY <1>2, <2>1, <2>2, <3>4 DEF SameRecords, SameActions, actionTables, records
      <4>2. request'[r].gone = before.ties \ (ties' \union Range(request'[r].tied))
        BY <2>2, <3>1, <3>2, <3>3
      <4>3. QED
        BY <1>2, <2>1, <2>2, <3>2, <3>4, <4>1, <4>2 DEF Replacing, ReplaceLabels, SaveLabels,
          TiesStand, BeforeDeletes
    <3>5. QED
      BY <3>2, <3>4, ReplacingGoesOn
  <2>7. QED
    BY <2>5, <2>6
<1>12. CASE DropTieExplanations(r)
  <2>1. /\ q.tied = <<>> /\ q.at = "insert_ties"
        /\ explanations' = explanations \ q.gone
        /\ UNCHANGED <<state, case_kind, findings, ties, reconciled, actionTables,
                       records, closures>>
    BY <1>12 DEF DropTieExplanations, At
  <2>2. /\ q.gone = before.ties \ ties /\ state = before.state /\ q.target = "worksheet"
        /\ explanations = before.explanations \ (before.findings \ findings)
    <3>1. Range(<<>>) = {}
      BY DEF Range
    <3>2. QED
      BY <2>1, <3>1 DEF Replacing
  <2>3. Stands(r, "delete_case", q.ids)
    BY <1>12, <2>2, GoesToStands DEF DropTieExplanations, NoCase
  <2>4. ASSUME before' = before PROVE Replacing(request[r])'
    <3>1. /\ SameRecords' /\ SameActions' /\ state' = before.state
      BY <1>2, <2>1, <2>2, <2>4 DEF SameRecords, SameActions, actionTables, records
    <3>2. explanations' = before'.explanations \ Whole!Removed(findings, ties)'
      BY <2>1, <2>2, <2>4 DEF Whole!Removed
    <3>3. QED
      BY <1>2, <2>2, <2>3, <2>4, <3>1, <3>2 DEF Stands, Replacing, ReplaceLabels, SaveLabels,
        TiesStand, BeforeDeletes
  <2>5. QED
    BY <2>3, <2>4, ReplacingGoesOn DEF Stands
<1>13. CASE DeleteCase(r) \/ InsertCase(r)
  <2>1. /\ q.at \in SaveLabels /\ q.target = "worksheet"
        /\ q.at = "insert_case" => state = NoCase
        /\ explanations = before.explanations \ Whole!Removed(findings, ties)
    BY <1>13 DEF DeleteCase, InsertCase, At, SaveLabels, Replacing
  <2>2. /\ UNCHANGED <<case_kind, observations, actionTables, records, closures>>
        /\ \/ state' = NoCase /\ Stands(r, "insert_case", q.ids)
           \/ state' = "worksheet" /\ Stands(r, "write_manifest", q.ids)
    <3>1. CASE DeleteCase(r)
      BY <3>1, GoesToStands DEF DeleteCase
    <3>2. CASE InsertCase(r)
      <4>1. q.at = "insert_case" /\ state = NoCase /\ q.target # "closed"
        BY <2>1, <3>2 DEF InsertCase, At
      <4>2. /\ state' = "worksheet" /\ closures' = closures
            /\ GoesTo(r, "write_manifest")
            /\ UNCHANGED <<case_kind, observations, actionTables, records>>
        BY <2>1, <3>2, <4>1 DEF InsertCase
      <4>3. QED
        BY <4>2, GoesToStands
    <3>3. QED
      BY <1>13, <3>1, <3>2
  <2>3. ASSUME before' = before PROVE Replacing(request[r])'
    <3>1. SameRecords' /\ SameActions'
      BY <1>2, <2>2, <2>3 DEF SameRecords, SameActions, observations, actionTables, records
    <3>2. explanations' = before'.explanations \ Whole!Removed(findings, ties)'
      BY <2>1, <2>2, <2>3 DEF Whole!Removed, observations
    <3>3. QED
      BY <1>2, <2>1, <2>2, <2>3, <3>1, <3>2 DEF Stands, Replacing, ReplaceLabels, SaveLabels,
        TiesStand, BeforeDeletes
  <2>4. QED
    BY <2>2, <2>3, ReplacingGoesOn DEF Stands
<1>14. CASE WriteManifest(r)
  <2>1. /\ q.at = "write_manifest" /\ state = "worksheet"
        /\ explanations = before.explanations \ Whole!Removed(findings, ties)
    BY <1>14 DEF WriteManifest, At, SaveLabels, Replacing
  <2>2. /\ reconciled' = TRUE /\ request'[r].at = "idle"
        /\ UNCHANGED <<state, case_kind, findings, ties, explanations, actionTables,
                       records, closures>>
    BY <1>14, EndsRests DEF WriteManifest
  <2>3. ASSUME Same' PROVE Whole!ReconcileCase(findings, ties)
    BY <1>2, <2>1, <2>2, <2>3 DEF Same, SameState, SameRecords, SameRows, SameActions,
      actionTables, records, Whole!ReconcileCase, Whole!actionTables, Whole!records,
      RECONCILE_ALLOWED_STATES, Whole!RECONCILE_ALLOWED_STATES
  <2>4. findings \in SUBSET FindingIds /\ ties \in SUBSET TieIds
    BY DEF Types
  <2>5. QED
    BY <2>2, <2>3, <2>4 DEF GoesWell, Whole!Next
<1>15. CASE OutsideFails(r)
  <2>1. Ends(r) /\ UNCHANGED vars /\ q.at = "old_findings"
    BY <1>15 DEF OutsideFails, Reads, At, Replacing, ReplaceLabels, SaveLabels
  <2>2. Same
    BY <1>2, <2>1 DEF Replacing, BeforeDeletes, Same, SameState
  <2>3. QED
    BY <2>1, <2>2, EndsInVain
<1>16. QED
  BY <1>1, <1>4, <1>5, <1>6, <1>7, <1>8, <1>9, <1>10, <1>11, <1>12, <1>13, <1>14, <1>15

(***************************************************************************)
(* The rows of one bulk request, in the order of its INSERTs.              *)
(***************************************************************************)

\* One more INSERT is the row of the first id that is left.
LEMMA NextOfTheList ==
  ASSUME NEW S, NEW sel \in Seq(S), NEW n \in Nat, NEW left \in Seq(S),
         NEW old \in Seq(ActionRows(S)), NEW table \in Seq(ActionRows(S)),
         Progress(left, old, table, sel, n)
  PROVE  /\ left # <<>> /\ Head(left) = sel[n + 1] /\ Head(left) \in S
         /\ n + 1 \in 1..Len(sel)
         /\ Len(left) = 1 => n + 1 = Len(sel)
         /\ Append(table, Row(Head(left))) \in Seq(ActionRows(S))
         /\ Recorded(old, Append(table, Row(Head(left))), sel, n + 1)
         /\ Len(left) # 1 =>
              Progress(Tail(left), old, Append(table, Row(Head(left))), sel, n + 1)
<1>1. /\ Len(sel) \in Nat /\ n < Len(sel) /\ Len(left) = Len(sel) - n
      /\ \A i \in 1..Len(left) : left[i] = sel[n + i]
      /\ Len(old) \in Nat /\ Len(table) = Len(old) + n
      /\ \A i \in 1..Len(old) : table[i] = old[i]
      /\ \A i \in 1..n : table[Len(old) + i] = Row(sel[i])
  BY DEF Progress, Recorded
<1>2. /\ left # <<>> /\ Head(left) = left[1] /\ Head(left) \in S
      /\ Head(left) = sel[n + 1] /\ n + 1 \in 1..Len(sel)
      /\ Len(left) = 1 => n + 1 = Len(sel)
  BY <1>1
<1>3. PICK row \in ActionRows(S) : row = Row(Head(left))
  BY <1>2, RowsAreActionRows
<1>4. PICK more \in Seq(ActionRows(S)) :
        /\ more = Append(table, row)
        /\ Len(more) = Len(table) + 1
        /\ \A i \in 1..Len(table) : more[i] = table[i]
        /\ more[Len(table) + 1] = row
  <2>1. ASSUME NEW R, NEW x \in R, NEW t \in Seq(R)
        PROVE  /\ Append(t, x) \in Seq(R)
               /\ Len(Append(t, x)) = Len(t) + 1
               /\ \A i \in 1..Len(t) : Append(t, x)[i] = t[i]
               /\ Append(t, x)[Len(t) + 1] = x
    BY <2>1
  <2>2. QED
    BY <2>1
<1>6. Recorded(old, more, sel, n + 1)
  <2>1. Len(more) = Len(old) + (n + 1)
    BY <1>1, <1>4
  <2>2. ASSUME NEW i \in 1..Len(old) PROVE more[i] = old[i]
    BY <1>1, <1>4
  <2>3. ASSUME NEW i \in 1..(n + 1) PROVE more[Len(old) + i] = Row(sel[i])
    <3>1. CASE i = n + 1
      BY <1>1, <1>2, <1>3, <1>4, <3>1
    <3>2. CASE i # n + 1
      <4>1. i \in 1..n /\ Len(old) + i \in 1..Len(table)
        BY <1>1, <2>3, <3>2
      <4>2. more[Len(old) + i] = table[Len(old) + i]
        BY <1>4, <4>1
      <4>3. QED
        BY <1>1, <4>1, <4>2
    <3>3. QED
      BY <3>1, <3>2
  <2>4. QED
    BY <2>1, <2>2, <2>3 DEF Recorded
<1>7. ASSUME Len(left) # 1 PROVE Progress(Tail(left), old, more, sel, n + 1)
  <2>1. /\ Len(Tail(left)) = Len(left) - 1
        /\ \A i \in 1..(Len(left) - 1) : Tail(left)[i] = left[i + 1]
    BY <1>2
  <2>2. n + 1 < Len(sel) /\ Len(Tail(left)) = Len(sel) - (n + 1) /\ n + 1 # 0
    BY <1>1, <1>7, <2>1
  <2>3. ASSUME NEW i \in 1..Len(Tail(left)) PROVE Tail(left)[i] = sel[(n + 1) + i]
    <3>1. i \in 1..(Len(left) - 1) /\ i + 1 \in 1..Len(left) /\ n + (i + 1) = (n + 1) + i
      BY <1>1, <2>1
    <3>2. QED
      BY <1>1, <2>1, <3>1
  <2>4. QED
    BY <1>6, <2>2, <2>3 DEF Progress
<1>8. QED
  BY <1>2, <1>3, <1>4, <1>6, <1>7

(* The lengths of a list before and after one more row, counted from where
   the list started (db.execute INSERT, case/store.py:735-750).                *)
LEMMA OneMore ==
  ASSUME NEW a \in Nat, NEW k \in Nat, NEW b, NEW m, m = a + (k + 1), b = a + k
  PROVE  m = b + 1
  OBVIOUS

\* The rows that were written are what RowsFor appends in one step.
LEMMA RecordedIsAppended ==
  ASSUME NEW S, NEW sel \in Seq(S), NEW n \in 0..Len(sel),
         NEW old \in Seq(ActionRows(S)), NEW table \in Seq(ActionRows(S)),
         Recorded(old, table, sel, n)
  PROVE  /\ table = old \o RowsFor(SubSeq(sel, 1, n), "dismiss", "other")
         /\ n = Len(sel) => table = old \o RowsFor(sel, "dismiss", "other")
         /\ Len(table) = Len(old) + n
<1>1. /\ Len(table) = Len(old) + n /\ Len(old) \in Nat /\ Len(sel) \in Nat
      /\ \A i \in 1..Len(old) : table[i] = old[i]
      /\ \A i \in 1..n : table[Len(old) + i] = Row(sel[i])
  BY DEF Recorded
<1>2. ASSUME NEW first \in Seq(S), Len(first) = n, \A i \in 1..n : first[i] = sel[i]
      PROVE  table = old \o RowsFor(first, "dismiss", "other")
  <2>1. PICK rows : rows = [i \in 1..n |-> Row(first[i])]
    OBVIOUS
  <2>2. RowsFor(first, "dismiss", "other") = rows
    BY <1>2, <2>1 DEF RowsFor, Row
  <2>3. \A i \in 1..n : Row(first[i]) \in ActionRows(S)
    BY <1>2, RowsAreActionRows
  <2>4. /\ rows \in Seq(ActionRows(S)) /\ Len(rows) = n
        /\ \A i \in 1..n : rows[i] = Row(sel[i])
    <3>1. n \in Nat
      BY <1>1
    <3>2. rows \in [1..n -> ActionRows(S)] /\ DOMAIN rows = 1..n
      BY <2>1, <2>3
    <3>3. rows \in Seq(ActionRows(S))
      BY <3>1, <3>2, SeqDef
    <3>4. Len(rows) = n
      BY <3>1, <3>2, <3>3, LenProperties
    <3>5. QED
      BY <1>2, <2>1, <3>3, <3>4
  <2>5. PICK both \in Seq(ActionRows(S)) : both = old \o rows
    BY <2>4, ConcatProperties
  <2>6. /\ Len(both) = Len(old) + n
        /\ \A i \in 1..(Len(old) + n) :
             both[i] = IF i <= Len(old) THEN old[i] ELSE rows[i - Len(old)]
    BY <2>4, <2>5, ConcatProperties
  <2>7. \A i \in 1..(Len(old) + n) : both[i] = table[i]
    <3>1. ASSUME NEW i \in 1..(Len(old) + n), i > Len(old) PROVE both[i] = table[i]
      <4>1. i - Len(old) \in 1..n /\ Len(old) + (i - Len(old)) = i
        BY <1>1, <3>1
      <4>2. QED
        BY <1>1, <2>4, <2>6, <4>1
    <3>2. ASSUME NEW i \in 1..(Len(old) + n), i <= Len(old) PROVE both[i] = table[i]
      BY <1>1, <2>6, <3>2
    <3>3. QED
      BY <1>1, <3>1, <3>2
  <2>8. both = [i \in 1..Len(both) |-> both[i]] /\ table = [i \in 1..Len(table) |-> table[i]]
    OBVIOUS
  <2>9. both = table
    BY <1>1, <2>6, <2>7, <2>8
  <2>10. QED
    BY <2>2, <2>5, <2>9
<1>3. table = old \o RowsFor(SubSeq(sel, 1, n), "dismiss", "other")
  <2>0. 1 \in Int /\ n \in Int /\ \A i \in 1..n : sel[i] \in S
    BY <1>1
  <2>1. PICK first \in Seq(S) : first = SubSeq(sel, 1, n)
    BY <2>0, SubSeqProperties
  <2>2. Len(first) = n /\ \A i \in 1..n : first[i] = sel[i]
    <3>1. /\ Len(first) = IF 1 <= n THEN n - 1 + 1 ELSE 0
          /\ \A i \in 1..(n - 1 + 1) : first[i] = sel[1 + i - 1]
      BY <2>0, <2>1, SubSeqProperties
    <3>2. n - 1 + 1 = n /\ (~ (1 <= n) => n = 0) /\ \A i \in 1..n : 1 + i - 1 = i
      BY <1>1
    <3>3. QED
      BY <3>1, <3>2
  <2>3. QED
    BY <1>2, <2>1, <2>2
<1>4. n = Len(sel) => table = old \o RowsFor(sel, "dismiss", "other")
  BY <1>2
<1>5. QED
  BY <1>1, <1>3, <1>4

-----------------------------------------------------------------------------
(***************************************************************************)
(* The routes of the analyst: one action on a finding, or one on a         *)
(* selection of findings, is RecordBulkAction; on ties, however far it     *)
(* gets, it is RecordBulkTieAction.                                        *)
(***************************************************************************)
LEMMA ActGoesWell ==
  ASSUME Types, RestOK, NEW r \in Requests, request[r].op = "act",
         Acting(request[r]), Continue(r)
  PROVE  GoesWell(r)
<1> DEFINE q == request[r]
<1>1. KnownIds(r) \/ InsertAction(r)
  <2>1. q.at \in {"known_ids", "insert_actions"} /\ q.op = "act"
    BY DEF Acting
  <2>2. QED
    BY <2>1 DEF Continue, At, DeleteSubject,
      InsertSubject, DeleteDeclaration, InsertDeclaration, Removes, Adds,
      DeleteCase, InsertCase, WorksheetLoads, LoadFindings, EffectiveActions, LoadTies,
      EffectiveTieActions, CheckAdjudication, CheckOutcome, ReconcileLoads, LoadSubject,
      LoadDeclaration, OldFindings, DeleteFindings, InsertFinding, DropFindingExplanations,
      OldTies, DeleteTies, InsertTie, DropTieExplanations, WriteManifest, KnownTies,
      InsertTieAction, NextTie, OutsideFails, InsertCertification, NextSeq,
      InsertAdjudication, InsertOutcome, FindPrimary, LoadCached, SaveExplanation
<1>2. /\ AcceptsActions /\ SameState /\ SameRecords /\ SameRows
      /\ before.tie_actions = tie_actions
      /\ before.worksheet_actions \in Seq(ActionRows(FindingIds))
  BY DEF Acting
<1>3. PICK sel \in Selections(FindingIds), n \in Nat : ActingOn(q, sel, n)
  BY DEF Acting
<1>4. /\ sel \in Seq(FindingIds) /\ q.rows \in Seq(FindingIds)
      /\ worksheet_actions \in Seq(ActionRows(FindingIds))
      /\ Progress(q.rows, before.worksheet_actions, worksheet_actions, sel, n)
  BY <1>3, SelectionsAreLists, ListsShorten DEF RestOK, ActingOn
<1>5. CASE KnownIds(r)
  <2>1. /\ UNCHANGED vars /\ n = 0 /\ q.at = "known_ids"
        /\ before.worksheet_actions = worksheet_actions
    BY <1>3, <1>4, <1>5 DEF KnownIds, Reads, ActingOn, At, Progress
  <2>2. CASE Ends(r)
    BY <1>2, <2>1, <2>2, EndsInVain DEF Same, SameActions
  <2>3. CASE ~Ends(r)
    <3>1. Range(q.rows) \subseteq findings /\ GoesTo(r, "insert_actions")
      BY <1>5, <2>3 DEF KnownIds
    <3>2. Stands(r, "insert_actions", q.ids)
      BY <3>1, GoesToStands
    <3>3. ASSUME before' = before PROVE Acting(request[r])'
      <4>1. /\ state' = state /\ findings' = findings
            /\ worksheet_actions' = worksheet_actions /\ tie_actions' = tie_actions
        BY <2>1 DEF vars, observations, actionTables
      <4>2. SameState' /\ SameRecords' /\ SameRows' /\ AcceptsActions'
        BY <1>2, <2>1, <3>3, <4>1, SameStays DEF AcceptsActions
      <4>3. \A i \in 1..Len(sel) : sel[i] \in findings
        <5>1. ASSUME NEW i \in 1..Len(sel) PROVE sel[i] \in Range(q.rows)
          BY <1>4, <2>1 DEF Progress, Range
        <5>2. QED
          BY <3>1, <5>1
      <4>4. ActingOn(request[r], sel, n)'
        BY <1>3, <2>1, <3>2, <3>3, <4>1, <4>3 DEF ActingOn, Progress, Recorded, Row, Stands
      <4>5. QED
        BY <1>2, <3>2, <3>3, <4>1, <4>2, <4>4 DEF Acting, Selections, Stands
    <3>4. QED
      BY <3>2, <3>3 DEF GoesWell, Midway, Stands
  <2>4. QED
    BY <2>2, <2>3
<1>6. CASE InsertAction(r)
  <2>1. /\ Len(worksheet_actions) < MaxActions
        /\ worksheet_actions' = Append(worksheet_actions, Row(Head(q.rows)))
        /\ q.at = "insert_actions" /\ \A i \in 1..Len(sel) : sel[i] \in findings
        /\ UNCHANGED <<state, case_kind, observations, tie_actions, records, closures>>
    BY <1>3, <1>6 DEF InsertAction, At, ActingOn
  <2>2. PICK more \in Seq(ActionRows(FindingIds)) :
          more = Append(worksheet_actions, Row(Head(q.rows)))
    BY <1>2, <1>4, NextOfTheList
  <2>3. /\ n + 1 \in 1..Len(sel)
        /\ Len(q.rows) = 1 => n + 1 = Len(sel)
        /\ Recorded(before.worksheet_actions, more, sel, n + 1)
        /\ Len(q.rows) # 1 =>
             Progress(Tail(q.rows), before.worksheet_actions, more, sel, n + 1)
    BY <1>2, <1>4, <2>2, NextOfTheList
  <2>4. CASE Len(q.rows) # 1
    <3>1. /\ request'[r].at = "insert_actions" /\ request'[r].rows = Tail(q.rows)
          /\ request'[r].op = "act"
      BY <1>6, <2>4, GoesOnKeeps DEF InsertAction
    <3>2. ASSUME before' = before PROVE Acting(request[r])'
      <4>1. /\ SameState' /\ SameRecords' /\ SameRows' /\ AcceptsActions'
            /\ findings' = findings
        BY <1>2, <2>1, <3>2 DEF SameState, SameRecords, SameRows, AcceptsActions,
          observations, records
      <4>2. n + 1 \in Nat /\ n + 1 # 0
        OBVIOUS
      <4>3. Progress(request'[r].rows, before'.worksheet_actions, worksheet_actions', sel,
                     n + 1)
        BY <2>1, <2>2, <2>3, <2>4, <3>1, <3>2
      <4>4. ActingOn(request[r], sel, n + 1)'
        BY <2>1, <3>1, <4>1, <4>3 DEF ActingOn, Progress, Recorded, Row
      <4>5. QED
        BY <1>2, <2>1, <3>1, <3>2, <4>1, <4>2, <4>4 DEF Acting, Selections
    <3>3. QED
      BY <3>1, <3>2 DEF GoesWell, Midway
  <2>5. CASE Len(q.rows) = 1
    <3>1. request'[r].at = "idle"
      BY <1>6, <2>5, EndsRests DEF InsertAction
    <3>2. /\ more = before.worksheet_actions \o RowsFor(sel, "dismiss", "other")
          /\ Len(more) = Len(before.worksheet_actions) + Len(sel)
      <4>1. PICK k \in 0..Len(sel) : k = n + 1 /\ k = Len(sel)
        BY <2>3, <2>5
      <4>2. PICK old \in Seq(ActionRows(FindingIds)) : old = before.worksheet_actions
        BY <1>2
      <4>3. Recorded(old, more, sel, k)
        BY <2>3, <4>1, <4>2
      <4>4. /\ k = Len(sel) => more = old \o RowsFor(sel, "dismiss", "other")
            /\ Len(more) = Len(old) + k
        BY <1>4, <4>3, RecordedIsAppended
      <4>5. QED
        BY <4>1, <4>2, <4>4
    <3>3. Len(before.worksheet_actions) + Len(sel) <= MaxActions
      <4>1. Len(more) = Len(worksheet_actions) + 1 /\ Len(worksheet_actions) \in Nat
        <5>1. /\ Len(more) = Len(before.worksheet_actions) + (n + 1)
              /\ Len(worksheet_actions) = Len(before.worksheet_actions) + n
          BY <1>4, <2>3 DEF Progress, Recorded
        <5>2. PICK a \in Nat : a = Len(before.worksheet_actions)
          BY <1>2
        <5>3. PICK b \in Nat : b = Len(worksheet_actions)
          BY <1>4
        <5>4. PICK k \in Nat : k = n
          OBVIOUS
        <5>5. Len(more) = a + (k + 1) /\ b = a + k
          BY <5>1, <5>2, <5>3, <5>4
        <5>6. PICK m : m = Len(more)
          OBVIOUS
        <5>7. m = a + (k + 1) /\ b = a + k
          BY <5>5, <5>6
        <5>8. m = b + 1
          BY <5>7, OneMore
        <5>9. QED
          BY <5>3, <5>6, <5>8
      <4>2. QED
        BY <2>1, <3>2, <4>1, InputAssumption
    <3>4. ASSUME Same' PROVE Whole!RecordBulkAction(sel, "dismiss", "other")
      <4>1. Whole!AcceptsActions
        BY <1>2 DEF AcceptsActions, Whole!AcceptsActions, SameState, NoCase, Whole!NoCase
      <4>2. Whole!IsValidForFinding(before.case_kind, "dismiss", "other")
        BY DEF Whole!IsValidForFinding, Whole!DISMISS_REASON_CODES
      <4>3. \A i \in 1..Len(sel) : sel[i] \in before.findings
        BY <1>2, <2>1 DEF SameRows
      <4>4. before'.worksheet_actions
              = before.worksheet_actions \o Whole!RowsFor(sel, "dismiss", "other")
        BY <2>1, <2>2, <3>2, <3>4 DEF Same, SameActions, RowsFor, Whole!RowsFor
      <4>5. /\ before'.state = before.state /\ before'.case_kind = before.case_kind
            /\ before'.tie_actions = before.tie_actions
            /\ before'.closures = before.closures
            /\ UNCHANGED Whole!observations /\ UNCHANGED Whole!records
        BY <1>2, <2>1, <3>4 DEF Same, SameState, SameRecords, SameRows, SameActions,
          observations, records, Whole!observations, Whole!records
      <4>6. QED
        BY <3>3, <4>1, <4>2, <4>3, <4>4, <4>5 DEF Whole!RecordBulkAction
    <3>5. sel \in Whole!Selections(FindingIds)
      BY DEF Selections, Whole!Selections
    <3>6. QED
      BY BoundsAssumption, <3>1, <3>4, <3>5 DEF GoesWell, Whole!Next
  <2>6. QED
    BY <2>4, <2>5
<1>7. QED
  BY <1>1, <1>5, <1>6

\* The ties before the first unknown one are recorded, in one step of the whole.
LEMMA TieRowsAreBulk ==
  ASSUME NEW sel \in Selections(TieIds), NEW n \in 0..Len(sel),
         before.tie_actions \in Seq(ActionRows(TieIds)),
         NEW table \in Seq(ActionRows(TieIds)),
         Recorded(before.tie_actions, table, sel, n),
         Len(table) <= MaxActions, before'.tie_actions = table,
         \A i \in 1..n : sel[i] \in ties,
         n < Len(sel) => sel[n + 1] \notin ties,
         AcceptsActions, SameState, SameRows,
         /\ before'.state = before.state /\ before'.case_kind = before.case_kind
         /\ before'.worksheet_actions = before.worksheet_actions
         /\ before'.closures = before.closures
         /\ UNCHANGED Whole!observations /\ UNCHANGED Whole!records
  PROVE  Whole!Next
<1>1. sel \in Seq(TieIds)
  BY SelectionsAreLists
<1>2. /\ table = before.tie_actions \o RowsFor(SubSeq(sel, 1, n), "dismiss", "other")
      /\ Len(before.tie_actions) + n <= MaxActions
  <2>1. PICK old \in Seq(ActionRows(TieIds)) : old = before.tie_actions
    OBVIOUS
  <2>2. Recorded(old, table, sel, n)
    BY <2>1
  <2>3. /\ table = old \o RowsFor(SubSeq(sel, 1, n), "dismiss", "other")
        /\ Len(table) = Len(old) + n
    BY <1>1, <2>2, RecordedIsAppended
  <2>4. QED
    BY <2>1, <2>3
<1>3. Whole!AcceptsActions
  BY DEF AcceptsActions, Whole!AcceptsActions, SameState, NoCase, Whole!NoCase
<1>4. Whole!is_valid_tie_reason_code("dismiss", "other")
  BY DEF Whole!is_valid_tie_reason_code, Whole!TIE_DISMISS_REASON_CODES
<1>5. before'.tie_actions
        = before.tie_actions \o Whole!RowsFor(SubSeq(sel, 1, n), "dismiss", "other")
  BY <1>2 DEF RowsFor, Whole!RowsFor
<1>6. /\ \A i \in 1..n : sel[i] \in before.ties
      /\ n < Len(sel) => sel[n + 1] \notin before.ties
  BY DEF SameRows
<1>7. Whole!RecordBulkTieAction(sel, "dismiss", "other")
  BY <1>2, <1>3, <1>4, <1>5, <1>6 DEF Whole!RecordBulkTieAction
<1>8. sel \in Whole!Selections(TieIds)
  BY DEF Selections, Whole!Selections
<1>9. QED
  BY BoundsAssumption, <1>7, <1>8 DEF Whole!Next

\* Between its INSERTs a bulk request on ties looks at the state and the ties again.
LEMMA ActOnTiesGoesWell ==
  ASSUME Types, RestOK, NEW r \in Requests, request[r].op = "act_on_ties",
         ActingOnTies(request[r]), Continue(r)
  PROVE  GoesWell(r)
<1> DEFINE q == request[r]
<1>1. KnownTies(r) \/ InsertTieAction(r) \/ NextTie(r)
  <2>1. q.at \in {"known_ties", "insert_tie_action", "next_tie"}
    BY DEF ActingOnTies
  <2>2. QED
    BY <2>1 DEF Continue, At, DeleteSubject,
      InsertSubject, DeleteDeclaration, InsertDeclaration, Removes, Adds,
      DeleteCase, InsertCase, WorksheetLoads, LoadFindings, EffectiveActions, LoadTies,
      EffectiveTieActions, CheckAdjudication, CheckOutcome, ReconcileLoads, LoadSubject,
      LoadDeclaration, OldFindings, DeleteFindings, InsertFinding, DropFindingExplanations,
      OldTies, DeleteTies, InsertTie, DropTieExplanations, WriteManifest, KnownIds,
      InsertAction, OutsideFails, InsertCertification, NextSeq,
      InsertAdjudication, InsertOutcome, FindPrimary, LoadCached, SaveExplanation
<1>2. /\ AcceptsActions /\ SameState /\ SameRecords /\ SameRows
      /\ before.worksheet_actions = worksheet_actions
      /\ before.tie_actions \in Seq(ActionRows(TieIds))
  BY DEF ActingOnTies
<1>3. PICK sel \in Selections(TieIds), n \in Nat : ActingOnTie(q, sel, n)
  BY DEF ActingOnTies
<1>4. /\ sel \in Seq(TieIds) /\ q.tied \in Seq(TieIds)
      /\ tie_actions \in Seq(ActionRows(TieIds))
      /\ Progress(q.tied, before.tie_actions, tie_actions, sel, n)
      /\ Recorded(before.tie_actions, tie_actions, sel, n)
      /\ \A i \in 1..n : sel[i] \in ties
      /\ n # 0 => Len(tie_actions) <= MaxActions
  BY <1>3, SelectionsAreLists, ListsShorten DEF RestOK, ActingOnTie, Progress
<1>5. /\ n \in 0..Len(sel) /\ n < Len(sel)
      /\ Head(q.tied) = sel[n + 1]
  <2>1. n < Len(sel)
    BY <1>4 DEF Progress
  <2>2. Head(q.tied) = sel[n + 1]
    BY <1>2, <1>4, NextOfTheList
  <2>3. QED
    BY <1>4, <2>1, <2>2
<1>6. ASSUME UNCHANGED vars, NEW label \in {"known_ties", "insert_tie_action"},
             Stands(r, label, q.ids),
             label = "insert_tie_action" => Head(q.tied) \in ties
      PROVE  GoesWell(r)
  <2>1. ASSUME before' = before PROVE ActingOnTies(request[r])'
    <3>1. /\ state' = state /\ ties' = ties
          /\ worksheet_actions' = worksheet_actions /\ tie_actions' = tie_actions
      BY <1>6 DEF vars, observations, actionTables
    <3>2. SameState' /\ SameRecords' /\ SameRows' /\ AcceptsActions'
      BY <1>2, <1>6, <2>1, <3>1, SameStays DEF AcceptsActions
    <3>3. ActingOnTie(request[r], sel, n)'
      BY <1>3, <1>6, <2>1, <3>1 DEF ActingOnTie, Progress, Recorded, Row, Stands
    <3>4. QED
      BY <1>2, <1>6, <2>1, <3>1, <3>2, <3>3 DEF ActingOnTies, Selections, Stands
  <2>2. QED
    BY <1>6, <2>1 DEF GoesWell, Midway, Stands
<1>7. CASE KnownTies(r)
  <2>1. UNCHANGED vars
    BY <1>7 DEF KnownTies, Reads
  <2>2. CASE Head(q.tied) \in ties
    <3>1. Stands(r, "insert_tie_action", q.ids)
      BY <1>7, <2>2, GoesToStands DEF KnownTies
    <3>2. QED
      BY <1>6, <2>1, <2>2, <3>1
  <2>3. CASE Head(q.tied) \notin ties
    <3>1. Ends(r) /\ request'[r].at = "idle"
      BY <1>7, <2>3, EndsRests DEF KnownTies
    <3>2. CASE n = 0
      <4>1. Same
        BY <1>2, <1>4, <3>2 DEF Same, SameActions, Progress
      <4>2. QED
        BY <2>1, <3>1, <4>1, EndsInVain
    <3>3. CASE n # 0
      <4>1. ASSUME Same' PROVE Whole!Next
        <5>1. before'.tie_actions = tie_actions
          BY <2>1, <4>1 DEF Same, SameActions, vars, actionTables
        <5>2. /\ before'.state = before.state /\ before'.case_kind = before.case_kind
              /\ before'.worksheet_actions = before.worksheet_actions
              /\ before'.closures = before.closures
              /\ UNCHANGED Whole!observations /\ UNCHANGED Whole!records
          BY <1>2, <2>1, <4>1 DEF Same, SameState, SameRecords, SameRows, SameActions, vars,
            observations, records, actionTables, Whole!observations, Whole!records
        <5>3. QED
          BY <1>2, <1>4, <1>5, <2>3, <3>3, <5>1, <5>2, TieRowsAreBulk
      <4>2. QED
        BY <3>1, <4>1 DEF GoesWell
    <3>4. QED
      BY <3>2, <3>3
  <2>4. QED
    BY <2>2, <2>3
<1>8. CASE InsertTieAction(r)
  <2>1. /\ Len(tie_actions) < MaxActions /\ Head(q.tied) \in ties
        /\ tie_actions' = Append(tie_actions, Row(Head(q.tied)))
        /\ UNCHANGED <<state, case_kind, observations, worksheet_actions, records, closures>>
    BY <1>3, <1>8 DEF InsertTieAction, At, ActingOnTie
  <2>2. PICK more \in Seq(ActionRows(TieIds)) :
          more = Append(tie_actions, Row(Head(q.tied)))
    BY <1>2, <1>4, NextOfTheList
  <2>3. /\ n + 1 \in 1..Len(sel)
        /\ Len(q.tied) = 1 => n + 1 = Len(sel)
        /\ Recorded(before.tie_actions, more, sel, n + 1)
        /\ Len(q.tied) # 1 =>
             Progress(Tail(q.tied), before.tie_actions, more, sel, n + 1)
    BY <1>2, <1>4, <2>2, NextOfTheList
  <2>4. \A i \in 1..(n + 1) : sel[i] \in ties
    BY <1>4, <1>5, <2>1
  <2>5. Len(more) <= MaxActions
    <3>1. Len(more) = Len(tie_actions) + 1 /\ Len(tie_actions) \in Nat
      BY <1>4, <1>5, <2>2, RowsAreActionRows
    <3>2. QED
      BY <2>1, <3>1, InputAssumption
  <2>6. CASE Len(q.tied) # 1
    <3>1. /\ request'[r].at = "next_tie" /\ request'[r].tied = Tail(q.tied)
          /\ request'[r].op = "act_on_ties"
      BY <1>8, <2>6, GoesOnKeeps DEF InsertTieAction
    <3>2. ASSUME before' = before PROVE ActingOnTies(request[r])'
      <4>1. /\ SameState' /\ SameRecords' /\ SameRows' /\ AcceptsActions'
            /\ ties' = ties
        BY <1>2, <2>1, <3>2 DEF SameState, SameRecords, SameRows, AcceptsActions,
          observations, records
      <4>2. n + 1 \in Nat /\ n + 1 # 0
        OBVIOUS
      <4>3. Progress(request'[r].tied, before'.tie_actions, tie_actions', sel, n + 1)
        BY <2>1, <2>2, <2>3, <2>6, <3>1, <3>2
      <4>4. ActingOnTie(request[r], sel, n + 1)'
        BY <2>1, <2>2, <2>4, <2>5, <3>1, <4>1, <4>3
        DEF ActingOnTie, Progress, Recorded, Row
      <4>5. QED
        BY <1>2, <2>1, <3>1, <3>2, <4>1, <4>2, <4>4 DEF ActingOnTies, Selections
    <3>3. QED
      BY <3>1, <3>2 DEF GoesWell, Midway
  <2>7. CASE Len(q.tied) = 1
    <3>1. request'[r].at = "idle"
      BY <1>8, <2>7, EndsRests DEF InsertTieAction
    <3>2. ASSUME Same' PROVE Whole!Next
      <4>1. before'.tie_actions = more
        BY <2>1, <2>2, <3>2 DEF Same, SameActions
      <4>2. /\ before'.state = before.state /\ before'.case_kind = before.case_kind
            /\ before'.worksheet_actions = before.worksheet_actions
            /\ before'.closures = before.closures
            /\ UNCHANGED Whole!observations /\ UNCHANGED Whole!records
        BY <1>2, <2>1, <3>2 DEF Same, SameState, SameRecords, SameRows, SameActions,
          observations, records, Whole!observations, Whole!records
      <4>3. PICK k \in 0..Len(sel) : k = n + 1 /\ k = Len(sel)
        BY <2>3, <2>7
      <4>4. /\ Recorded(before.tie_actions, more, sel, k)
            /\ \A i \in 1..k : sel[i] \in ties
            /\ k < Len(sel) => sel[k + 1] \notin ties
        BY <2>3, <2>4, <4>3
      <4>5. QED
        BY <1>2, <2>5, <4>1, <4>2, <4>4, TieRowsAreBulk
    <3>3. QED
      BY <3>1, <3>2 DEF GoesWell
  <2>8. QED
    BY <2>6, <2>7
<1>9. CASE NextTie(r)
  <2>1. UNCHANGED vars /\ Stands(r, "known_ties", q.ids)
    BY <1>2, <1>9, GoesToStands DEF NextTie, Reads
  <2>2. QED
    BY <1>6, <2>1
<1>10. QED
  BY <1>1, <1>7, <1>8, <1>9

(***************************************************************************)
(* POST .../adjudication is RecordAdjudication, POST .../certifications is *)
(* RecordCertification, POST .../outcome is RecordOutcome, and             *)
(* POST .../explanation is Explain, or changes nothing.                    *)
(***************************************************************************)
LEMMA AdjudicateGoesWell ==
  ASSUME Types, NEW r \in Requests, request[r].op = "adjudicate", Adjudicating(request[r]),
         Continue(r)
  PROVE  GoesWell(r)
<1> DEFINE q == request[r]
<1>1. NextSeq(r) \/ InsertAdjudication(r)
  <2>1. q.at \in {"next_seq", "insert_adjudication"}
    BY DEF Adjudicating
  <2>2. QED
    BY <2>1 DEF Continue, At, DeleteSubject,
      InsertSubject, DeleteDeclaration, InsertDeclaration, Removes, Adds,
      DeleteCase, InsertCase, WorksheetLoads, LoadFindings, EffectiveActions, LoadTies,
      EffectiveTieActions, CheckAdjudication, CheckOutcome, ReconcileLoads, LoadSubject,
      LoadDeclaration, OldFindings, DeleteFindings, InsertFinding, DropFindingExplanations,
      OldTies, DeleteTies, InsertTie, DropTieExplanations, WriteManifest, KnownIds, KnownTies,
      NextTie, OutsideFails,
      InsertAction, InsertTieAction, InsertCertification, InsertOutcome, FindPrimary,
      LoadCached,
      SaveExplanation
<1>2. state = "adjudication" /\ Cardinality(adjudications) < MaxRecords /\ Same
  BY DEF Adjudicating
<1>3. CASE NextSeq(r)
  <2>1. UNCHANGED vars
    BY <1>3 DEF NextSeq, Reads
  <2>2. request'[r] = [q EXCEPT !.at = "insert_adjudication", !.seq = next_adjudication_seq]
    BY <1>3 DEF NextSeq, Types
  <2>3. /\ request'[r].at = "insert_adjudication" /\ request'[r].op = q.op
        /\ request'[r].seq = next_adjudication_seq
    BY <2>2 DEF Types, RequestRecords
  <2>4. ASSUME before' = before PROVE Adjudicating(request[r])'
    <3>1. Same'
      BY <1>2, <2>1, <2>4, SameStays DEF Same
    <3>2. state' = state /\ adjudications' = adjudications
      BY <2>1 DEF vars, records
    <3>3. next_adjudication_seq' = next_adjudication_seq
      BY <3>2 DEF next_adjudication_seq
    <3>4. QED
      BY <1>2, <2>3, <3>1, <3>2, <3>3 DEF Adjudicating
  <2>5. QED
    BY <2>3, <2>4 DEF GoesWell, Midway
<1>4. CASE InsertAdjudication(r)
  <2>1. /\ adjudications' = adjudications \union {next_adjudication_seq}
        /\ Ends(r)
        /\ UNCHANGED <<state, case_kind, observations, actionTables, certifications,
                       case_outcomes, closures>>
    BY <1>4 DEF InsertAdjudication, At, Adjudicating
  <2>2. Whole!next_adjudication_seq = next_adjudication_seq
    BY <1>2 DEF Same, SameRecords, next_adjudication_seq, Whole!next_adjudication_seq
  <2>3. ASSUME Same' PROVE Whole!RecordAdjudication
    <3>1. /\ before.state = "adjudication"
          /\ Whole!Cardinality(before.adjudications) < MaxRecords
      BY <1>2 DEF Same, SameState, SameRecords, Cardinality, Whole!Cardinality
    <3>2. before'.adjudications = before.adjudications \union {Whole!next_adjudication_seq}
      BY <1>2, <2>1, <2>2, <2>3 DEF Same, SameRecords
    <3>3. /\ before'.state = before.state /\ before'.case_kind = before.case_kind
          /\ UNCHANGED Whole!observations /\ UNCHANGED Whole!actionTables
          /\ before'.certifications = before.certifications
          /\ before'.case_outcomes = before.case_outcomes
          /\ before'.closures = before.closures
      BY <1>2, <2>1, <2>3 DEF Same, SameState, SameRecords, SameRows, SameActions,
        observations, actionTables, Whole!observations, Whole!actionTables
    <3>4. QED
      BY <3>1, <3>2, <3>3, Zenon DEF Whole!RecordAdjudication
  <2>4. request'[r].at = "idle"
    BY <2>1, EndsRests
  <2>5. QED
    BY <2>3, <2>4 DEF GoesWell, Whole!Next
<1>5. QED
  BY <1>1, <1>3, <1>4

\* The certification is of a current finding.
LEMMA CertifyGoesWell ==
  ASSUME Types, RestOK, NEW r \in Requests, request[r].op = "certify",
         Certifying(request[r]), Continue(r)
  PROVE  GoesWell(r)
<1> DEFINE q == request[r]
<1>1. KnownIds(r) \/ InsertCertification(r)
  <2>1. q.at \in {"known_ids", "insert_certification"}
    BY DEF Certifying
  <2>2. QED
    BY <2>1 DEF Continue, At, DeleteSubject,
      InsertSubject, DeleteDeclaration, InsertDeclaration, Removes, Adds,
      DeleteCase, InsertCase, WorksheetLoads, LoadFindings, EffectiveActions, LoadTies,
      EffectiveTieActions, CheckAdjudication, CheckOutcome, ReconcileLoads, LoadSubject,
      LoadDeclaration, OldFindings, DeleteFindings, InsertFinding, DropFindingExplanations,
      OldTies, DeleteTies, InsertTie, DropTieExplanations, WriteManifest,
      InsertAction, KnownTies, InsertTieAction, NextTie, OutsideFails, NextSeq,
      InsertAdjudication, InsertOutcome, FindPrimary, LoadCached, SaveExplanation
<1>2. PICK f \in FindingIds : q.rows = <<f>>
  BY DEF Certifying
<1>3. state # NoCase /\ Same
  BY DEF Certifying
<1>4. CASE KnownIds(r)
  <2>1. UNCHANGED vars
    BY <1>4 DEF KnownIds, Reads
  <2>2. CASE Ends(r)
    BY <1>3, <2>1, <2>2, EndsInVain
  <2>3. CASE ~Ends(r)
    <3>1. Range(q.rows) \subseteq findings /\ GoesTo(r, "insert_certification")
      BY <1>4, <2>3 DEF KnownIds
    <3>2. Stands(r, "insert_certification", q.ids)
      BY <3>1, GoesToStands
    <3>3. Head(q.rows) \in findings
      BY <1>2, <3>1 DEF Range
    <3>4. ASSUME before' = before PROVE Certifying(request[r])'
      <4>1. Same' /\ state' = state /\ findings' = findings
        BY <1>3, <2>1, <3>4, SameStays DEF Same, vars, observations
      <4>2. QED
        BY <1>2, <1>3, <3>2, <3>3, <4>1 DEF Certifying, Stands
    <3>5. QED
      BY <3>2, <3>4 DEF GoesWell, Midway, Stands
  <2>4. QED
    BY <2>2, <2>3
<1>5. CASE InsertCertification(r)
  <2>1. Head(q.rows) = f /\ f \in findings
    BY <1>2, <1>5 DEF InsertCertification, At, Certifying
  <2>2. /\ Len(certifications) < MaxAppends /\ Ends(r)
        /\ certifications' = Append(certifications, f)
        /\ UNCHANGED <<state, case_kind, observations, actionTables, adjudications,
                       case_outcomes, closures>>
    BY <1>5, <2>1 DEF InsertCertification
  <2>3. Len(certifications) < MaxRecords
    <3>1. Len(certifications) \in Nat
      BY DEF RestOK
    <3>2. QED
      BY BoundsAssumption, <2>2, <3>1, InputAssumption
  <2>4. ASSUME Same' PROVE Whole!RecordCertification(f)
    BY <1>3, <2>1, <2>2, <2>3, <2>4 DEF Same, SameState, SameRecords, SameRows, SameActions,
      observations, actionTables, Whole!RecordCertification, Whole!observations,
      Whole!actionTables, NoCase, Whole!NoCase
  <2>5. request'[r].at = "idle"
    BY <2>2, EndsRests
  <2>6. QED
    BY <2>4, <2>5 DEF GoesWell, Whole!Next
<1>6. QED
  BY <1>1, <1>4, <1>5

\* The outcome is one of the vocabulary.
LEMMA OutcomeGoesWell ==
  ASSUME Types, NEW r \in Requests, request[r].op = "outcome",
         Deciding(request[r]), Continue(r)
  PROVE  GoesWell(r)
<1> DEFINE q == request[r]
<1>1. q.at = "insert_outcome" /\ state = "outcome" /\ Same
  BY DEF Deciding
<1>2. PICK o \in OfferedOutcomes : InsertOutcome(r, o)
  BY <1>1 DEF Continue, At, DeleteSubject,
      InsertSubject, DeleteDeclaration, InsertDeclaration, Removes, Adds,
      DeleteCase, InsertCase, WorksheetLoads, LoadFindings, EffectiveActions, LoadTies,
      EffectiveTieActions, CheckAdjudication, CheckOutcome, ReconcileLoads, LoadSubject,
      LoadDeclaration, OldFindings, DeleteFindings, InsertFinding, DropFindingExplanations,
      OldTies, DeleteTies, InsertTie, DropTieExplanations, WriteManifest, KnownIds, KnownTies,
      NextTie, OutsideFails,
      InsertAction, InsertTieAction, InsertCertification, NextSeq, InsertAdjudication,
      FindPrimary, LoadCached,
      SaveExplanation
<1>3. /\ o \in VALID_OUTCOMES /\ Len(case_outcomes) < MaxAppends /\ Ends(r)
      /\ case_outcomes' = Append(case_outcomes, o)
      /\ UNCHANGED <<state, case_kind, observations, actionTables, adjudications,
                     certifications, closures>>
  BY <1>2 DEF InsertOutcome, OutcomesWith
<1>4. Len(case_outcomes) < MaxRecords
  <2>1. Len(case_outcomes) \in Nat
    BY DEF Types
  <2>2. QED
    BY BoundsAssumption, <1>3, <2>1, InputAssumption
<1>5. ASSUME Same' PROVE Whole!RecordOutcome(o)
  BY <1>1, <1>3, <1>4, <1>5 DEF Same, SameState, SameRecords, SameRows, SameActions,
    observations, actionTables, Whole!RecordOutcome, Whole!OutcomesWith, Whole!observations,
    Whole!actionTables, VALID_OUTCOMES, Whole!VALID_OUTCOMES
<1>6. request'[r].at = "idle"
  BY <1>3, EndsRests
<1>7. QED
  BY <1>5, <1>6 DEF GoesWell, Whole!Next

\* The explanation is of a current observation.
LEMMA ExplainGoesWell ==
  ASSUME Types, NEW r \in Requests, request[r].op = "explain", Telling(request[r]),
         Continue(r)
  PROVE  GoesWell(r)
<1> DEFINE q == request[r]
<1>1. FindPrimary(r) \/ LoadCached(r) \/ OutsideFails(r) \/ SaveExplanation(r)
  <2>1. q.at \in {"find_primary", "load_cached", "save_explanation"}
    BY DEF Telling
  <2>2. QED
    BY <2>1 DEF Continue, At, DeleteSubject,
      InsertSubject, DeleteDeclaration, InsertDeclaration, Removes, Adds,
      DeleteCase, InsertCase, WorksheetLoads, LoadFindings, EffectiveActions, LoadTies,
      EffectiveTieActions, CheckAdjudication, CheckOutcome, ReconcileLoads, LoadSubject,
      LoadDeclaration, OldFindings, DeleteFindings, InsertFinding, DropFindingExplanations,
      OldTies, DeleteTies, InsertTie, DropTieExplanations, WriteManifest, KnownIds, KnownTies,
      NextTie,
      InsertAction, InsertTieAction, InsertCertification, NextSeq, InsertAdjudication,
      InsertOutcome
<1>2. PICK id \in Ids : q.ids = {id}
  BY DEF Telling
<1>3. state # NoCase /\ Same
  BY DEF Telling
<1>4. CASE FindPrimary(r) \/ LoadCached(r)
  <2>1. UNCHANGED vars
    BY <1>4 DEF FindPrimary, LoadCached, Reads
  <2>2. CASE Ends(r)
    BY <1>3, <2>1, <2>2, EndsInVain
  <2>3. CASE ~Ends(r)
    <3>1. /\ q.ids \subseteq findings \union ties
          /\ GoesTo(r, "load_cached") \/ GoesTo(r, "save_explanation")
      BY <1>4, <2>3 DEF FindPrimary, LoadCached, At, Telling
    <3>2. Stands(r, "load_cached", q.ids) \/ Stands(r, "save_explanation", q.ids)
      BY <3>1, GoesToStands
    <3>3. ASSUME before' = before PROVE Telling(request[r])'
      <4>1. Same' /\ state' = state /\ findings' = findings /\ ties' = ties
        BY <1>3, <2>1, <3>3, SameStays DEF Same, vars, observations
      <4>2. QED
        BY <1>2, <1>3, <3>1, <3>2, <4>1 DEF Telling, Stands
    <3>4. QED
      BY <3>2, <3>3 DEF GoesWell, Midway, Stands
  <2>4. QED
    BY <2>2, <2>3
<1>5. CASE SaveExplanation(r)
  <2>1. /\ explanations' = explanations \union {id} /\ Ends(r)
        /\ UNCHANGED <<state, case_kind, findings, ties, reconciled, actionTables,
                       records, closures>>
    BY <1>2, <1>5 DEF SaveExplanation
  <2>2. id \in findings \union ties
    BY <1>2, <1>5 DEF SaveExplanation, At, Telling
  <2>3. ASSUME Same' PROVE Whole!Explain(id)
    BY <1>3, <2>1, <2>2, <2>3 DEF Same, SameState, SameRecords, SameRows, SameActions,
      actionTables, records, Whole!Explain, Whole!actionTables, Whole!records, NoCase,
      Whole!NoCase
  <2>4. request'[r].at = "idle"
    BY <2>1, EndsRests
  <2>5. QED
    BY <2>3, <2>4 DEF GoesWell, Whole!Next, Ids
<1>6. CASE OutsideFails(r)
  BY <1>3, <1>6, EndsInVain DEF OutsideFails, Reads
<1>7. QED
  BY <1>1, <1>4, <1>5, <1>6

-----------------------------------------------------------------------------
\* A request that begins is in progress.
LEMMA BeginStarts ==
  ASSUME Types, NEW r \in Requests, Begin(r)
  PROVE  request'[r].at # "idle"
<1>1. ASSUME NEW op, NEW label, NEW target, NEW ids, Starts(r, op, label, target, ids),
             label # "idle"
      PROVE  request'[r].at # "idle"
  BY <1>1 DEF Starts, Types, Idle
<1>2. \A s, t \in States : FirstCheck(s, t) # "idle"
  BY DEF FirstCheck
<1>3. ASSUME NEW op, NEW label, NEW rows, NEW tied, StartsWith(r, op, label, rows, tied),
             label # "idle"
      PROVE  request'[r].at # "idle"
  BY <1>3 DEF StartsWith, Types, Idle
<1>4. QED
  BY <1>1, <1>2, <1>3 DEF Begin, CreateLooks, TransitionLoads, ReconcileLooks, ActionLoads,
    TieActionLoads, CertificationLoads, AdjudicationLoads, OutcomeLoads, ExplainLoads

\* The first statement of a request is a read.
LEMMA BeginGoesWell ==
  ASSUME Types, RestOK, NEW r \in Requests, Same, Begin(r)
  PROVE  GoesWell(r)
<1>1. UNCHANGED vars
  BY DEF Begin, CreateLooks, TransitionLoads, ReconcileLooks, ActionLoads, TieActionLoads,
    CertificationLoads,
         AdjudicationLoads, OutcomeLoads, ExplainLoads, Reads
<1>2. ASSUME NEW op, NEW label, NEW target, NEW ids, Starts(r, op, label, target, ids)
      PROVE  /\ request'[r].op = op /\ request'[r].at = label
             /\ request'[r].target = target /\ request'[r].ids = ids
  BY <1>2 DEF Starts, Types, Idle
<1>3. ASSUME NEW op, NEW label, NEW rows, NEW tied, StartsWith(r, op, label, rows, tied)
       PROVE  /\ request'[r].op = op /\ request'[r].at = label
              /\ request'[r].rows = rows /\ request'[r].tied = tied
  BY <1>3 DEF StartsWith, Types, Idle
<1>4. SUFFICES ASSUME before' = before PROVE Midway(request[r])'
  BY BeginStarts DEF GoesWell
<1>5. /\ Same' /\ SameState' /\ SameRecords' /\ SameRows' /\ SameActions'
      /\ state' = state /\ before.state = state
      /\ intake' = intake /\ closures' = closures /\ adjudications' = adjudications
      /\ findings' = findings /\ ties' = ties
  <2>1. intake' = intake
    BY DEF Begin, CreateLooks, TransitionLoads, ReconcileLooks, ActionLoads, TieActionLoads,
    CertificationLoads,
           AdjudicationLoads, OutcomeLoads, ExplainLoads, Reads
  <2>2. QED
    BY <1>1, <1>4, <2>1, SameStays DEF Same, SameState, vars, records, observations
<1>6. CASE CreateLooks(r)
  <2>1. /\ request'[r].op = "create" /\ request'[r].at = "delete_subject"
        /\ request'[r].target = "declaration_assembly" /\ state = NoCase
    BY <1>2, <1>6 DEF CreateLooks
  <2>2. Creating(request[r])'
    BY <1>5, <2>1 DEF Creating, IntakeLabels
  <2>3. QED
    BY <2>1, <2>2 DEF Midway
<1>7. ASSUME NEW target \in States, TransitionLoads(r, target)
      PROVE  Midway(request[r])'
  <2>1. /\ state \in States /\ target \in TRANSITIONS[state]
        /\ target = "closed" => closures < MaxClosures
        /\ Starts(r, "transition", FirstCheck(state, target), target, {})
    BY <1>7 DEF TransitionLoads
  <2>2. PICK label : label = FirstCheck(state, target)
    OBVIOUS
  <2>3. /\ request'[r].op = "transition" /\ request'[r].at = label
        /\ request'[r].target = target
    BY <1>2, <2>1, <2>2
  <2>4. /\ label \in {"worksheet", "check_adjudication", "check_outcome", "delete_case"}
        /\ label = "worksheet" => state = "worksheet"
        /\ label = "check_adjudication" => state = "adjudication"
        /\ label = "check_outcome" => state = "outcome"
        /\ label = "delete_case" =>
             /\ state \notin {"worksheet", "outcome"}
             /\ ~ (state = "adjudication" /\ target = "outcome")
    BY <2>2 DEF FirstCheck
  <2>5. label = "delete_case" => Whole!MayEnter(target)'
    BY <1>4, <1>5, <2>4 DEF Whole!MayEnter
  <2>6. Transiting(request[r])'
    BY <1>4, <1>5, <2>1, <2>3, <2>4, <2>5 DEF Transiting, Checking, WorksheetLabels, SaveLabels
  <2>7. QED
    BY <2>3, <2>4, <2>6 DEF Midway
<1>8. CASE ReconcileLooks(r)
  <2>1. /\ request'[r].op = "reconcile" /\ request'[r].at = "load_case"
        /\ state \in RECONCILE_ALLOWED_STATES
    BY <1>2, <1>8 DEF ReconcileLooks
  <2>2. Replacing(request[r])'
    BY <1>4, <1>5, <2>1 DEF Replacing, ReplaceLabels, SaveLabels, BeforeDeletes, TiesStand
  <2>3. QED
    BY <2>1, <2>2 DEF Midway
<1>9. ASSUME NEW sel \in Selections(FindingIds), ActionLoads(r, sel)
      PROVE  Midway(request[r])'
  <2>1. /\ request'[r].op = "act" /\ request'[r].at = "known_ids" /\ request'[r].rows = sel
        /\ AcceptsActions /\ sel # <<>>
    BY <1>3, <1>9 DEF ActionLoads
  <2>2. AcceptsActions' /\ worksheet_actions' = worksheet_actions
    BY <1>1, <1>5, <2>1 DEF AcceptsActions, vars, actionTables
  <2>3. sel \in Seq(FindingIds) /\ Len(sel) \in Nat /\ 0 < Len(sel)
    BY <2>1, SelectionsAreLists
  <2>4. Progress(request'[r].rows, before'.worksheet_actions, worksheet_actions', sel, 0)
    <3>1. before'.worksheet_actions = worksheet_actions' /\ request'[r].rows = sel
      BY <1>5, <2>1 DEF SameActions
    <3>2. Len(worksheet_actions) \in Nat
      BY DEF RestOK
    <3>3. QED
      BY <2>2, <2>3, <3>1, <3>2 DEF Progress, Recorded
  <2>5. ActingOn(request[r], sel, 0)'
    BY <2>1, <2>4 DEF ActingOn, Progress, Recorded, Row
  <2>6. /\ before'.worksheet_actions \in Seq(ActionRows(FindingIds))
        /\ before'.tie_actions = tie_actions'
    BY <1>5, <2>2 DEF RestOK, SameActions
  <2>7. Acting(request[r])'
    BY <1>5, <2>1, <2>2, <2>5, <2>6 DEF Acting, Selections
  <2>8. QED
    BY <2>1, <2>7 DEF Midway
<1>10. ASSUME NEW sel \in Selections(TieIds), TieActionLoads(r, sel)
       PROVE  Midway(request[r])'
  <2>1. /\ request'[r].op = "act_on_ties" /\ request'[r].at = "known_ties"
        /\ request'[r].tied = sel /\ AcceptsActions /\ sel # <<>>
    BY <1>3, <1>10 DEF TieActionLoads
  <2>2. AcceptsActions' /\ tie_actions' = tie_actions
    BY <1>1, <1>5, <2>1 DEF AcceptsActions, vars, actionTables
  <2>3. sel \in Seq(TieIds) /\ Len(sel) \in Nat /\ 0 < Len(sel)
    BY <2>1, SelectionsAreLists
  <2>4. Progress(request'[r].tied, before'.tie_actions, tie_actions', sel, 0)
    <3>1. before'.tie_actions = tie_actions' /\ request'[r].tied = sel
      BY <1>5, <2>1 DEF SameActions
    <3>2. Len(tie_actions) \in Nat
      BY DEF RestOK
    <3>3. QED
      BY <2>2, <2>3, <3>1, <3>2 DEF Progress, Recorded
  <2>5. ActingOnTie(request[r], sel, 0)'
    BY <2>1, <2>4 DEF ActingOnTie, Progress, Recorded, Row
  <2>6. /\ before'.tie_actions \in Seq(ActionRows(TieIds))
        /\ before'.worksheet_actions = worksheet_actions'
    BY <1>5, <2>2 DEF RestOK, SameActions
  <2>7. ActingOnTies(request[r])'
    BY <1>5, <2>1, <2>2, <2>5, <2>6 DEF ActingOnTies, Selections
  <2>8. QED
    BY <2>1, <2>7 DEF Midway
<1>11. ASSUME NEW f \in FindingIds, CertificationLoads(r, f)
      PROVE  Midway(request[r])'
  <2>1. /\ request'[r].op = "certify" /\ request'[r].at = "known_ids"
        /\ request'[r].rows = <<f>> /\ state # NoCase
    BY <1>3, <1>11 DEF CertificationLoads
  <2>2. Certifying(request[r])'
    BY <1>5, <2>1 DEF Certifying
  <2>3. QED
    BY <2>1, <2>2 DEF Midway
<1>12. CASE AdjudicationLoads(r)
  <2>1. /\ request'[r].op = "adjudicate" /\ request'[r].at = "next_seq"
        /\ state = "adjudication" /\ Cardinality(adjudications) < MaxRecords
    BY <1>2, <1>12 DEF AdjudicationLoads
  <2>2. Adjudicating(request[r])'
    BY <1>5, <2>1 DEF Adjudicating
  <2>3. QED
    BY <2>1, <2>2 DEF Midway
<1>13. CASE OutcomeLoads(r)
  <2>1. /\ request'[r].op = "outcome" /\ request'[r].at = "insert_outcome"
        /\ state = "outcome"
    BY <1>2, <1>13 DEF OutcomeLoads
  <2>2. Deciding(request[r])'
    BY <1>5, <2>1 DEF Deciding
  <2>3. QED
    BY <2>1, <2>2 DEF Midway
<1>14. ASSUME NEW id \in Ids, ExplainLoads(r, id)
       PROVE  Midway(request[r])'
  <2>1. /\ request'[r].op = "explain" /\ request'[r].at = "find_primary"
        /\ request'[r].ids = {id} /\ state # NoCase
    BY <1>2, <1>14 DEF ExplainLoads
  <2>2. Telling(request[r])'
    BY <1>5, <2>1 DEF Telling
  <2>3. QED
    BY <2>1, <2>2 DEF Midway
<1>15. QED
  BY <1>6, <1>7, <1>8, <1>9, <1>11, <1>12, <1>13, <1>14, <1>10 DEF Begin

\* A request at rest has no next statement.
LEMMA AtRestNothingContinues ==
  ASSUME NEW r \in Requests, At(r, "idle")
  PROVE  ~Continue(r)
BY DEF Continue, At, DeleteSubject,
      InsertSubject, DeleteDeclaration, InsertDeclaration, Removes, Adds,
      DeleteCase, InsertCase, WorksheetLoads, LoadFindings, EffectiveActions, LoadTies,
      EffectiveTieActions, CheckAdjudication, CheckOutcome, ReconcileLoads, LoadSubject,
      LoadDeclaration, OldFindings, DeleteFindings, InsertFinding, DropFindingExplanations,
      OldTies, DeleteTies, InsertTie, DropTieExplanations, WriteManifest, KnownIds, KnownTies,
      NextTie, OutsideFails,
      InsertAction, InsertTieAction, InsertCertification, NextSeq, InsertAdjudication,
      InsertOutcome,
      FindPrimary, LoadCached, SaveExplanation

\* Whatever the request is, its next statement goes well.
LEMMA ContinueGoesWell ==
  ASSUME Types, RestOK, NEW r \in Requests, Midway(request[r]), Continue(r)
  PROVE  GoesWell(r)
BY CreateGoesWell, TransitionGoesWell, ReconcileGoesWell, ActGoesWell, ActOnTiesGoesWell,
   AdjudicateGoesWell, CertifyGoesWell, OutcomeGoesWell, ExplainGoesWell DEF Midway

-----------------------------------------------------------------------------
\* A step of one request is a step of no other one.
LEMMA OthersWait ==
  ASSUME RInv, NEW r \in Requests, Begin(r) \/ Continue(r)
  PROVE  /\ request' \in [Requests -> RequestRecords]
         /\ \A s \in Requests \ {r} : request'[s] = request[s]
<1>1. Types
  BY DEF RInv
<1>2. ASSUME InsertAdjudication(r) \/ \E o \in OfferedOutcomes : InsertOutcome(r, o)
      PROVE  Advances(r)
  BY <1>1, <1>2, EndsAdvances DEF InsertAdjudication, InsertOutcome
<1>3. Advances(r)
  BY <1>2, BeginAdvances, ReadStepAdvances, SideStepAdvances, DeleteCaseAdvances,
     InsertCaseAdvances DEF Continue, ReadStep, SideStep
<1>4. QED
  BY <1>1, <1>3 DEF Advances, Types

\* Nothing is forgotten while nothing is written.
LEMMA StutterKeepsSerial ==
  ASSUME SerialInv, UNCHANGED vars, request' = request, before' = before, intake' = intake
  PROVE  SerialInv'
<1>1. /\ UNCHANGED <<state, case_kind, findings, ties, explanations, reconciled,
                     worksheet_actions, tie_actions, adjudications, certifications,
                     case_outcomes, closures, intake, before, request>>
  BY DEF vars, observations, actionTables, records
<1>2. AllIdle => Same'
  BY SameStays DEF SerialInv, Same
<1>3. ASSUME NEW q, Midway(q) PROVE Midway(q)'
  <2>1. CASE Creating(q) /\ q.op = "create"
    BY <1>1, <2>1, SameStays DEF Creating, Midway, Same
  <2>2. CASE Transiting(q) /\ q.op = "transition"
    BY <1>1, <2>2, SameStays DEF Transiting, Midway, Disposed, Whole!MayEnter, Whole!can_close,
      Whole!Unactioned, Whole!Disposed, Whole!next_adjudication_seq
  <2>3. CASE Replacing(q) /\ q.op = "reconcile"
    BY <1>1, <2>3, SameStays DEF Replacing, Midway, Whole!Removed
  <2>4. CASE Acting(q) /\ q.op = "act"
    BY <1>1, <2>4, SameStays DEF Acting, ActingOn, Midway, AcceptsActions, Progress, Recorded,
      Row, Selections
  <2>5. CASE Adjudicating(q) /\ q.op = "adjudicate"
    BY <1>1, <2>5, SameStays DEF Adjudicating, Midway, Same, next_adjudication_seq
  <2>6. CASE Certifying(q) /\ q.op = "certify"
    BY <1>1, <2>6, SameStays DEF Certifying, Midway, Same
  <2>7. CASE Deciding(q) /\ q.op = "outcome"
    BY <1>1, <2>7, SameStays DEF Deciding, Midway, Same
  <2>8. CASE Telling(q) /\ q.op = "explain"
    BY <1>1, <2>8, SameStays DEF Telling, Midway, Same
  <2>9. CASE ActingOnTies(q) /\ q.op = "act_on_ties"
    BY <1>1, <2>9, SameStays DEF ActingOnTies, ActingOnTie, Midway, AcceptsActions, Progress,
      Recorded, Row, Selections
  <2>10. QED
    BY <1>3, <2>1, <2>2, <2>3, <2>4, <2>5, <2>6, <2>7, <2>8, <2>9 DEF Midway
<1>4. QED
  BY <1>1, <1>2, <1>3 DEF SerialInv, AllIdle, At

(***************************************************************************)
(* What holds between two statements while requests do not overlap.        *)
(***************************************************************************)
LEMMA SerialStep ==
  ASSUME RInv, RestOK, RInv', SerialInv, OneAtATime, OneAtATime',
         [SerialNext]_<<requestVars, before>>
  PROVE  SerialInv' /\ [Whole!Next]_(Whole!vars)
<1>1. Types
  BY DEF RInv
<1>2. CASE UNCHANGED <<requestVars, before>>
  <2>1. UNCHANGED vars /\ request' = request /\ before' = before /\ intake' = intake
    BY <1>2 DEF requestVars
  <2>2. UNCHANGED Whole!vars
    BY <2>1 DEF Whole!vars, Whole!observations, Whole!actionTables, Whole!records
  <2>3. SerialInv'
    BY <2>1, StutterKeepsSerial
  <2>4. QED
    BY <2>2, <2>3
<1>3. ~ Crash
  <2>1. ~ (crashes' = 0 /\ crashes = 0 /\ crashes' = crashes + 1)
    OBVIOUS
  <2>2. QED
    BY <2>1 DEF Crash, OneAtATime
<1>4. ASSUME NEW r \in Requests, Begin(r) \/ Continue(r),
             before' = IF AllIdle' THEN Tables' ELSE before
      PROVE  SerialInv' /\ [Whole!Next]_(Whole!vars)
  <2>1. /\ \A s \in Requests \ {r} : request'[s] = request[s]
        /\ request' \in [Requests -> RequestRecords]
    BY <1>1, <1>4, OthersWait
  <2>2. \A s \in Requests \ {r} : At(s, "idle")
    <3>1. CASE At(r, "idle")
      <4>1. Begin(r)
        BY <1>4, <3>1, AtRestNothingContinues
      <4>2. AllIdle \/ \E s \in Requests \ {r} : ~At(s, "idle")
        BY <3>1 DEF AllIdle
      <4>3. CASE AllIdle
        BY <4>3 DEF AllIdle
      <4>4. CASE \E s \in Requests \ {r} : ~At(s, "idle")
        <5>1. request'[r].at # "idle"
          BY <1>1, <4>1, BeginStarts
        <5>2. QED
          BY <2>1, <4>4, <5>1 DEF OneAtATime, At
      <4>5. QED
        BY <4>2, <4>3, <4>4
    <3>2. CASE ~At(r, "idle")
      BY <3>2 DEF OneAtATime
    <3>3. QED
      BY <3>1, <3>2
  <2>3. AllIdle' <=> request'[r].at = "idle"
    BY <2>1, <2>2 DEF AllIdle, At
  <2>4. GoesWell(r)
    <3>1. CASE At(r, "idle")
      <4>1. Begin(r) /\ AllIdle
        BY <1>4, <2>2, <3>1, AtRestNothingContinues DEF AllIdle
      <4>2. QED
        BY <1>1, <4>1, BeginGoesWell DEF SerialInv
    <3>2. CASE ~At(r, "idle")
      <4>1. Continue(r)
        BY <1>4, <3>2 DEF Begin, CreateLooks, TransitionLoads, ReconcileLooks, ActionLoads,
        TieActionLoads,
          CertificationLoads, AdjudicationLoads, OutcomeLoads, ExplainLoads
      <4>2. QED
        BY <1>1, <3>2, <4>1, ContinueGoesWell DEF SerialInv
    <3>3. QED
      BY <3>1, <3>2
  <2>5. CASE request'[r].at = "idle"
    <3>1. Same'
      BY <1>4, <2>3, <2>5 DEF Tables, Same, SameState, SameRecords, SameRows, SameActions
    <3>2. QED
      BY <2>3, <2>4, <2>5, <3>1 DEF GoesWell, SerialInv, AllIdle, At
  <2>6. CASE request'[r].at # "idle"
    <3>1. before' = before
      BY <1>4, <2>3, <2>6
    <3>2. Midway(request[r])'
      BY <2>4, <2>6, <3>1 DEF GoesWell
    <3>3. SerialInv'
      BY <2>1, <2>2, <2>3, <2>6, <3>2 DEF SerialInv, At
    <3>4. UNCHANGED Whole!vars
      BY <3>1 DEF Whole!vars, Whole!observations, Whole!actionTables, Whole!records
    <3>5. QED
      BY <3>3, <3>4
  <2>7. QED
    BY <2>5, <2>6
<1>5. QED
  BY <1>2, <1>3, <1>4 DEF SerialNext, RequestsNext

\* At the start nobody is in progress, and the tables are those of Init.
LEMMA SerialStart ==
  ASSUME SerialInit
  PROVE  SerialInv /\ Whole!Init
<1>1. before = Tables
  BY DEF SerialInit
<1>2. Same
  BY <1>1 DEF Tables, Same, SameState, SameRecords, SameRows, SameActions
<1>3. \A r \in Requests : At(r, "idle")
  BY DEF SerialInit, RequestsInit, Idle, At
<1>4. Whole!Init
  BY <1>2 DEF SerialInit, RequestsInit, Init, Whole!Init, NoCase, Whole!NoCase, Same,
    SameState,
              SameRecords, SameRows, SameActions
<1>5. QED
  BY <1>2, <1>3, <1>4 DEF SerialInv

(***************************************************************************)
(* Requests that do not overlap, and that no crash cuts short, are atomic: *)
(* what the statements of a route in case_routes.py leave in the tables is *)
(* one step of CaseLifecycle, or nothing. This is what the modules that    *)
(* take a request as one step rest on, however many the requests are.      *)
(***************************************************************************)
THEOREM SerialRequestsAreAtomic == SerialSpec /\ []OneAtATime => RequestsAreAtomic
<1>1. SerialInit => SerialInv /\ Whole!Init
  BY SerialStart
<1>2. SerialSpec => RequestsSpec
  <2>1. SerialInit => RequestsInit
    BY DEF SerialInit
  <2>2. [SerialNext]_<<requestVars, before>> => [RequestsNext]_requestVars
    BY DEF SerialNext
  <2>3. QED
    BY <2>1, <2>2, PTL DEF SerialSpec, RequestsSpec
<1>3. RequestsSpec => [](RInv /\ RestOK)
  <2>1. RInv /\ RestOK /\ [RequestsNext]_requestVars => RestOK'
    BY StatementsKeepTables
  <2>2. QED
    BY <2>1, RestStarts, RInvHolds, PTL DEF RequestsSpec
<1>4. /\ RInv /\ RestOK /\ RInv' /\ SerialInv /\ OneAtATime /\ OneAtATime'
      /\ [SerialNext]_<<requestVars, before>>
      => SerialInv' /\ [Whole!Next]_(Whole!vars)
  BY SerialStep
<1>5. QED
  BY <1>1, <1>2, <1>3, <1>4, PTL DEF SerialSpec, RequestsAreAtomic, Whole!Spec

\* Only a crash counts as one.
LEMMA OnlyACrashCounts ==
  ASSUME NEW r \in Requests, Begin(r) \/ Continue(r)
  PROVE  crashes' = crashes
<1>1. CASE Begin(r)
  BY <1>1 DEF Begin, CreateLooks, TransitionLoads, ReconcileLooks, ActionLoads, TieActionLoads,
    CertificationLoads, AdjudicationLoads, OutcomeLoads, ExplainLoads, Reads, history
<1>2. CASE ReadStep(r)
  BY <1>2 DEF ReadStep, WorksheetLoads, LoadFindings, EffectiveActions, LoadTies,
    EffectiveTieActions, CheckAdjudication, CheckOutcome, ReconcileLoads, LoadSubject,
    LoadDeclaration, OldFindings, OldTies, KnownIds, KnownTies, NextTie, OutsideFails,
    NextSeq, FindPrimary, LoadCached,
    Reads, history
<1>3. CASE SideStep(r)
  BY <1>3 DEF SideStep, DeleteFindings, InsertFinding, DropFindingExplanations, DeleteTies,
    InsertTie, DropTieExplanations, WriteManifest, InsertAction, InsertTieAction,
    InsertCertification,
    DeleteSubject, InsertSubject, DeleteDeclaration, InsertDeclaration, Removes, Adds,
    SaveExplanation, history
<1>4. CASE \/ DeleteCase(r) \/ InsertCase(r) \/ InsertAdjudication(r)
           \/ \E o \in OfferedOutcomes : InsertOutcome(r, o)
  BY <1>4 DEF DeleteCase, InsertCase, InsertAdjudication, InsertOutcome, history
<1>5. QED
  BY <1>1, <1>2, <1>3, <1>4 DEF Continue, ReadStep, SideStep

\* One client that waits for each answer, of a process that does not crash.
OneClient == (\A r, s \in Requests : r = s) /\ MaxCrashes = 0 /\ crashes = 0

\* One client alone is such a case, the one the run of the serial requests checks.
COROLLARY OneClientIsAtomic == SerialSpec /\ OneClient => RequestsAreAtomic
<1>1. OneClient /\ [SerialNext]_<<requestVars, before>> => OneClient'
  <2> SUFFICES ASSUME OneClient, [SerialNext]_<<requestVars, before>> PROVE OneClient'
    OBVIOUS
  <2>1. ~Crash
    BY DEF Crash, OneClient
  <2>2. crashes' = crashes
    <3>1. CASE UNCHANGED <<requestVars, before>>
      BY <3>1 DEF requestVars, history
    <3>2. CASE SerialNext
      <4>1. RequestsNext
        BY <3>2 DEF SerialNext
      <4>2. PICK r \in Requests : Begin(r) \/ Continue(r)
        BY <2>1, <4>1 DEF RequestsNext
      <4>3. QED
        BY <4>2, OnlyACrashCounts
    <3>3. QED
      BY <3>1, <3>2
  <2>3. QED
    BY <2>2 DEF OneClient
<1>2. OneClient => OneAtATime
  BY DEF OneClient, OneAtATime
<1>3. QED
  BY <1>1, <1>2, SerialRequestsAreAtomic, PTL DEF SerialSpec
=============================================================================
