---------------------------- MODULE CaseContract ----------------------------
(***************************************************************************)
(* What a case promises its office, whatever tables it is kept in: no      *)
(* observation is left behind when the case moves on to its decision, the  *)
(* decision rests on a record, and what a decision was made on does not    *)
(* move under it. use-case-01, Section 5, is the prose of it; CaseLifecycle*)
(* is shown to implement it.                                               *)
(***************************************************************************)
CONSTANT Ids        \* ids an observation of the case can have

VARIABLES
  phase,            \* where the case stands
  open,             \* ids of its current observations nobody has disposed of
  assessed,         \* an adjudication is on record
  decided           \* an outcome is on record

promise == <<phase, open, assessed, decided>>

Phases == {"absent", "preparing", "review", "assessment", "decision", "closed"}

PromiseInit ==
  phase = "absent" /\ open = {} /\ assessed = FALSE /\ decided = FALSE

Raise ==
  /\ phase = "absent"
  /\ phase' = "preparing"
  /\ UNCHANGED <<open, assessed, decided>>

\* Evidence is gathered before the review, and at no other time. Ids that an
\* earlier review disposed of need not come back as open ones.
Gather(found) ==
  /\ phase = "preparing"
  /\ phase' = "review"
  /\ open' = found
  /\ UNCHANGED <<assessed, decided>>

\* Gathering that does not get through leaves part of the new evidence, and
\* the case where it was: there is no review of what was gathered in part.
GatherInPart(found) ==
  /\ phase = "preparing"
  /\ open' = found
  /\ UNCHANGED <<phase, assessed, decided>>

\* A disposition is final: nothing but new evidence opens an observation.
Dispose(done) ==
  /\ phase \notin {"absent", "closed"}
  /\ open' = open \ done
  /\ UNCHANGED <<phase, assessed, decided>>

FinishReview ==
  /\ phase = "review" /\ open = {}
  /\ phase' = "assessment"
  /\ UNCHANGED <<open, assessed, decided>>

ReturnToReview ==
  /\ phase = "assessment"
  /\ phase' = "review"
  /\ UNCHANGED <<open, assessed, decided>>

Assess ==
  /\ phase = "assessment"
  /\ assessed' = TRUE
  /\ UNCHANGED <<phase, open, decided>>

Conclude ==
  /\ phase = "assessment" /\ assessed
  /\ phase' = "decision"
  /\ UNCHANGED <<open, assessed, decided>>

Decide ==
  /\ phase = "decision"
  /\ decided' = TRUE
  /\ UNCHANGED <<phase, open, assessed>>

Close ==
  /\ phase = "decision" /\ decided
  /\ phase' = "closed"
  /\ UNCHANGED <<open, assessed, decided>>

Reopen ==
  /\ phase = "closed"
  /\ phase' = "preparing"
  /\ UNCHANGED <<open, assessed, decided>>

PromiseNext ==
  \/ Raise \/ FinishReview \/ ReturnToReview \/ Assess \/ Conclude
  \/ Decide \/ Close \/ Reopen
  \/ \E ids \in SUBSET Ids : Gather(ids) \/ GatherInPart(ids) \/ Dispose(ids)

Promise == PromiseInit /\ [][PromiseNext]_promise
=============================================================================
