--------------------------- MODULE CaseRefinement ---------------------------
(***************************************************************************)
(* The tables of CaseLifecycle seen as the promise of CaseContract: the    *)
(* rows without an effective action are the open observations, and the     *)
(* three states before the worksheet are one phase.                        *)
(***************************************************************************)
EXTENDS CaseLifecycle

PhaseOf(s) ==
  CASE s = NoCase         -> "absent"
    [] s = "worksheet"    -> "review"
    [] s = "adjudication" -> "assessment"
    [] s = "outcome"      -> "decision"
    [] s = "closed"       -> "closed"
    [] OTHER              -> "preparing"

Contract == INSTANCE CaseContract
              WITH Ids      <- FindingIds \union TieIds,
                   phase    <- PhaseOf(state),
                   open     <- Unactioned,
                   assessed <- adjudications # {},
                   decided  <- case_outcomes # <<>>

(***************************************************************************)
(* The case tables implement the promise: every request of a client is one *)
(* step of the contract or changes nothing it speaks of (the operations of *)
(* case/service.py and pipeline.reconcile_case).                           *)
(***************************************************************************)
KeepsThePromise == Contract!Promise
=============================================================================
