---------------------------- MODULE AtomicReport ----------------------------
(***************************************************************************)
(* What a report of free pages promises: although the page allocator is at *)
(* work on every CPU, the report is a picture of all lists at one instant, *)
(* between the request and the answer.                                     *)
(***************************************************************************)
EXTENDS FreeLists

CONSTANTS Managed, NONE

VARIABLES
  lists,   \* the blocks on each free list
  pending, \* a report has been asked for and not given
  report   \* the last report

vars == <<lists, pending, report>>

Init == pending = FALSE /\ report = NONE /\ lists \in [Lists -> Seq(Blocks)]

Allocate == lists' \in [Lists -> Seq(Blocks)] /\ UNCHANGED <<pending, report>>

Request == ~pending /\ pending' = TRUE /\ UNCHANGED <<lists, report>>

Answer ==
  /\ pending
  /\ pending' = FALSE
  /\ report' = RecordedUpTo(lists, Managed)
  /\ UNCHANGED lists

(* The driver found no memory to work with. *)
GiveUp == pending /\ pending' = FALSE /\ UNCHANGED <<lists, report>>

Next == Allocate \/ Request \/ Answer \/ GiveUp

Spec == Init /\ [][Next]_vars /\ WF_vars(Answer \/ GiveUp)
=============================================================================
