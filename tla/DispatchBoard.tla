--------------------------- MODULE DispatchBoard ---------------------------
(***************************************************************************)
(* CompanyDispatch implements Board: the column of an item follows from    *)
(* its phase, and a role has an item in hand while a turn is in flight.    *)
(***************************************************************************)
EXTENDS CompanyDispatch

\* kanban_column, with approved items apart from the other finished ones.
KanbanColumn(p) ==
  CASE p = Absent              -> "absent"
    [] p \in TodoPhases        -> "todo"
    [] p \in InProgressPhases  -> "in_progress"
    [] p \in InReviewPhases    -> "in_review"
    [] p = "approved"          -> "approved"
    [] OTHER                   -> "closed"

columnOf == [i \in Items |-> KanbanColumn(db.phase[i])]
handOf   == [r \in Roles |-> IF InFlight(r) THEN sess[r].item ELSE NoItem]

B == INSTANCE Board WITH
       Cards <- Items, First <- Root, NoCard <- NoItem,
       column <- columnOf, hand <- handOf

(***************************************************************************)
(* What the board shows of a run is a behaviour of Board: no interleaving  *)
(* of the loop, late turns, dependency refreshes, reviewers and edits puts *)
(* a card where the board does not allow, or two cards into one hand.      *)
(***************************************************************************)
ImplementsBoard == B!BoardSpec

=============================================================================
