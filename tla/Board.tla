------------------------------- MODULE Board -------------------------------
(***************************************************************************)
(* What the kanban board of a company run promises, whatever dispatcher    *)
(* works behind it: cards move along the columns, a role has at most one   *)
(* card in hand, a card gets out of work only through the hand of its role *)
(* or an edit of its manager, and what is closed stays closed.             *)
(*                                                                         *)
(* The columns are those of kanban_column; the done column is split into   *)
(* approved cards, which a manager may reopen, and closed ones.            *)
(***************************************************************************)
CONSTANTS
  Cards,
  Roles,
  Owner,       \* the role of every card
  First,       \* the card the board starts with
  NoCard       \* the empty hand

VARIABLES
  column,      \* where every card is
  hand         \* the card every role works at

boardVars == <<column, hand>>

Columns == {"absent", "todo", "in_progress", "in_review", "approved", "closed"}
Open    == {"todo", "in_progress"}
Live    == Open \cup {"in_review"}

BoardTypeOK ==
  /\ column \in [Cards -> Columns]
  /\ hand \in [Roles -> Cards \cup {NoCard}]

BoardInit ==
  /\ column = [c \in Cards |-> IF c = First THEN "todo" ELSE "absent"]
  /\ hand = [r \in Roles |-> NoCard]

(***************************************************************************)
(* Open cards wait for children, peers and dependencies, and stop waiting, *)
(* at any time; all but the cards C stay where they are otherwise.         *)
(***************************************************************************)
OnlyShifts(c) == column'[c] = column[c] \/ (column[c] \in Open /\ column'[c] \in Open)
OthersShift(C) == \A c \in Cards \ C : OnlyShifts(c)

\* Roles with empty hands take live cards of their own.
Take ==
  /\ \A r \in Roles : hand'[r] # hand[r] =>
       /\ hand[r] = NoCard
       /\ hand'[r] \in Cards /\ Owner[hand'[r]] = r
       /\ column[hand'[r]] \in Live
  /\ OthersShift({})

\* The role r, at its card, files a card for somebody.
File(r) ==
  /\ hand[r] # NoCard
  /\ \E c \in Cards : /\ column[c] = "absent" /\ column'[c] = "todo"
                      /\ OthersShift({c})
  /\ UNCHANGED hand

(***************************************************************************)
(* The role r delivers its card, for review or not, or fails it.  A card   *)
(* leaves the columns of work for those of results only in this way.       *)
(***************************************************************************)
Deliver(r) ==
  /\ hand[r] # NoCard
  /\ \/ /\ column[hand[r]] \in {"in_progress", "in_review"}
        /\ column'[hand[r]] \in {"in_review", "approved"}
     \/ column[hand[r]] \in Live /\ column'[hand[r]] = "closed"
  /\ OthersShift({hand[r]})
  /\ UNCHANGED hand

LayDown(r) ==
  /\ hand[r] # NoCard
  /\ hand' = [hand EXCEPT ![r] = NoCard]
  /\ UNCHANGED column

\* A reviewer or the human decides on a card.
Judge(c) ==
  /\ column[c] = "in_review"
  /\ column'[c] \in {"todo", "approved", "closed"}
  /\ OthersShift({c})
  /\ UNCHANGED hand

\* A manager sends a card back to its role, approved or not.
SendBack(c) ==
  /\ column[c] \in Live \cup {"approved"}
  /\ column'[c] = "todo"
  /\ OthersShift({c})
  /\ UNCHANGED hand

\* A manager withdraws live cards.
Withdraw(C) ==
  /\ \A c \in C : column[c] \in Live /\ column'[c] = "closed"
  /\ OthersShift(C)
  /\ UNCHANGED hand

BoardNext ==
  \/ Take
  \/ \E r \in Roles : File(r) \/ Deliver(r) \/ LayDown(r)
  \/ \E c \in Cards : Judge(c) \/ SendBack(c)
  \/ \E C \in SUBSET Cards : Withdraw(C)

BoardSpec == BoardInit /\ [][BoardNext]_boardVars

=============================================================================
