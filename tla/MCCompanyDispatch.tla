------------------------- MODULE MCCompanyDispatch -------------------------
(***************************************************************************)
(* A small instance of CompanyDispatch for TLC: a manager whose delivery a *)
(* human accepts, and a worker that serves the manager's children one at a *)
(* time.                                                                   *)
(***************************************************************************)
EXTENDS DispatchBoard

CONSTANTS manager, worker

MCRoles   == {manager, worker}
MCOwner   == [i \in Items |-> IF i = Root THEN manager ELSE worker]
MCKind    == [i \in Items |-> IF i = Root THEN "delivery" ELSE "execute"]
MCInner   == [i \in Items |-> "dispatch"]   \* approved by the turn itself
MCReports == [r \in MCRoles |-> IF r = manager THEN {worker} ELSE {}]

=============================================================================
