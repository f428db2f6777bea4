-------------------------- MODULE MCSuspendResume --------------------------
(***************************************************************************)
(* A small instance of SuspendResume: a manager and its worker, as in      *)
(* MCCompanyDispatch.                                                      *)
(***************************************************************************)
EXTENDS SuspendResume

CONSTANTS manager, worker

MCRoles   == {manager, worker}
MCOwner   == [i \in Items |-> IF i = Root THEN manager ELSE worker]
MCKind    == [i \in Items |-> IF i = Root THEN "delivery" ELSE "execute"]
MCReports == [r \in MCRoles |-> IF r = manager THEN {worker} ELSE {}]

=============================================================================
