---------------------------- MODULE MCApprovals ----------------------------
(* Small instances of the approvals: two actions of one family.            *)
EXTENDS Approvals
CONSTANTS c1, c2, c3, t1
MCCalls == {c1, c2, c3}
MCActions == {"fetch", "post"}
MCTasks == {t1}
MCFamilies == {"web"}
MCFamilyOf == [a \in MCActions |-> "web"]
\* One task wants one action twice and another one, in a parallel batch.
MCActionOf == [c \in MCCalls |-> IF c = c3 THEN "post" ELSE "fetch"]
MCTaskOf == [c \in MCCalls |-> t1]
MCMaxAttempts == [c \in MCCalls |-> IF c = c3 THEN 2 ELSE 1]
============================================================================
