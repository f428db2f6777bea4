---------------------------- MODULE MCSessionTask ----------------------------
(***************************************************************************)
(* Two or three messages of one session, one of which may be a run.        *)
(***************************************************************************)
EXTENDS SessionTask

CONSTANTS m1, m2, m3, r1

MCPair   == {m1, m2, r1}
MCThree  == {m1, m2, m3}
MCRuns   == {r1}
MCNoRuns == {}
=============================================================================
