---------------------------- MODULE MCCollabRpc ----------------------------
(* An agent with two delegations that share a keyed scope, the second of them
   with a piece of work that has no key, and one call that awaits a model. *)
EXTENDS CollabRpc

MCCalls == {"first", "second", "meeting"}
MCSlow == {"meeting"}
MCScopes == {"keyed", "loose"}
MCKeyed == {"keyed"}
MCScopesOf ==
    [c \in MCCalls |-> CASE c = "first"   -> {"keyed"}
                         [] c = "second"  -> {"keyed", "loose"}
                         [] c = "meeting" -> {}]

MCTries == [c \in MCCalls |-> IF c = "second" THEN 2 ELSE 1]
=============================================================================
