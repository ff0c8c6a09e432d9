---------------------------- MODULE MCAgentRoute ----------------------------
(* An instance of AgentRoute: a worker and two sessions of an agent in front *)
(* of it, of which the second is a task series.                              *)
EXTENDS AgentRoute

OwnerSmall == <<"worker", "front", "front">>
WatchedSmall == {<<"worker", "front">>}
=============================================================================
