---------------------------- MODULE MCRemoteAgent ----------------------------
(***************************************************************************)
(* RemoteAgent for TLC: the configuration the agent writes when it finds   *)
(* none, and one with two databases.                                       *)
(***************************************************************************)
EXTENDS RemoteAgent

CONSTANTS handler, scheduler

MCDefaultConfigs == {"postgres-staging", "redis-staging"}
MCTwoDatabases == {"postgres-staging", "postgres-reporting"}
MCLocalProvider == [c \in Configs |-> IF c = "redis-staging" THEN "redis" ELSE "postgres"]
=============================================================================
