-------------------------- MODULE MCPostgresTarget ---------------------------
(***************************************************************************)
(* PostgresTarget for TLC: the revoke handler and the scheduler on one     *)
(* role.                                                                   *)
(***************************************************************************)
EXTENDS PostgresTarget

CONSTANTS handler, scheduler
=============================================================================
