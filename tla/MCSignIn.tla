------------------------------ MODULE MCSignIn ------------------------------
(***************************************************************************)
(* SignIn for TLC: two tabs, one terminal, one person.                     *)
(***************************************************************************)
EXTENDS SignIn

CONSTANTS tab1, tab2, terminal1, ann
=============================================================================
