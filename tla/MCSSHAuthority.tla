--------------------------- MODULE MCSSHAuthority ---------------------------
(***************************************************************************)
(* SSHAuthority for TLC: the goroutine of the start and two requests.      *)
(***************************************************************************)
EXTENDS SSHAuthority, TLC

CONSTANTS starter, request1, request2

Symmetry == Permutations(Requests)
=============================================================================
