--------------------------- MODULE MCExecCommand ---------------------------
(***************************************************************************)
(* ExecCommand for TLC.                                                    *)
(***************************************************************************)
EXTENDS ExecCommand

CONSTANTS exec1
=============================================================================
