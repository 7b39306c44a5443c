---------------------------- MODULE MCTransfers ----------------------------
(***************************************************************************)
(* Instances of Transfers.                                                 *)
(***************************************************************************)
EXTENDS Transfers

CONSTANTS a, b
Two == {a, b}
Sets == {{}, {a}, {a, b}}
=============================================================================
