------------------------------- MODULE MCTimer -------------------------------
(***************************************************************************)
(* Small instances of Timer: its owner, its callback and a thread that     *)
(* starts it again.                                                        *)
(***************************************************************************)
EXTENDS Timer

CONSTANTS owner, other, callback
=============================================================================
