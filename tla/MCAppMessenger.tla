---------------------------- MODULE MCAppMessenger ----------------------------
(***************************************************************************)
(* Small instances of AppMessenger: a worker of the job manager, another   *)
(* thread, and the application's own messages.                             *)
(***************************************************************************)
EXTENDS AppMessenger

CONSTANTS job, other

OneAndTwo == [c \in Caller |-> IF c = other THEN 2 ELSE 1]
OneEach   == [c \in Caller |-> 1]
=============================================================================
