--------------------------- MODULE MCActorProtocol ---------------------------
(***************************************************************************)
(* Small instances of ActorProtocol: a client that calls twice, with its   *)
(* answers still on their way, and one that calls once.                    *)
(***************************************************************************)
EXTENDS ActorProtocol

CONSTANTS c1, c2

TwoAndOne == [c \in Client |-> IF c = c1 THEN 2 ELSE 1]
=============================================================================
