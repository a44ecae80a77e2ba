--------------------------- MODULE MCStreamPlayers ---------------------------
(***************************************************************************)
(* Small instances of StreamPlayers: packets, GENERAL_FLUSH messages and   *)
(* synchronize messages, alike but for their type.                         *)
(***************************************************************************)
EXTENDS StreamPlayers

CONSTANTS p1, p2, f1, f2, f3, f4, y1, y2

Flushes == {f1, f2, f3, f4}
Types == [m \in Message |-> IF m \in {p1, p2} THEN "packet"
                            ELSE IF m \in Flushes THEN "flush" ELSE "sync"]
Sizes == [m \in Message |-> IF m \in {p1, p2} THEN 1 ELSE 0]
NoTimes == [m \in Message |-> NoPts]

Alike == {p \in Permutations(Message) : \A m \in Message : Types[p[m]] = Types[m]}
=============================================================================
