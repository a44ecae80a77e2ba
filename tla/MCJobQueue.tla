----------------------------- MODULE MCJobQueue -----------------------------
(***************************************************************************)
(* Small instances of JobQueue: one client thread, two or three jobs of    *)
(* priority LOW in a queue that runs one at once; Twins makes two of them  *)
(* equal.                                                                  *)
(***************************************************************************)
EXTENDS JobQueue, TLC

CONSTANTS a, b, c, w1, w2, t1, t2

Low      == [j \in {a, b, c} |-> 1]
Low2     == [j \in {a, b} |-> 1]
Twins    == a :> 1 @@ b :> 1 @@ c :> 2
TwoKeys  == a :> 1 @@ b :> 2
=============================================================================
