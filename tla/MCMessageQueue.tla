--------------------------- MODULE MCMessageQueue ---------------------------
(***************************************************************************)
(* Small instances of DVDMessageQueue: packets with and without times and  *)
(* a message of another type.  The unit of size is 1 MiB: an int holds     *)
(* less than 2048 of them, and the video queue's maximum is 128.           *)
(***************************************************************************)
EXTENDS DVDMessageQueue

CONSTANTS p1, p2, p3, p4, o1

Types   == [m \in Message |-> IF m = o1 THEN "other" ELSE "packet"]
Sizes   == [m \in Message |-> IF m = o1 THEN 0 ELSE 12]
Times   == [m \in Message |-> CASE m = p1 -> 1 [] m = p3 -> 2 [] m = p4 -> 3
                              [] OTHER -> NoPts]
Reading == <<p1, p2, p3, p4>>
=============================================================================
