---------------------------- MODULE MCJobManager ----------------------------
(***************************************************************************)
(* Small instances of JobManager.  max_workers is 4, the least value that  *)
(* leaves one worker to LOW_PAUSABLE jobs, so that three jobs meet         *)
(* the limits the code's 5 puts on larger sets.                            *)
(***************************************************************************)
EXTENDS JobManager, TLC

CONSTANTS a, b, c, w1, w2, w3

\* Two jobs that share one slot, and one that may take the second.
Reserve == a :> 0 @@ b :> 0 @@ c :> 1
=============================================================================
