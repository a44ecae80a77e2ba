----------------------------- MODULE JobService -----------------------------
(***************************************************************************)
(* What CJobManager promises to the clients of xbmc/utils/JobManager.h,    *)
(* without its threads, deques and event: a job is accepted once, runs at  *)
(* most once and only within the limit of its priority, and is either run  *)
(* to its end or withdrawn before it starts.  The service reopens only     *)
(* when nothing is left of what it accepted before it was closed.          *)
(***************************************************************************)
EXTENDS Naturals, FiniteSets

CONSTANTS Job, Limit       \* Limit[j]: the slots open to j's priority

VARIABLES open, stage

vars == <<open, stage>>

Init == open = TRUE /\ stage = [j \in Job |-> "fresh"]

Running == {j \in Job : stage[j] = "running"}

Move(j, from, to) ==
  /\ stage[j] = from
  /\ stage' = [stage EXCEPT ![j] = to]
  /\ UNCHANGED open

Submit(j)   == open /\ Move(j, "fresh", "queued")
Reject(j)   == ~open /\ Move(j, "fresh", "gone")
Start(j)    == Cardinality(Running) < Limit[j] /\ Move(j, "queued", "running")
Withdraw(j) == Move(j, "queued", "gone")
Finish(j)   == Move(j, "running", "gone")

Close  == open' = FALSE /\ UNCHANGED stage
Reopen == /\ \A j \in Job : stage[j] \in {"fresh", "gone"}
          /\ open' = TRUE
          /\ UNCHANGED stage

Next ==
  \/ Close \/ Reopen
  \/ \E j \in Job : Submit(j) \/ Reject(j) \/ Start(j) \/ Withdraw(j) \/ Finish(j)

Spec == Init /\ [][Next]_vars

=============================================================================
