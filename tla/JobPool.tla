------------------------------- MODULE JobPool -------------------------------
(***************************************************************************)
(* What ThreadPool (src/src/core/thread_pool.h) promises to its callers,   *)
(* without locks, wake-ups or worker loops: a submitted job is rejected or *)
(* becomes pending; a pending job is started once by one of the threads or *)
(* is discarded by a resize; a resize happens only when nothing runs.      *)
(***************************************************************************)
EXTENDS Naturals, FiniteSets

CONSTANTS
  Jobs,       \* the closures given to submit(), each a different one
  Sizes,      \* the thread counts a caller asks for
  JobScalar   \* s_jobScalar: queue slots per thread

VARIABLES
  status,     \* where each job is in its life
  threads     \* how many jobs can run at the same time

poolVars == <<status, threads>>

Statuses == {"new", "rejected", "pending", "running", "done", "dropped"}

With(st) == {j \in Jobs : status[j] = st}

Move(j, from, to) ==
  /\ status[j] = from
  /\ status' = [status EXCEPT ![j] = to]
  /\ UNCHANGED threads

Init ==
  /\ status = [j \in Jobs |-> "new"]
  /\ threads \in Sizes

Accept(j) ==
  /\ Cardinality(With("pending")) < JobScalar * threads
  /\ Move(j, "new", "pending")

Reject(j) ==
  /\ Cardinality(With("pending")) = JobScalar * threads
  /\ Move(j, "new", "rejected")

Start(j) ==
  /\ Cardinality(With("running")) < threads
  /\ Move(j, "pending", "running")

Complete(j) == Move(j, "running", "done")

Resize(n) ==
  /\ n # threads
  /\ With("running") = {}
  /\ threads' = n
  /\ status' = [j \in Jobs |-> IF status[j] = "pending" THEN "dropped" ELSE status[j]]

Next ==
  \/ \E j \in Jobs : Accept(j) \/ Reject(j) \/ Start(j) \/ Complete(j)
  \/ \E n \in Sizes : Resize(n)

Spec == Init /\ [][Next]_poolVars
==============================================================================
