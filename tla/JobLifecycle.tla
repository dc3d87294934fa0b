---------------------------- MODULE JobLifecycle ----------------------------
(***************************************************************************)
(* What the job manager promises its callers, without queues, threads,     *)
(* priorities or locks: every job goes once through the states that        *)
(* AnalysisJob reports (include/pct/app/job_manager.hpp), a game has at    *)
(* most one job that may still produce its analysis or has done so, a job  *)
(* is complete only when the analysis is saved, and no more jobs run than  *)
(* there are workers.                                                      *)
(***************************************************************************)
EXTENDS Naturals, FiniteSets

CONSTANTS Games, MaxRunning

VARIABLES job,   \* job id -> [game, status]
          saved  \* the games whose analysis is in the repository

Final == {"complete", "failed", "cancelled"}
Holds(j) == job[j].status \in {"queued", "running", "complete"}
Running == {j \in DOMAIN job : job[j].status = "running"}

Init == job = <<>> /\ saved = {}

Becomes(j, status) == job' = [job EXCEPT ![j].status = status]

\* New jobs, each for another game that no job holds; a job for a saved game may be
\* complete at once.
Submit ==
    /\ DOMAIN job \subseteq DOMAIN job'
    /\ \A j \in DOMAIN job : job'[j] = job[j]
    /\ LET new == DOMAIN job' \ DOMAIN job IN
         \A j \in new :
            /\ job'[j].game \in Games
            /\ \A k \in DOMAIN job' : k # j /\ Holds(k)' => job'[k].game # job'[j].game
            /\ \/ job'[j].status = "queued"
               \/ job'[j].status = "complete" /\ job'[j].game \in saved
    /\ UNCHANGED saved

Begin(j) ==
    /\ job[j].status = "queued" /\ Cardinality(Running) < MaxRunning
    /\ Becomes(j, "running") /\ UNCHANGED saved

\* The analysis of a running job reaches the repository.
Publish(j) ==
    /\ job[j].status = "running"
    /\ saved' = saved \cup {job[j].game} /\ UNCHANGED job

\* A running job is decided, or goes back to the queue for its next phase or a retry.
Settle(j) ==
    /\ job[j].status = "running"
    /\ \/ Becomes(j, "complete") /\ job[j].game \in saved
       \/ Becomes(j, "failed")
       \/ Becomes(j, "cancelled")
       \/ Becomes(j, "queued")
    /\ UNCHANGED saved

Withdraw(j) == job[j].status = "queued" /\ Becomes(j, "cancelled") /\ UNCHANGED saved

\* The process ends: its jobs are gone, what was saved is not.
Forget == job' = <<>> /\ UNCHANGED saved

Next == \/ \E j \in DOMAIN job : Begin(j) \/ Publish(j) \/ Settle(j) \/ Withdraw(j)
        \/ Submit
        \/ Forget

Spec == Init /\ [][Next]_<<job, saved>>

=============================================================================
