---------------------------- MODULE MCJobManager ----------------------------
(***************************************************************************)
(* Small instances of JobManager for TLC.  MaxJobs bounds the jobs that    *)
(* exist at once where a job may be renewed: the last job, decided and     *)
(* named by no task and no call, and what is known of its game are         *)
(* forgotten, so that its id and game stand for new ones.  The supply of   *)
(* jobs then never ends, and what one may do to another has no bound.      *)
(***************************************************************************)
EXTENDS JobManager

Symmetry == Permutations(Games) \cup Permutations(Workers) \cup Permutations(Clients)

Newest == nextId - 1
Forgettable(j) ==
    /\ jobs[j].status \in Decided
    /\ \A c \in Clients : request[c] = NoRequest
    /\ j \notin {t.job : t \in QueuedTasks} \cup {task[w].job : w \in Workers}
    /\ \A k \in DOMAIN jobs \ {j} : jobs[k].game # jobs[j].game

Renew ==
    /\ mode = "up" /\ Newest \in DOMAIN jobs /\ Forgettable(Newest)
    /\ jobs' = [k \in DOMAIN jobs \ {Newest} |-> jobs[k]]
    /\ nextId' = Newest
    /\ LET g == jobs[Newest].game
       IN  /\ shallow' = shallow \ {g} /\ analyzed' = analyzed \ {g}
           /\ stored' = [stored EXCEPT ![g] = "none"]
    /\ UNCHANGED <<mode, bootFailed, paused, stopped, queues, activeBy, active, workerVars,
                   request, storedPaused>>

\* Jobs without end, under the fairness of JobManager.
LiveSpec == Init /\ [][Next \/ Renew]_vars /\ Fairness

=============================================================================
