---------------------------- MODULE MCEventStore ----------------------------
(* Instances of EventStore for TLC: the statuses of the jobs that are told *)
(* apart, and the two kinds of history, which share no record but those of *)
(* the log itself: games being reviewed, and a drill being trained.        *)
EXTENDS EventStore

MCStatuses == {"queued"}

MCPlans ==
    {{"import", "rated", "shallow", "analysis", "job", "variation", "snapshot", "compact"},
     {"drill", "train", "snapshot", "compact"}}
=============================================================================
