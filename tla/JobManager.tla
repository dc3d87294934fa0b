----------------------------- MODULE JobManager -----------------------------
(***************************************************************************)
(* The analysis job manager (src/src/app/job_manager.cpp): a fixed set of  *)
(* worker threads serves queues of analysis tasks by priority, while       *)
(* request threads start, promote, cancel, pause and resume.  One mutex    *)
(* guards the state of JobManager: every critical section is one action,   *)
(* and what a thread does between two critical sections (a read or a write *)
(* of the repository, the analysis itself) is an action of its own.  The   *)
(* repository is durable: it survives Crash and Shutdown.  Every change of *)
(* what a worker waits for is followed by notify_all, so a wait on the     *)
(* condition variable is the guard of the action behind it.                *)
(***************************************************************************)
EXTENDS Integers, FiniteSets, SequencesExt

CONSTANTS Games,       \* identities of the imported games
          Workers,     \* the worker threads (JobManagerOptions::workers)
          Clients,     \* the request threads that call into the manager
          MaxQueued,   \* JobManagerOptions::max_queued
          RetryLimit,  \* JobManagerOptions::retry_limit
          Sources,     \* names for the cancellation sources in use
          Calls,       \* the operations the clients make: "start", "batch",
                       \*   "cancel", "pause"
          Faults,      \* what goes wrong: "crash", "shutdown", "record" (a write fails)
          MaxJobs      \* bound: job identifiers handed out per process life

ASSUME ConstantsOK ==
    /\ IsFiniteSet(Games) /\ IsFiniteSet(Workers) /\ Workers # {}
    /\ MaxQueued \in Nat \ {0}
    /\ RetryLimit \in Nat
    /\ Sources \subseteq Nat \ {0}
    /\ MaxJobs \in Nat

\* engine::AnalysisPriority; no caller of the manager uses CurrentGame (1).
Interactive == 0
Historical  == 2
Priorities  == {Interactive, Historical}

Undecided == {"queued", "running"}
Decided   == {"complete", "failed", "cancelled"}
Statuses  == Undecided \cup Decided

\* A source that only its task holds has no name yet: workers name it in Take.
Unshared == 0
Jobs  == [game : Games, status : Statuses, stop : BOOLEAN, prio : Priorities]
Tasks == [job : Nat, deep : BOOLEAN, prio : Priorities, attempts : Nat,
          src : Sources \cup {Unshared}]
NewTask(j, deep, p) ==
    [job |-> j, deep |-> deep, prio |-> p, attempts |-> 0, src |-> Unshared]
NoTask == NewTask(0, FALSE, Historical)

\* What a request thread holds while it is in a call.
NoRequest == [kind |-> "none"]
Requests == {NoRequest}
    \cup [kind : {"start"}, games : SUBSET Games, prio : Priorities, shallow : SUBSET Games,
          complete : SUBSET Games]
    \cup [kind : {"record"}, list : Seq([game : Games, status : Statuses])]
    \cup [kind : {"storePause"}, value : BOOLEAN]

VARIABLES
    mode,         \* "up", "stopping" (in the destructor) or "down"
    bootFailed,   \* the constructor threw when the process last started
    jobs,         \* jobs_ and requested_priorities_: job id -> Jobs
    nextId,       \* next_id_
    stopped,      \* the cancellation sources on which stop was requested
    queues,       \* queues_: priority -> sequence of tasks
    activeBy,     \* active_by_priority_
    active,       \* active_tasks_: job id -> [prio, src]
    paused        \* paused_

VARIABLES
    wpc,          \* worker -> where it is in work()
    task,         \* worker -> its local variable task
    outcome       \* worker -> the error caught, or the status it will record

VARIABLES
    request       \* client -> locals of the call it is in

VARIABLES
    shallow,      \* repository: games whose latest analysis is a shallow one
    analyzed,     \* repository: games with a completed analysis
    stored,       \* repository: game -> last recorded job state
    storedPaused  \* repository: background_paused

queueVars   == <<jobs, nextId, stopped, queues, activeBy, active>>
workerVars  == <<wpc, task, outcome>>
storeVars   == <<shallow, analyzed, stored, storedPaused>>
vars == <<mode, bootFailed, paused, queueVars, workerVars, request, storeVars>>

-----------------------------------------------------------------------------
\* Where a worker is while it owns the execution of its task.
ExecutingAt == {"announce", "look", "found", "analyze", "commit", "catch"}
WorkerAt == ExecutingAt \cup {"idle", "requeued", "release", "finish", "snapshot", "record"}

Executing(w) == wpc[w] \in ExecutingAt

\* Workers counted in active_by_priority_: from take_unlocked to finish_task.
Counted(w) == Executing(w) \/ wpc[w] \in {"requeued", "release", "finish"}

GameOf(w) == jobs[task[w].job].game

\* The job start returns instead of creating one (the find_if over jobs_).
IsLive_OnlyQueued(j) == jobs[j].status \in {"queued", "complete"}             \* mutant
IsLive(j) == jobs[j].status \in Undecided \cup {"complete"}
LiveJobs(g) == {j \in DOMAIN jobs : jobs[j].game = g /\ IsLive(j)}

QueuedCount == Len(queues[Interactive]) + Len(queues[Historical])

HistoricalLimit == IF Cardinality(Workers) = 1 THEN 1 ELSE Cardinality(Workers) - 1

\* take_unlocked and runnable_unlocked: the queue a worker may serve, best first.
Servable(p) == /\ queues[p] # <<>>
               /\ p = Historical => activeBy[Historical] < HistoricalLimit
BestQueue == IF Servable(Interactive) THEN Interactive ELSE Historical

Enqueue(t) == queues' = [queues EXCEPT ![t.prio] = Append(@, t)]

\* The sources somebody can still reach; the others are destroyed.
QueuedTasks == UNION {ToSet(queues[p]) : p \in Priorities}
HeldSources == {active[j].src : j \in DOMAIN active}
                 \cup {task[w].src : w \in {v \in Workers : Counted(v)}}
                 \cup {t.src : t \in QueuedTasks}

\* A name for the source of a task that a worker takes: the least one not in use.
FreshSources == LET free == Sources \ HeldSources
                IN  {s \in free : \A r \in free : s <= r}

Init ==
    /\ mode = "up" /\ bootFailed = FALSE
    /\ jobs = <<>> /\ nextId = 1 /\ stopped = {}
    /\ queues = [p \in Priorities |-> <<>>]
    /\ activeBy = [p \in Priorities |-> 0]
    /\ active = <<>> /\ paused = FALSE
    /\ wpc = [w \in Workers |-> "idle"]
    /\ task = [w \in Workers |-> NoTask]
    /\ outcome = [w \in Workers |-> "none"]
    /\ request = [c \in Clients |-> NoRequest]
    /\ shallow = {} /\ analyzed = {}
    /\ stored = [g \in Games |-> "none"]
    /\ storedPaused = FALSE

-----------------------------------------------------------------------------
(* The worker threads: work().                                              *)

Goto(w, pc) == wpc' = [wpc EXCEPT ![w] = pc]

CanTake(w) == /\ wpc[w] = "idle" /\ mode = "up" /\ ~paused
              /\ Servable(BestQueue)

Wanted(t) == t.job \in DOMAIN jobs /\ jobs[t.job].status # "cancelled"

\* The front of the best queue belongs to a job that still wants it.
Take(w) ==
    /\ CanTake(w)
    /\ LET p == BestQueue
           t == Head(queues[p])
       IN  /\ Wanted(t)
           /\ \E s \in IF t.src = Unshared THEN FreshSources ELSE {t.src} :
                /\ task' = [task EXCEPT ![w] = [t EXCEPT !.src = s]]
                /\ active' = [j \in DOMAIN active \cup {t.job} |->
                                 IF j = t.job THEN [prio |-> p, src |-> s] ELSE active[j]]
           /\ queues' = [queues EXCEPT ![p] = Tail(@)]
           /\ activeBy' = [activeBy EXCEPT ![p] = @ + 1]
           /\ jobs' = [jobs EXCEPT ![t.job].status = "running"]
    /\ Goto(w, "announce")
    /\ UNCHANGED <<mode, bootFailed, paused, nextId, stopped, outcome, request, storeVars>>

\* The front of the best queue belongs to a cancelled job: it is dropped.
Discard(w) ==
    /\ CanTake(w)
    /\ LET p == BestQueue
           t == Head(queues[p])
       IN  /\ ~Wanted(t)
           /\ queues' = [queues EXCEPT ![p] = Tail(@)]
    /\ UNCHANGED <<mode, bootFailed, paused, jobs, nextId, activeBy, active, workerVars,
                   request, storeVars>>
    /\ stopped' = stopped \cap HeldSources'

HasAnalysis_ShallowPhase(w) == task[w].deep /\ GameOf(w) \in analyzed        \* mutant
HasAnalysis(w) == GameOf(w) \in analyzed

\* The worker records that the job runs; then it reads what the repository has of the game.
Announce(w) ==
    /\ wpc[w] = "announce"
    /\ stored' = [stored EXCEPT ![GameOf(w)] = "running"]
    /\ Goto(w, "look")
    /\ UNCHANGED <<mode, bootFailed, paused, queueVars, task, outcome, request, shallow,
                   analyzed, storedPaused>>
Look(w) ==
    /\ wpc[w] = "look"
    /\ Goto(w, IF HasAnalysis(w) THEN "found" ELSE "analyze")
    /\ UNCHANGED <<mode, bootFailed, paused, queueVars, task, outcome, request, storeVars>>

\* The game was analysed before: nothing is left to do.
Found(w) ==
    /\ wpc[w] = "found"
    /\ jobs' = [jobs EXCEPT ![task[w].job].status = "complete"]
    /\ Goto(w, "finish")
    /\ UNCHANGED <<mode, bootFailed, paused, nextId, stopped, queues, activeBy, active, task,
                   outcome, request, storeVars>>

\* The analysis ends, the last look at the task's source finds no stop, and the result is
\* saved (save_shallow_analysis or save_analysis).  One step: a stop that comes between
\* the look and the save is noticed no sooner than one that comes after the save.
Save(w) ==
    LET g == {GameOf(w)} IN
    /\ analyzed' = IF task[w].deep THEN analyzed \cup g ELSE analyzed
    /\ shallow' = IF task[w].deep THEN shallow \ g ELSE shallow \cup g
Analyze(w) ==
    /\ wpc[w] = "analyze" /\ task[w].src \notin stopped
    /\ Save(w)
    /\ Goto(w, "commit")
    /\ UNCHANGED <<mode, bootFailed, paused, queueVars, task, outcome, request, stored,
                   storedPaused>>

Throws(w, error) == /\ outcome' = [outcome EXCEPT ![w] = error]
                    /\ Goto(w, "catch")

\* The analysis or the save fails, or the stop is observed: an engine error or a timeout
\* ("retryable", the one a stop gives), another Error ("fatal") or a std::exception
\* ("unexpected").
AnalyzeThrows(w) ==
    /\ wpc[w] = "analyze"
    /\ \E error \in {"retryable", "fatal", "unexpected"} : Throws(w, error)
    /\ UNCHANGED <<mode, bootFailed, paused, queueVars, task, request, storeVars>>

\* The save throws after the result is in the repository: a later write of it fails, or
\* the snapshot after every tenth analysis is refused.
SaveThrows(w) ==
    /\ "record" \in Faults
    /\ wpc[w] = "analyze" /\ task[w].src \notin stopped
    /\ Save(w)
    /\ Throws(w, "fatal")
    /\ UNCHANGED <<mode, bootFailed, paused, queueVars, task, request, stored, storedPaused>>

CommitDeep(w) ==
    /\ wpc[w] = "commit" /\ task[w].deep
    /\ jobs' = [jobs EXCEPT ![task[w].job].status = "complete"]
    /\ Goto(w, "finish")
    /\ UNCHANGED <<mode, bootFailed, paused, nextId, stopped, queues, activeBy, active, task,
                   outcome, request, storeVars>>

\* The shallow analysis is saved: the deep one is queued, with a new source.
CommitShallow(w) ==
    /\ wpc[w] = "commit" /\ ~task[w].deep
    /\ jobs' = [jobs EXCEPT ![task[w].job].status = "queued"]
    /\ Enqueue(NewTask(task[w].job, TRUE, task[w].prio))
    /\ Goto(w, "requeued")
    /\ UNCHANGED <<mode, bootFailed, paused, nextId, stopped, activeBy, active, task, outcome,
                   request, storeVars>>

RecordRequeued(w) ==
    /\ wpc[w] = "requeued"
    /\ stored' = [stored EXCEPT ![GameOf(w)] = "queued"]
    /\ Goto(w, "release")
    /\ UNCHANGED <<mode, bootFailed, paused, queueVars, task, outcome, request, shallow,
                   analyzed, storedPaused>>

\* The same write fails inside the try block, with the deep task already queued.
RecordRequeuedThrows(w) ==
    /\ "record" \in Faults
    /\ wpc[w] = "requeued"
    /\ Throws(w, "fatal")
    /\ UNCHANGED <<mode, bootFailed, paused, queueVars, task, request, storeVars>>

\* The two catch blocks.  The task that is queued again is a copy: task[w].prio
\* stays the priority finish_task is called with.
Preempted(w) == task[w].src \in stopped /\ task[w].prio = Historical
Retryable(w) == outcome[w] = "retryable" /\ task[w].attempts < RetryLimit

CatchStatus(w) ==
    LET j == jobs[task[w].job] IN
    IF outcome[w] = "unexpected" THEN "failed"
    ELSE IF j.stop THEN "cancelled"
    ELSE IF Preempted(w) \/ Retryable(w) THEN "queued" ELSE "failed"

Requeue_Never(w) == UNCHANGED queues                                        \* mutant
Requeue_SameAttempt(w) ==                                                   \* mutant
    Enqueue(IF Preempted(w)
            THEN [task[w] EXCEPT !.prio = jobs[task[w].job].prio, !.src = Unshared]
            ELSE task[w])
Requeue(w) ==
    Enqueue(IF Preempted(w)
            THEN [task[w] EXCEPT !.prio = jobs[task[w].job].prio, !.src = Unshared]
            ELSE [task[w] EXCEPT !.attempts = @ + 1])

Catch(w) ==
    /\ wpc[w] = "catch"
    /\ jobs' = [jobs EXCEPT ![task[w].job].status = CatchStatus(w)]
    /\ IF CatchStatus(w) = "queued" THEN Requeue(w) ELSE UNCHANGED queues
    /\ outcome' = [outcome EXCEPT ![w] = "none"]
    /\ Goto(w, "finish")
    /\ UNCHANGED <<mode, bootFailed, paused, nextId, stopped, activeBy, active, task, request,
                   storeVars>>

TakenWith_Requested(w) == jobs[task[w].job].prio                            \* mutant
TakenWith(w) == task[w].prio

\* finish_task: it erases the entry of the job, whoever made it.
Finish(w) ==
    /\ wpc[w] \in {"finish", "release"}
    /\ active' = [j \in DOMAIN active \ {task[w].job} |-> active[j]]
    /\ activeBy' = [activeBy EXCEPT ![TakenWith(w)] = @ - 1]
    /\ Goto(w, IF wpc[w] = "finish" THEN "snapshot" ELSE "idle")
    /\ task' = IF wpc[w] = "finish" THEN task ELSE [task EXCEPT ![w] = NoTask]
    /\ UNCHANGED <<mode, bootFailed, paused, jobs, nextId, queues, outcome, request, storeVars>>
    /\ stopped' = stopped \cap HeldSources'

\* The status is read under the lock and recorded after it is released.
Snapshot(w) ==
    /\ wpc[w] = "snapshot"
    /\ outcome' = [outcome EXCEPT ![w] = jobs[task[w].job].status]
    /\ Goto(w, "record")
    /\ UNCHANGED <<mode, bootFailed, paused, queueVars, task, request, storeVars>>

Record(w) ==
    /\ wpc[w] = "record"
    /\ stored' = [stored EXCEPT ![GameOf(w)] = outcome[w]]
    /\ outcome' = [outcome EXCEPT ![w] = "none"]
    /\ task' = [task EXCEPT ![w] = NoTask]
    /\ Goto(w, "idle")
    /\ UNCHANGED <<mode, bootFailed, paused, queueVars, request, shallow, analyzed,
                   storedPaused>>

WorkerStep(w) ==
    \/ Take(w) \/ Discard(w) \/ Announce(w) \/ Look(w) \/ Found(w) \/ Analyze(w)
    \/ AnalyzeThrows(w) \/ SaveThrows(w) \/ CommitDeep(w) \/ CommitShallow(w)
    \/ RecordRequeued(w) \/ RecordRequeuedThrows(w) \/ Catch(w) \/ Finish(w) \/ Snapshot(w) \/ Record(w)

-----------------------------------------------------------------------------
(* The request threads: start, start_batch, cancel, pause and resume.       *)

Idle(c) == mode = "up" /\ request[c].kind = "none"
Proceed(c, r) == request' = [request EXCEPT ![c] = r]

NewGames(games) == {g \in games : LiveJobs(g) = {}}
IdsLeft(games) == nextId + Cardinality(NewGames(games)) <= MaxJobs + 1   \* the bound

\* start_with_priority reads the repository before it locks the manager.
ReadGames(c, games, p) ==
    /\ Idle(c) /\ IdsLeft(games)
    /\ Proceed(c, [kind |-> "start", games |-> games, prio |-> p,
                   shallow |-> games \cap shallow, complete |-> games \cap analyzed])
    /\ UNCHANGED <<mode, bootFailed, paused, queueVars, workerVars, storeVars>>

CallStart(c) == "start" \in Calls /\ \E g \in Games : ReadGames(c, {g}, Interactive)
CallBatch(c) == "batch" \in Calls
                /\ \E games \in SUBSET Games \ {{}} : ReadGames(c, games, Historical)

Starting(c) == mode = "up" /\ request[c].kind = "start"
NewTasks(r) == Cardinality(NewGames(r.games) \ r.complete)
OverLimit(r) == QueuedCount + NewTasks(r) > MaxQueued

\* The games to analyse, by recency (any order here), those without a shallow analysis
\* first; the games of r.complete follow, whose jobs are born complete.  (Identifiers
\* follow the same order, which only names the jobs differently.)
Orders(r) == {o \in SetToSeqs(NewGames(r.games) \ r.complete) :
                 \A i, k \in DOMAIN o : i < k /\ o[i] \in r.shallow => o[k] \in r.shallow}

NewJobs(r, order) ==
    [j \in nextId .. nextId + Len(order) - 1 |->
        LET g == order[j - nextId + 1] IN
        [game |-> g, status |-> IF g \in r.complete THEN "complete" ELSE "queued",
         stop |-> FALSE, prio |-> r.prio]]
TasksFor(r, todo) ==
    [i \in DOMAIN todo |-> NewTask(nextId + i - 1, todo[i] \in r.shallow, r.prio)]
RecordsFor(r, order) ==
    [i \in DOMAIN order |->
        [game |-> order[i], status |-> IF order[i] \in r.complete THEN "complete" ELSE "queued"]]

\* preempt_historical_unlocked, on the queues the step leaves: with one worker, the
\* historical analysis it runs gives way to interactive work.
PreemptedSources ==
    IF Cardinality(Workers) = 1 /\ queues'[Interactive] # <<>>
    THEN {active[j].src : j \in {k \in DOMAIN active : active[k].prio = Historical}}
    ELSE {}
PreemptFor_Never(p) == {}                                                   \* mutant
PreemptFor(p) == IF p = Historical THEN {} ELSE PreemptedSources

UsedIds_Queued(r) == NewTasks(r)                                            \* mutant
UsedIds(r) == Cardinality(NewGames(r.games))

\* Games that already have a live job are skipped: a batch cannot promote them.
StartNew(c) ==
    /\ Starting(c)
    /\ LET r == request[c] IN
         /\ r.prio = Interactive => NewGames(r.games) # {}
         /\ ~OverLimit(r) /\ IdsLeft(r.games)
         /\ \E todo \in Orders(r), done \in SetToSeqs(NewGames(r.games) \cap r.complete) :
              LET new == NewJobs(r, todo \o done) IN
              /\ jobs' = [j \in DOMAIN jobs \cup DOMAIN new |->
                             IF j \in DOMAIN new THEN new[j] ELSE jobs[j]]
              /\ queues' = [queues EXCEPT ![r.prio] = @ \o TasksFor(r, todo)]
              /\ Proceed(c, [kind |-> "record", list |-> RecordsFor(r, todo \o done)])
         /\ nextId' = nextId + UsedIds(r)
         /\ stopped' = stopped \cup PreemptFor(r.prio)
    /\ UNCHANGED <<mode, bootFailed, paused, activeBy, active, workerVars, storeVars>>

\* promote_unlocked: the queued task of job j moves to the interactive queue, the
\* historical analysis of job j is stopped so that it starts again there.
MoveTask(j) ==
    IF \E i \in DOMAIN queues[Historical] : queues[Historical][i].job = j
    THEN \E i \in DOMAIN queues[Historical] :
           LET t == queues[Historical][i] IN
           /\ t.job = j
           /\ queues' = [queues EXCEPT
                  ![Historical]  = RemoveAt(@, i),
                  ![Interactive] = Append(@, [t EXCEPT !.prio = Interactive])]
    ELSE UNCHANGED queues
PromotedSources(j) ==
    IF jobs[j].prio = Historical /\ j \in DOMAIN active /\ active[j].prio = Historical
    THEN {active[j].src} ELSE {}
Promote(j) == /\ jobs' = [jobs EXCEPT ![j].prio = Interactive]
              /\ IF jobs[j].prio = Historical THEN MoveTask(j) ELSE UNCHANGED queues

\* start finds a live job: it is promoted, and the caller gets it as it is.
Existing(c, j) ==
    /\ Starting(c) /\ request[c].prio = Interactive
    /\ \E g \in request[c].games : j \in LiveJobs(g) /\ \A k \in LiveJobs(g) : j <= k
StartExisting(c) ==
    /\ \E j \in DOMAIN jobs :
         /\ Existing(c, j) /\ ~OverLimit(request[c])
         /\ Promote(j)
         /\ stopped' = stopped \cup PromotedSources(j) \cup PreemptedSources
    /\ Proceed(c, NoRequest)
    /\ UNCHANGED <<mode, bootFailed, paused, nextId, activeBy, active, workerVars, storeVars>>

\* Backpressure.  New jobs are taken back, their identifiers are not.
RejectNew(c) ==
    /\ Starting(c) /\ OverLimit(request[c]) /\ IdsLeft(request[c].games)
    /\ request[c].prio = Interactive => NewGames(request[c].games) # {}
    /\ nextId' = nextId + UsedIds(request[c])
    /\ Proceed(c, NoRequest)
    /\ UNCHANGED <<mode, bootFailed, paused, jobs, stopped, queues, activeBy, active,
                   workerVars, storeVars>>

\* Workers put tasks back without a limit, so a start that needs no task can be
\* refused too: the promotion stays, historical work is not preempted.
RejectExisting(c) ==
    /\ \E j \in DOMAIN jobs :
         /\ Existing(c, j) /\ OverLimit(request[c])
         /\ Promote(j)
         /\ stopped' = stopped \cup PromotedSources(j)
    /\ Proceed(c, NoRequest)
    /\ UNCHANGED <<mode, bootFailed, paused, nextId, activeBy, active, workerVars, storeVars>>

\* record_job_state, outside the lock: one created or cancelled job at a time.
Recorded(c) == mode = "up" /\ request[c].kind = "record"
RecordNext(c) ==
    /\ Recorded(c) /\ request[c].list # <<>>
    /\ LET r == Head(request[c].list) IN stored' = [stored EXCEPT ![r.game] = r.status]
    /\ Proceed(c, [kind |-> "record", list |-> Tail(request[c].list)])
    /\ UNCHANGED <<mode, bootFailed, paused, queueVars, workerVars, shallow, analyzed,
                   storedPaused>>

\* The call returns, or a write fails and the remaining ones are given up.
Return(c) ==
    /\ Recorded(c)
    /\ request[c].list = <<>> \/ "record" \in Faults
    /\ Proceed(c, NoRequest)
    /\ UNCHANGED <<mode, bootFailed, paused, queueVars, workerVars, storeVars>>

CancelStatus_Now(j) == "cancelled"                                          \* mutant
CancelStatus(j) == IF jobs[j].status = "queued" THEN "cancelled" ELSE "running"

Cancel(c) ==
    /\ "cancel" \in Calls /\ Idle(c)
    /\ \E j \in DOMAIN jobs :
         /\ jobs[j].status \in Undecided
         /\ jobs' = [jobs EXCEPT ![j].stop = TRUE, ![j].status = CancelStatus(j)]
         /\ stopped' = stopped \cup {active[k].src : k \in {j} \cap DOMAIN active}
         /\ Proceed(c, [kind |-> "record",
                        list |-> <<[game |-> jobs[j].game, status |-> CancelStatus(j)]>>])
    /\ UNCHANGED <<mode, bootFailed, paused, nextId, queues, activeBy, active, workerVars,
                   storeVars>>

\* pause and resume: the flag in memory first, the repository's after the unlock.
SetPaused(c) ==
    /\ "pause" \in Calls /\ Idle(c)
    /\ \E value \in BOOLEAN :
         paused' = value /\ Proceed(c, [kind |-> "storePause", value |-> value])
    /\ UNCHANGED <<mode, bootFailed, queueVars, workerVars, storeVars>>
StorePaused(c) ==
    /\ mode = "up" /\ request[c].kind = "storePause"
    /\ storedPaused' = request[c].value
    /\ Proceed(c, NoRequest)
    /\ UNCHANGED <<mode, bootFailed, paused, queueVars, workerVars, shallow, analyzed, stored>>

ClientProceeds(c) ==
    \/ StartNew(c) \/ StartExisting(c) \/ RejectNew(c) \/ RejectExisting(c)
    \/ RecordNext(c) \/ Return(c) \/ StorePaused(c)
ClientCalls(c) == CallStart(c) \/ CallBatch(c) \/ Cancel(c) \/ SetPaused(c)

-----------------------------------------------------------------------------
(* The process: crash, graceful shutdown (the destructor) and restart (the  *)
(* constructor, with recovery).                                             *)

\* The process ends: nothing but the repository is left.
Die ==
    /\ mode' = "down" /\ bootFailed' = FALSE
    /\ jobs' = <<>> /\ nextId' = 1 /\ stopped' = {} /\ active' = <<>> /\ paused' = FALSE
    /\ queues' = [p \in Priorities |-> <<>>]
    /\ activeBy' = [p \in Priorities |-> 0]
    /\ wpc' = [w \in Workers |-> "idle"]
    /\ task' = [w \in Workers |-> NoTask]
    /\ outcome' = [w \in Workers |-> "none"]
    /\ request' = [c \in Clients |-> NoRequest]
    /\ UNCHANGED storeVars

Crash == "crash" \in Faults /\ mode # "down" /\ Die

\* record_job_state throws outside the try block: the exception ends the process.
RecordKills(w) == "record" \in Faults /\ wpc[w] \in {"announce", "record"} /\ Die

\* The destructor, which no call overlaps: it stops every job that is not decided and
\* every active analysis, and joins the workers.
Shutdown ==
    /\ "shutdown" \in Faults /\ mode = "up"
    /\ \A c \in Clients : request[c].kind = "none"
    /\ mode' = "stopping"
    /\ jobs' = [j \in DOMAIN jobs |->
                   [jobs[j] EXCEPT !.stop = @ \/ jobs[j].status \in Undecided]]
    /\ stopped' = stopped \cup {active[j].src : j \in DOMAIN active}
    /\ UNCHANGED <<bootFailed, paused, nextId, queues, activeBy, active, workerVars, request,
                   storeVars>>

\* An idle worker returns: its wait ends on a stop, whatever the queues hold.
Returns_Runnable(w) == wpc[w] = "idle" /\ ~paused /\ Servable(BestQueue)     \* mutant
Returns(w) == wpc[w] = "idle"
Joined == mode = "stopping" /\ (\A w \in Workers : Returns(w)) /\ Die

Recoverable == {g \in Games : stored[g] \in Undecided /\ g \notin analyzed}

\* The constructor: every recoverable game is started again as historical work, one call
\* of start after the other.  One step: no thread of the manager runs yet, and a process
\* that ends here leaves what BootFails leaves.
Boot ==
    /\ mode = "down" /\ Cardinality(Recoverable) <= MaxQueued
    /\ mode' = "up" /\ bootFailed' = FALSE /\ paused' = storedPaused
    /\ \E order \in SetToSeqs(Recoverable) :
         /\ jobs' = [j \in 1 .. Len(order) |->
                        [game |-> order[j], status |-> "queued", stop |-> FALSE,
                         prio |-> Historical]]
         /\ queues' = [queues EXCEPT ![Historical] =
                        [j \in 1 .. Len(order) |->
                            NewTask(j, order[j] \in shallow, Historical)]]
    /\ nextId' = Cardinality(Recoverable) + 1
    /\ stored' = [g \in Games |-> IF g \in Recoverable THEN "queued" ELSE stored[g]]
    /\ UNCHANGED <<stopped, activeBy, active, workerVars, request, shallow, analyzed,
                   storedPaused>>

\* It throws when the queue limit refuses a game, or when the record of a start fails, or
\* the process ends: the games it started before are recorded as queued.
BootFails ==
    /\ mode = "down" /\ bootFailed' = TRUE
    /\ \E started \in SUBSET Recoverable :
         /\ started # Recoverable /\ Cardinality(started) <= MaxQueued
         /\ Cardinality(started) = MaxQueued \/ Faults \cap {"crash", "record"} # {}
         /\ stored' = [g \in Games |-> IF g \in started THEN "queued" ELSE stored[g]]
    /\ UNCHANGED <<mode, paused, queueVars, workerVars, request, shallow, analyzed,
                   storedPaused>>

Process == Crash \/ (\E w \in Workers : RecordKills(w)) \/ Shutdown \/ Joined \/ Boot \/ BootFails

Next ==
    \/ \E w \in Workers : WorkerStep(w)
    \/ \E c \in Clients : ClientCalls(c) \/ ClientProceeds(c)
    \/ Process

Spec == Init /\ [][Next]_vars

\* A worker thread runs while the process does, and a request thread finishes the
\* call it is in; nobody has to make a call, and no fault has to happen.
Fairness == /\ \A w \in Workers : WF_vars(WorkerStep(w))
            /\ \A c \in Clients : WF_vars(ClientProceeds(c))
            /\ WF_vars(Joined)

-----------------------------------------------------------------------------
(* Properties.                                                              *)

\* Every variable has the type its declaration in job_manager.hpp gives it.
JobsTypeOK   == /\ nextId \in Nat \ {0} /\ DOMAIN jobs \subseteq 1 .. nextId - 1
                /\ \A j \in DOMAIN jobs : jobs[j] \in Jobs
QueuesTypeOK == queues \in [Priorities -> Seq(Tasks)] /\ activeBy \in [Priorities -> Int]
SourceTypeOK == /\ \A j \in DOMAIN active : active[j] \in [prio : Priorities, src : Sources]
                /\ stopped \subseteq Sources
WorkerTypeOK == /\ wpc \in [Workers -> WorkerAt] /\ task \in [Workers -> Tasks]
                /\ outcome \in [Workers ->
                      Statuses \cup {"none", "retryable", "fatal", "unexpected"}]
StoreTypeOK  == /\ shallow \subseteq Games /\ analyzed \subseteq Games
                /\ stored \in [Games -> Statuses \cup {"none"}] /\ storedPaused \in BOOLEAN
TypeOK ==
    /\ mode \in {"up", "stopping", "down"} /\ bootFailed \in BOOLEAN /\ paused \in BOOLEAN
    /\ JobsTypeOK /\ QueuesTypeOK /\ SourceTypeOK /\ WorkerTypeOK /\ StoreTypeOK
    /\ request \in [Clients -> Requests]

\* However start, promotion, preemption and retries interleave, no game is analysed by
\* two workers at once.
ExclusiveAnalysis ==
    \A v, w \in Workers : v # w /\ Executing(v) /\ Executing(w) => GameOf(v) # GameOf(w)

\* No job is forgotten: a queued job has its task in a queue, a running job has the
\* worker that will decide it or queue it again.
Waiting(j) == \E p \in Priorities : \E i \in DOMAIN queues[p] : queues[p][i].job = j
NoStrandedJob ==
    \A j \in DOMAIN jobs :
        /\ jobs[j].status = "queued" => Waiting(j)
        /\ jobs[j].status = "running" => \E w \in Workers : Executing(w) /\ task[w].job = j

\* finish_task and the requeue of a preempted task (which changes its priority) keep
\* active_by_priority_ equal to the number of workers it counts.
CountersExact ==
    \A p \in Priorities :
        activeBy[p] = Cardinality({w \in Workers : Counted(w) /\ task[w].prio = p})

\* With one worker, interactive work never waits for a whole historical analysis: the
\* one that runs is already told to stop.
InteractivePreempts ==
    Cardinality(Workers) = 1 /\ queues[Interactive] # <<>> =>
        \A w \in Workers : wpc[w] = "analyze" /\ task[w].prio = Historical
                              => task[w].src \in stopped

\* Stale reads in start, restarts and recovery never make a worker analyse a game whose
\* analysis is complete.
AnalyzedOnce == \A w \in Workers : wpc[w] = "analyze" => GameOf(w) \notin analyzed

\* The manager implements the life of jobs its callers see: one live job per game, final
\* states that are final, complete jobs that are saved, no more running jobs than workers.
Lifecycle == INSTANCE JobLifecycle WITH
    job <- [j \in DOMAIN jobs |-> [game |-> jobs[j].game, status |-> jobs[j].status]],
    saved <- analyzed, MaxRunning <- Cardinality(Workers)
ImplementsLifecycle == Lifecycle!Spec

\* Every job that is queued or running is decided in the end, though it may be
\* preempted, promoted and retried on the way, unless the process is told to end or
\* clients never stop starting: nothing bounds how often interactive work may stop a
\* historical job or be taken before it (work() and preempt_historical_unlocked).
JobsAreDecided ==
    \/ []<><<\E c \in Clients : CallStart(c)>>_vars
    \/ \A j \in 1 .. MaxJobs :
           (j \in DOMAIN jobs /\ jobs[j].status \in Undecided) ~>
               (mode # "up" \/ (j \in DOMAIN jobs /\ jobs[j].status \in Decided))

\* The destructor returns: every worker sees the stop and can be joined.
ShutdownEnds == mode = "stopping" ~> mode = "down"

=============================================================================
