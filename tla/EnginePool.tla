----------------------------- MODULE EnginePool -----------------------------
(***************************************************************************)
(* The engine pool (src/src/engine/pool.cpp): worker threads, each with    *)
(* its own engine, serve three queues of analysis calls; a caller blocks   *)
(* on the future of its call.  The mutex of State makes every critical     *)
(* section one action.  Unlike in JobManager, the condition variable is    *)
(* explicit: submissions and retries wake one sleeper and not all, so who  *)
(* sleeps and who is about to notify is part of the state.                 *)
(* The engines (Stockfish behind AnalysisEngine) are outside: an analysis  *)
(* ends with a result or an exception, and so does the factory that makes  *)
(* the engine of a worker anew after an exception.  The counters that only *)
(* stats() reads are left out.                                             *)
(***************************************************************************)
EXTENDS Integers, FiniteSets, SequencesExt

CONSTANTS Callers,     \* threads that call EnginePool::analyze
          Workers,     \* EnginePoolOptions::workers
          MaxPending,  \* EnginePoolOptions::max_pending
          RetryLimit,  \* EnginePoolOptions::retry_limit
          Asked        \* the priorities the callers use

\* engine::AnalysisPriority, and the index of its queue.
Priorities  == 0 .. 2
Interactive == 0
Historical  == 2

ASSUME PoolConstants ==
    /\ IsFiniteSet(Callers)
    /\ IsFiniteSet(Workers) /\ Workers # {}
    /\ MaxPending \in Nat \ {0} /\ RetryLimit \in Nat
    /\ Asked \subseteq Priorities

VARIABLES
    mode,      \* "up", then in the destructor "stopping" and "joining", then "gone"
    queues,    \* State::queues: priority -> callers whose work is queued
    active,    \* State::active
    activeBy,  \* State::active_by_priority
    abandoned  \* the destructor's: callers whose queued work it still has to fail

VARIABLES
    calling,   \* caller -> where it is in analyze()
    work       \* caller -> its Work: priority, attempts, cancellation, promise

VARIABLES
    wpc,       \* worker -> where it is in worker() and take()
    held       \* worker -> the work it took: whose it is, and its priority

poolVars == <<mode, queues, active, activeBy, abandoned>>
allVars == <<poolVars, calling, work, wpc, held>>

NewWork(p) == [prio |-> p, attempts |-> 0, stop |-> FALSE, promise |-> "unset"]
NoWork == NewWork(Interactive)
NotHeld == [of |-> {}, prio |-> Interactive]

PoolInit ==
    /\ mode = "up" /\ queues = [p \in Priorities |-> <<>>]
    /\ active = 0 /\ activeBy = [p \in Priorities |-> 0] /\ abandoned = {}
    /\ calling = [c \in Callers |-> "idle"]
    /\ work = [c \in Callers |-> NoWork]
    /\ wpc = [w \in Workers |-> "check"]
    /\ held = [w \in Workers |-> NotHeld]

-----------------------------------------------------------------------------
(* The condition variable: which values wpc can have after a notification.  *)

Asleep(pc) == {w \in Workers : pc[w] = "asleep"}
WakeOne(pc) == IF Asleep(pc) = {} THEN {pc}
               ELSE {[pc EXCEPT ![w] = "check"] : w \in Asleep(pc)}
WakeAll_One(pc) == CHOOSE n \in WakeOne(pc) : TRUE                           \* mutant
WakeAll(pc) == [w \in Workers |-> IF pc[w] = "asleep" THEN "check" ELSE pc[w]]

-----------------------------------------------------------------------------
(* The callers: EnginePool::analyze.                                        *)

Queued == UNION {ToSet(queues[p]) : p \in Priorities}
Pending == active + Len(queues[0]) + Len(queues[1]) + Len(queues[2])

\* The call is accepted; its notification comes after the lock is released.
Submit_QuietWhenBusy(c) ==                                                  \* mutant
    /\ calling[c] = "idle" /\ mode = "up" /\ Pending < MaxPending
    /\ \E p \in Asked : /\ queues' = [queues EXCEPT ![p] = Append(@, c)]
                        /\ work' = [work EXCEPT ![c] = NewWork(p)]
    /\ calling' = [calling EXCEPT ![c] = IF Queued = {} THEN "notify" ELSE "waiting"]
    /\ UNCHANGED <<mode, active, activeBy, abandoned, wpc, held>>
Submit(c) ==
    /\ calling[c] = "idle" /\ mode = "up" /\ Pending < MaxPending
    /\ \E p \in Asked : /\ queues' = [queues EXCEPT ![p] = Append(@, c)]
                        /\ work' = [work EXCEPT ![c] = NewWork(p)]
    /\ calling' = [calling EXCEPT ![c] = "notify"]
    /\ UNCHANGED <<mode, active, activeBy, abandoned, wpc, held>>

\* A refused call (backpressure, or the pool is shutting down) throws and leaves no
\* trace but a counter of stats(): the caller is where it was, so it is no action.

Notify(c) ==
    /\ calling[c] = "notify"
    /\ wpc' \in WakeOne(wpc)
    /\ calling' = [calling EXCEPT ![c] = "waiting"]
    /\ UNCHANGED <<poolVars, work, held>>

\* The caller polls the token it passed, finds a stop, and passes it on; its work stays
\* where it is.
Poll(c) ==
    /\ calling[c] = "waiting" /\ work[c].promise = "unset" /\ ~work[c].stop
    /\ work' = [work EXCEPT ![c].stop = TRUE]
    /\ UNCHANGED <<poolVars, calling, wpc, held>>

ReturnCall(c) ==
    /\ calling[c] = "waiting" /\ work[c].promise # "unset"
    /\ calling' = [calling EXCEPT ![c] = "idle"]
    /\ work' = [work EXCEPT ![c] = NoWork]
    /\ UNCHANGED <<poolVars, wpc, held>>

-----------------------------------------------------------------------------
(* The workers: worker() and take().                                        *)

GoTo(w, pc) == wpc' = [wpc EXCEPT ![w] = pc]

HistoricalLimit == IF Cardinality(Workers) = 1 THEN 1 ELSE Cardinality(Workers) - 1
Servable(p) == /\ queues[p] # <<>>
               /\ p = Historical => activeBy[Historical] < HistoricalLimit

\* take() finds the pool stopping and the worker returns.
Exit(w) ==
    /\ wpc[w] = "check" /\ mode # "up"
    /\ GoTo(w, "exited")
    /\ UNCHANGED <<poolVars, calling, work, held>>

Sleep(w) ==
    /\ wpc[w] = "check" /\ mode = "up" /\ \A p \in Priorities : ~Servable(p)
    /\ GoTo(w, "asleep")
    /\ UNCHANGED <<poolVars, calling, work, held>>

\* condition_variable::wait may return without a notification.
WakeSpuriously(w) ==
    /\ wpc[w] = "asleep" /\ GoTo(w, "check")
    /\ UNCHANGED <<poolVars, calling, work, held>>

Take(w) ==
    /\ wpc[w] = "check" /\ mode = "up"
    /\ \E p \in Priorities :
         /\ Servable(p) /\ \A q \in Priorities : q < p => ~Servable(q)
         /\ held' = [held EXCEPT ![w] = [of |-> {Head(queues[p])}, prio |-> p]]
         /\ queues' = [queues EXCEPT ![p] = Tail(@)]
         /\ activeBy' = [activeBy EXCEPT ![p] = @ + 1]
    /\ active' = active + 1
    /\ GoTo(w, "run")
    /\ UNCHANGED <<mode, abandoned, calling, work>>

\* The engine is made and runs: it ends with a result, counted before it is delivered,
\* or with an exception.
Finishes(w) ==
    /\ wpc[w] = "run"
    /\ \E end \in {"deliver", "threw"} : GoTo(w, end)
    /\ UNCHANGED <<poolVars, calling, work, held>>

\* promise.set_value or promise.set_exception, without the lock: the caller may return,
\* and call again, before the worker gets any further.
Answer(c, with) == work' = [work EXCEPT ![c].promise = with]

Deliver(w) ==
    /\ wpc[w] = "deliver"
    /\ \E c \in held[w].of : Answer(c, "value")
    /\ held' = [held EXCEPT ![w].of = {}]
    /\ GoTo(w, "finish")
    /\ UNCHANGED <<poolVars, calling>>

Uncount(w) == /\ active' = active - 1
              /\ activeBy' = [activeBy EXCEPT ![held[w].prio] = @ - 1]

\* finish_active.
Finish(w) ==
    /\ wpc[w] = "finish"
    /\ Uncount(w)
    /\ held' = [held EXCEPT ![w] = NotHeld]
    /\ wpc' = WakeAll([wpc EXCEPT ![w] = "check"])
    /\ UNCHANGED <<mode, queues, abandoned, calling, work>>

Retries_Stopping(c) == ~work[c].stop /\ work[c].attempts < RetryLimit        \* mutant
Retries(c) == mode = "up" /\ ~work[c].stop /\ work[c].attempts < RetryLimit

\* The catch block, first its critical section: the work goes back to the front of its
\* queue, or it has failed.
Retry(w) ==
    /\ wpc[w] = "threw"
    /\ \E c \in held[w].of :
         /\ Retries(c)
         /\ work' = [work EXCEPT ![c].attempts = @ + 1]
         /\ queues' = [queues EXCEPT ![held[w].prio] = <<c>> \o @]
    /\ Uncount(w)
    /\ held' = [held EXCEPT ![w] = NotHeld]
    /\ GoTo(w, "notifyOne")
    /\ UNCHANGED <<mode, abandoned, calling>>
GiveUp(w) ==
    /\ wpc[w] = "threw"
    /\ \E c \in held[w].of : ~Retries(c)
    /\ Uncount(w)
    /\ GoTo(w, "fail")
    /\ UNCHANGED <<mode, queues, abandoned, calling, work, held>>

\* Then, without the lock, the notification, or the exception and its notification.
NotifyRetry(w) ==
    /\ wpc[w] = "notifyOne"
    /\ wpc' \in WakeOne([wpc EXCEPT ![w] = "check"])
    /\ UNCHANGED <<poolVars, calling, work, held>>
FailCall(w) ==
    /\ wpc[w] = "fail"
    /\ \E c \in held[w].of : Answer(c, "error")
    /\ held' = [held EXCEPT ![w] = NotHeld]
    /\ GoTo(w, "notifyAll")
    /\ UNCHANGED <<poolVars, calling>>
NotifyFailure(w) ==
    /\ wpc[w] = "notifyAll"
    /\ wpc' = WakeAll([wpc EXCEPT ![w] = "check"])
    /\ UNCHANGED <<poolVars, calling, work, held>>

WorkerStep(w) ==
    \/ Exit(w) \/ Sleep(w) \/ Take(w) \/ Finishes(w) \/ Deliver(w) \/ Finish(w)
    \/ Retry(w) \/ GiveUp(w) \/ NotifyRetry(w) \/ FailCall(w) \/ NotifyFailure(w)

-----------------------------------------------------------------------------
(* The destructor.  The owner may destroy the pool under calls that wait for *)
(* their future, not under one that has still to use State to notify.        *)

LeftAtShutdown_All == queues                                                \* mutant
LeftAtShutdown == [p \in Priorities |-> <<>>]
Shutdown ==
    /\ mode = "up" /\ \A c \in Callers : calling[c] # "notify"
    /\ mode' = "stopping"
    /\ abandoned' = Queued
    /\ queues' = LeftAtShutdown
    /\ UNCHANGED <<active, activeBy, calling, work, wpc, held>>

\* The queued work fails, one promise after the other.
Abandon(c) ==
    /\ c \in abandoned
    /\ abandoned' = abandoned \ {c}
    /\ work' = [work EXCEPT ![c].stop = TRUE, ![c].promise = "error"]
    /\ UNCHANGED <<mode, queues, active, activeBy, calling, wpc, held>>

NotifyStop ==
    /\ mode = "stopping" /\ abandoned = {}
    /\ mode' = "joining" /\ wpc' = WakeAll(wpc)
    /\ UNCHANGED <<queues, active, activeBy, abandoned, calling, work, held>>

Joined ==
    /\ mode = "joining" /\ \A w \in Workers : wpc[w] = "exited"
    /\ mode' = "gone"
    /\ UNCHANGED <<queues, active, activeBy, abandoned, calling, work, wpc, held>>

Destructor == (\E c \in Callers : Abandon(c)) \/ NotifyStop \/ Joined

CallerProceeds(c) == Notify(c) \/ ReturnCall(c)

PoolNext ==
    \/ \E c \in Callers : Submit(c) \/ Poll(c) \/ CallerProceeds(c)
    \/ \E w \in Workers : WorkerStep(w) \/ WakeSpuriously(w)
    \/ Shutdown \/ Destructor

PoolSpec == PoolInit /\ [][PoolNext]_allVars

\* Threads run; analyses end (every engine call has a timeout); nobody has to call, to
\* stop a call, to destroy the pool or to wake up without a notification.
PoolFairSpec == /\ PoolSpec
            /\ \A w \in Workers : WF_allVars(WorkerStep(w))
            /\ \A c \in Callers : WF_allVars(CallerProceeds(c))
            /\ WF_allVars(Destructor)

-----------------------------------------------------------------------------
(* Properties.                                                              *)

\* Each work that waits for its answer is in exactly one place, from which it will get it
\* (a queue, a worker, or the destructor), and an answered one in none: setting a promise
\* a second time would throw out of a worker thread and end the process.
Places(c) ==
    Cardinality({s \in Priorities \X (1 .. MaxPending) :
                    s[2] \in DOMAIN queues[s[1]] /\ queues[s[1]][s[2]] = c})
    + Cardinality({w \in Workers : held[w].of = {c}})
    + Cardinality({c} \cap abandoned)
AnsweredOnce ==
    \A c \in Callers :
        Places(c) = IF calling[c] # "idle" /\ work[c].promise = "unset" THEN 1 ELSE 0

\* notify_one is enough: as long as a worker sleeps, for each work that could be served
\* some thread is on its way, a worker that will look at the queues or a thread that has
\* still to notify.
LesserOf(a, b) == IF a < b THEN a ELSE b
ServableWorks ==
    Len(queues[0]) + Len(queues[1])
        + LesserOf(Len(queues[Historical]), HistoricalLimit - activeBy[Historical])
OnTheWay ==
    Cardinality({w \in Workers : wpc[w] \notin {"asleep", "run", "exited"}})
        + Cardinality({c \in Callers : calling[c] = "notify"})
NoLostWakeup ==
    mode = "up" /\ Asleep(wpc) # {} => ServableWorks <= OnTheWay

\* An interactive call returns, whatever other callers keep asking for, however its
\* engine fails, and also when the pool is destroyed meanwhile.
InteractiveReturns ==
    \A c \in Callers : (calling[c] # "idle" /\ work[c].prio = Interactive) ~> (calling[c] = "idle")

\* The destructor returns: no sleeping worker misses the stop.
DestructorReturns == mode = "stopping" ~> mode = "gone"

=============================================================================
