----------------------------- MODULE ArchiveSync -----------------------------
(***************************************************************************)
(* The historical half of IngestManager (src/src/app/ingest_manager.cpp):  *)
(* clients start and cancel syncs of a player's Chess.com months; one      *)
(* worker lists the months, then fetches, imports, indexes and checkpoints *)
(* one month per turn, and saves the progress in the repository, from      *)
(* which the next process resumes.  Every critical section of mutex_ and   *)
(* every repository call is an action, so a crash, a failing append, a     *)
(* cancellation or a tick of the clock may come between any two.           *)
(* A game is played at a time; months are MonthLength ticks.               *)
(***************************************************************************)
EXTENDS ArchiveClient, SequencesExt

CONSTANTS Users, Games,
          PlayedBy,     \* game -> user
          PlayedAt,     \* game -> time it ended
          Malformed,    \* games whose archive records do not parse or tell no time
          Windows,      \* the lengths a sync may ask for ("days")
          MaxMonths,    \* window -> newest months it looks at
          MonthLength,
          ChunkLimit,   \* ingest_archive_chunk_limit
          MaxPending,   \* options_.max_pending
          MaxHistory,   \* options_.max_history
          None,         \* stands for the absence of a record
          MaxTime, MaxCalls, MaxFaults, MaxCrashes  \* bounds

ASSUME SyncConstants ==
    /\ IsFiniteSet(Users) /\ IsFiniteSet(Games) /\ None \notin Users
    /\ Windows \subseteq Nat /\ MonthLength \in Nat \ {0} /\ ChunkLimit \in Nat \ {0}
    /\ PlayedBy \in [Games -> Users] /\ PlayedAt \in [Games -> Nat]
    /\ MaxMonths \in [Windows -> Nat] /\ Malformed \subseteq Games
    /\ MaxPending \in Nat \ {0} /\ MaxHistory \in Nat \ {0}
    /\ {MaxTime, MaxCalls, MaxFaults, MaxCrashes} \subseteq Nat

VARIABLES
    now,          \* options_.clock
    mode,         \* "up", "stopping" (in the destructor) or "down"
    syncs,        \* syncs_: id -> sync
    runtime,      \* sync_runtime_: id -> archives, next_archive, discovered, cancellation
    order,        \* sync_order_
    current,      \* current_sync_: an id, or 0
    queue,        \* historical_queue_
    nextId,       \* next_sync_id_
    asked,        \* the player a start_sync without a name has read from the profile, or None
    worker,       \* the historical worker between two of its steps
    canceller,    \* the state cancel_sync still has to save, or None
    saved,        \* repository: the Chess.com sync state
    profile,      \* repository: the configured player and the window last synced
    games,        \* repository: games added
    archive,      \* repository: archive entries
    checkpoints,  \* repository: <<user, month>>
    promised,     \* history: the games of the windows of checkpointed months
    calls, faults, crashes   \* history, for the bounds

repository == <<saved, profile, games, archive, checkpoints>>
manager    == <<syncs, runtime, order, current, queue, nextId>>
bounds     == <<calls, faults, crashes>>
vars       == <<http, now, mode, manager, asked, worker, canceller, repository, promised, bounds>>

-----------------------------------------------------------------------------
(* Data.                                                                   *)

Statuses == {"queued", "running", "cancelled", "succeeded", "failed"}
Active(s) == s.status \in {"queued", "running"}      \* active_status

MonthOf(t) == t \div MonthLength

\* What Chess.com shows now.
Published(user)       == {g \in Games : PlayedBy[g] = user /\ PlayedAt[g] <= now}
PublishedMonths(user) == {MonthOf(PlayedAt[g]) : g \in Published(user)}
Page(user, month)     == {g \in Published(user) : MonthOf(PlayedAt[g]) = month}

Newest(S, n) == {m \in S : Cardinality({x \in S : x > m}) < n}
Descending(S) == SetToSortSeq(S, LAMBDA a, b : a > b)

InWindow(g, s) == s.cutoff <= PlayedAt[g] /\ PlayedAt[g] <= s.upper

SavedState(s, status, at) ==
    [status |-> status, user |-> s.user, days |-> s.days,
     cutoff |-> s.cutoff, upper |-> s.upper, at |-> at]

Idle == [at |-> "idle", id |-> 0, sync |-> None, month |-> 0, todo |-> {},
         outcome |-> None, handler |-> FALSE, profile |-> None]

FreshRuntime == [archives |-> <<>>, next |-> 1, discovered |-> FALSE, stop |-> FALSE]

\* The worker keeps its token when the source is trimmed; only cancelled or ended
\* syncs are.
Stopped(id) == id \in DOMAIN runtime => runtime[id].stop

\* trim_history_unlocked: whole ended syncs from the front, beyond MaxHistory.
Trimmed(ss, seq) ==
    LET excess == IF Len(seq) > MaxHistory THEN Len(seq) - MaxHistory ELSE 0
        n == CHOOSE k \in 0 .. excess :
                /\ \A i \in 1 .. k : ~Active(ss[seq[i]])
                /\ k = excess \/ Active(ss[seq[k + 1]])
    IN  [kept |-> {seq[i] : i \in n + 1 .. Len(seq)}, order |-> SubSeq(seq, n + 1, Len(seq))]

Remember(ss, rt, seq) ==
    LET t == Trimmed(ss, seq)
    IN  /\ syncs' = [i \in t.kept |-> ss[i]]
        /\ runtime' = [i \in t.kept |-> rt[i]]
        /\ order' = t.order

\* A repository call may throw before it appends.
Fault == faults < MaxFaults /\ faults' = faults + 1
NoFault == UNCHANGED faults

\* save_chesscom_sync_state refuses a state older than the saved one.
Stale(at) == at < saved.at
-----------------------------------------------------------------------------
(* Clients.                                                                *)

\* start_sync without a name is of the configured player, who is read before the lock.
ReadPlayer ==
    /\ mode = "up" /\ asked = None /\ asked' = profile.user
    /\ UNCHANGED <<http, now, mode, manager, worker, canceller, repository, promised, bounds>>

MayStart(user, supplied) ==
    /\ mode = "up" /\ calls < MaxCalls /\ calls' = calls + 1
    /\ IF supplied THEN UNCHANGED asked ELSE asked = user /\ asked' = None
    /\ current \in DOMAIN syncs => ~Active(syncs[current])
    /\ Len(queue) < MaxPending
    /\ nextId' = nextId + 1
ConfiguredAs(user) == IF profile.user = user THEN profile ELSE [user |-> user, synced |-> 0]

\* The repository is written under the mutex: the player, if named, and the state.
StartSync(user, days, supplied) ==
    /\ MayStart(user, supplied)
    /\ LET s == [status |-> "queued", user |-> user, days |-> days, upper |-> now,
                 cutoff |-> IF days > now THEN 0 ELSE now - days,
                 month |-> 0, completed |-> 0, at |-> now]
           ss == [i \in DOMAIN syncs \cup {nextId} |-> IF i = nextId THEN s ELSE syncs[i]]
           rt == [i \in DOMAIN ss |-> IF i = nextId THEN FreshRuntime ELSE runtime[i]]
       IN  /\ saved' = SavedState(s, "running", now)
           /\ Remember(ss, rt, Append(order, nextId))
    /\ profile' = IF supplied THEN ConfiguredAs(user) ELSE profile
    /\ current' = nextId /\ queue' = Append(queue, nextId)
    /\ UNCHANGED <<http, now, mode, worker, canceller, games, archive, checkpoints,
                   promised, faults, crashes>>

\* Either write may throw: an id is gone, and the player may be configured.
StartFails(user, supplied) ==
    /\ MayStart(user, supplied) /\ Fault
    /\ profile' \in {profile} \cup {ConfiguredAs(u) : u \in IF supplied THEN {user} ELSE {}}
    /\ UNCHANGED <<http, now, mode, syncs, runtime, order, current, queue, worker, canceller,
                   saved, games, archive, checkpoints, promised, crashes>>

\* cancel_sync under the mutex; it saves "paused" after it has left it.
CancelSync(id) ==
    /\ mode = "up" /\ canceller = None
    /\ id \in DOMAIN syncs /\ Active(syncs[id])
    /\ syncs' = [syncs EXCEPT ![id].status = "cancelled", ![id].at = now]
    /\ runtime' = [runtime EXCEPT ![id].stop = TRUE]
    /\ queue' = SelectSeq(queue, LAMBDA x : x # id)
    /\ canceller' = SavedState(syncs[id], "paused", now)
    /\ UNCHANGED <<http, now, mode, order, current, nextId, asked, worker, repository,
                   promised, bounds>>

SavePaused ==
    /\ mode # "down" /\ canceller # None /\ canceller' = None
    /\ \/ ~Stale(canceller.at) /\ saved' = canceller /\ NoFault
       \/ Stale(canceller.at) /\ UNCHANGED saved /\ NoFault
       \/ Fault /\ UNCHANGED saved
    /\ UNCHANGED <<http, now, mode, manager, asked, worker, profile, games, archive,
                   checkpoints, promised, calls, crashes>>

ConfigureProfile(user) ==
    /\ mode = "up" /\ profile.user # user
    /\ calls < MaxCalls /\ calls' = calls + 1
    /\ profile' = [user |-> user, synced |-> 0]
    /\ UNCHANGED <<http, now, mode, manager, asked, worker, canceller, saved, games, archive,
                   checkpoints, promised, faults, crashes>>

Tick ==
    /\ now < MaxTime /\ now' = now + 1
    /\ UNCHANGED <<http, mode, manager, asked, worker, canceller, repository, promised, bounds>>
-----------------------------------------------------------------------------
(* The worker.                                                             *)

Others == <<now, mode, asked, canceller, promised, calls, crashes>>

TakeSync ==
    /\ mode = "up" /\ worker.at = "idle" /\ queue # <<>>
    /\ worker' = [Idle EXCEPT !.at = "begin", !.id = Head(queue)]
    /\ queue' = Tail(queue)
    /\ UNCHANGED <<http, syncs, runtime, order, current, nextId, repository, faults, Others>>

\* The first critical section of run_sync_step.
Begin ==
    /\ mode # "down" /\ worker.at = "begin"
    /\ IF worker.id \notin DOMAIN syncs \/ syncs[worker.id].status = "cancelled"
       THEN worker' = Idle /\ UNCHANGED <<http, syncs>>
       ELSE /\ syncs' = [syncs EXCEPT ![worker.id].status = "running", ![worker.id].at = now]
            /\ LET known == runtime[worker.id].discovered
               IN  /\ worker' = [worker EXCEPT !.at = IF known THEN "pick" ELSE "discover",
                                               !.sync = syncs'[worker.id]]
                   /\ http' = IF known THEN http ELSE Sending(TRUE)
    /\ UNCHANGED <<runtime, order, current, queue, nextId, repository, faults, Others>>

Transfer ==
    /\ mode # "down" /\ worker.at \in {"discover", "fetch"}
    /\ HttpStep(Stopped(worker.id))
    /\ UNCHANGED <<manager, worker, repository, faults, Others>>

\* An exception in a step is handled by finish_sync.
Failing(outcome) == [worker EXCEPT !.at = "finish", !.outcome = outcome, !.handler = TRUE]

RequestFailed ==
    /\ mode # "down" /\ worker.at \in {"discover", "fetch"} /\ http.at = "done" /\ http.result # "ok"
    /\ worker' = Failing(IF http.result = "cancelled" THEN "cancelled" ELSE "failed")
    /\ http' = Quiet
    /\ UNCHANGED <<manager, repository, faults, Others>>

\* The process ends wherever its threads are.
Dies == /\ mode' = "down" /\ http' = Quiet /\ worker' = Idle
        /\ canceller' = None /\ asked' = None

\* std::terminate: an exception leaves the worker's thread.
Terminates ==
    /\ Dies
    /\ UNCHANGED <<now, manager, repository, promised, bounds>>

\* sync_runtime_.at(id) or syncs_.at(id) of a sync that was cancelled and trimmed
\* meanwhile throws what no handler catches.
Forgotten ==
    /\ mode # "down" /\ worker.id \notin DOMAIN syncs
    /\ worker.at \in {"pick", "advance"} \/ (worker.at = "discover" /\ Done("ok"))
    /\ Terminates

Discovered ==
    /\ mode # "down" /\ worker.at = "discover" /\ Done("ok") /\ worker.id \in DOMAIN runtime
    /\ LET months == Newest(PublishedMonths(worker.sync.user), MaxMonths[worker.sync.days])
       IN  runtime' = [runtime EXCEPT ![worker.id].archives = Descending(months),
                                      ![worker.id].discovered = TRUE]
    /\ worker' = [worker EXCEPT !.at = "pick"] /\ http' = Quiet
    /\ UNCHANGED <<syncs, order, current, queue, nextId, repository, faults, Others>>

\* A month that is checkpointed is not fetched again, except the month of the upper bound.
Skips(s, month) ==
    /\ <<s.user, month>> \in checkpoints
    /\ month # MonthOf(s.upper)

Pick ==
    /\ mode # "down" /\ worker.at = "pick" /\ worker.id \in DOMAIN runtime
    /\ LET r == runtime[worker.id]
       IN  IF r.next > Len(r.archives)
           THEN /\ worker' = [worker EXCEPT !.at = "finish", !.outcome = "succeeded"]
                /\ UNCHANGED <<runtime, http>>
           ELSE LET month == r.archives[r.next]
                    skip  == Skips(worker.sync, month)
                IN  /\ runtime' = [runtime EXCEPT ![worker.id].next = @ + 1]
                    /\ worker' = [worker EXCEPT !.at = IF skip THEN "advance" ELSE "fetch",
                                                !.month = month]
                    /\ http' = IF skip THEN http ELSE Sending(TRUE)
    /\ UNCHANGED <<syncs, order, current, queue, nextId, repository, faults, Others>>

\* The games of the page that can be read and ended inside the window of the sync.
Wanted(s, page) == {g \in page \ Malformed : InWindow(g, s)}

Fetched ==
    /\ mode # "down" /\ worker.at = "fetch" /\ Done("ok")
    /\ worker' = [worker EXCEPT !.at = "import",
                                !.todo = Wanted(worker.sync, Page(worker.sync.user, worker.month))]
    /\ http' = Quiet
    /\ UNCHANGED <<manager, repository, faults, Others>>

Import_Swallows ==                                                           \* mutant
    /\ mode # "down" /\ worker.at = "import"
    /\ \/ games' = games \cup worker.todo /\ NoFault
       \/ (\E some \in SUBSET worker.todo : games' = games \cup some) /\ Fault
    /\ worker' = [worker EXCEPT !.at = "index"]
    /\ UNCHANGED <<http, manager, saved, profile, archive, checkpoints, Others>>

\* bulk_add: it adds game after game and may throw after some.
Import ==
    /\ mode # "down" /\ worker.at = "import"
    /\ \/ /\ games' = games \cup worker.todo
          /\ worker' = [worker EXCEPT !.at = "index"] /\ NoFault
       \/ /\ \E some \in SUBSET worker.todo : some # worker.todo /\ games' = games \cup some
          /\ worker' = Failing("failed") /\ Fault
    /\ UNCHANGED <<http, manager, saved, profile, archive, checkpoints, Others>>

\* persist_archive_chunks, one durable chunk at a time.
IndexChunk ==
    /\ mode # "down" /\ worker.at = "index"
    /\ \E chunk \in SUBSET worker.todo :
        /\ Cardinality(chunk) <= ChunkLimit
        /\ chunk = worker.todo \/ Cardinality(chunk) = ChunkLimit
        /\ \/ /\ archive' = archive \cup chunk
              /\ worker' = [worker EXCEPT !.todo = @ \ chunk,
                                          !.at = IF chunk = worker.todo THEN "checkpoint" ELSE @]
              /\ NoFault
           \/ worker' = Failing("failed") /\ Fault /\ UNCHANGED archive
    /\ UNCHANGED <<http, manager, saved, profile, games, checkpoints, Others>>

Checkpoint ==
    /\ mode # "down" /\ worker.at = "checkpoint"
    /\ \/ /\ checkpoints' = checkpoints \cup {<<worker.sync.user, worker.month>>}
          /\ promised' = promised \cup Wanted(worker.sync, Page(worker.sync.user, worker.month))
          /\ worker' = [worker EXCEPT !.at = "advance"] /\ NoFault
       \/ worker' = Failing("failed") /\ Fault /\ UNCHANGED <<checkpoints, promised>>
    /\ UNCHANGED <<http, manager, saved, profile, games, archive,
                   now, mode, asked, canceller, calls, crashes>>

\* The month is done: queue the next turn of the sync, unless it was cancelled.
Advance ==
    /\ mode # "down" /\ worker.at = "advance" /\ worker.id \in DOMAIN syncs
    /\ IF syncs[worker.id].status = "cancelled"
       THEN worker' = Idle /\ UNCHANGED <<syncs, queue>>
       ELSE /\ syncs' = [syncs EXCEPT ![worker.id] =
                           [worker.sync EXCEPT !.month = worker.month, !.completed = @ + 1, !.at = now]]
            /\ queue' = Append(queue, worker.id)
            /\ worker' = [worker EXCEPT !.at = "save", !.sync = syncs'[worker.id]]
    /\ UNCHANGED <<http, runtime, order, current, nextId, repository, faults, Others>>

\* The progress is saved after the mutex is left.
SaveProgress ==
    /\ mode # "down" /\ worker.at = "save"
    /\ \/ /\ ~Stale(worker.sync.at)
          /\ saved' = SavedState(worker.sync, "running", worker.sync.at)
          /\ worker' = Idle /\ NoFault
       \/ Stale(worker.sync.at) /\ worker' = Failing("failed") /\ UNCHANGED saved /\ NoFault
       \/ worker' = Failing("failed") /\ Fault /\ UNCHANGED saved
    /\ UNCHANGED <<http, manager, profile, games, archive, checkpoints, Others>>

\* finish_sync under the mutex: a cancelled sync stays cancelled.
Decided_Overwrites(status, outcome) == outcome                              \* mutant
Decided(status, outcome) == IF status = "cancelled" THEN status ELSE outcome

Finish ==
    /\ mode # "down" /\ worker.at = "finish"
    /\ IF worker.id \notin DOMAIN syncs
       THEN worker' = Idle /\ UNCHANGED <<syncs, runtime, order>>
       ELSE LET s == [syncs[worker.id] EXCEPT !.status = Decided(@, worker.outcome), !.at = now]
            IN  /\ Remember([syncs EXCEPT ![worker.id] = s], runtime, order)
                /\ worker' = [worker EXCEPT !.at = "finishsave", !.sync = s]
    /\ UNCHANGED <<http, current, queue, nextId, repository, faults, Others>>

EndSaved(status) == CASE status = "succeeded" -> "succeeded" [] status = "cancelled" -> "paused"
                      [] OTHER -> "failed"

FinishSave ==
    /\ mode # "down" /\ worker.at = "finishsave" /\ ~Stale(worker.sync.at)
    /\ saved' = SavedState(worker.sync, EndSaved(worker.sync.status), worker.sync.at)
    /\ worker' = IF worker.sync.status = "succeeded" THEN [worker EXCEPT !.at = "readprofile"] ELSE Idle
    /\ UNCHANGED <<http, manager, profile, games, archive, checkpoints, faults, Others>>

\* A throw of finish_sync inside the try block fails the sync; in a handler it ends
\* the process.
FinishThrows ==
    /\ mode # "down" /\ worker.at = "finishsave"
    /\ (Stale(worker.sync.at) /\ NoFault) \/ Fault
    /\ IF worker.handler
       THEN Dies
       ELSE worker' = Failing("failed") /\ UNCHANGED <<mode, http, asked, canceller>>
    /\ UNCHANGED <<now, manager, repository, promised, calls, crashes>>

\* A success is noted in the profile, which is read, changed and written back.
ReadProfile ==
    /\ mode # "down" /\ worker.at = "readprofile"
    /\ worker' = IF profile.user = worker.sync.user
                 THEN [worker EXCEPT !.at = "writeprofile", !.profile = profile] ELSE Idle
    /\ UNCHANGED <<http, manager, repository, faults, Others>>

\* A write that throws is inside the try block: the sync that succeeded fails.
WriteProfile ==
    /\ mode # "down" /\ worker.at = "writeprofile"
    /\ \/ /\ profile' = [worker.profile EXCEPT !.synced = worker.sync.upper]
          /\ worker' = Idle /\ NoFault
       \/ worker' = Failing("failed") /\ Fault /\ UNCHANGED profile
    /\ UNCHANGED <<http, manager, saved, games, archive, checkpoints, Others>>
-----------------------------------------------------------------------------
(* The process.                                                            *)

\* The destructor requests every stop and joins the worker.
Shutdown ==
    /\ mode = "up" /\ crashes < MaxCrashes /\ crashes' = crashes + 1
    /\ mode' = "stopping"
    /\ runtime' = [i \in DOMAIN runtime |-> [runtime[i] EXCEPT !.stop = TRUE]]
    /\ UNCHANGED <<http, now, syncs, order, current, queue, nextId, asked, worker, canceller,
                   repository, promised, calls, faults>>

Joined ==
    /\ mode = "stopping" /\ worker.at = "idle" /\ canceller = None
    /\ mode' = "down"
    /\ UNCHANGED <<http, now, manager, asked, worker, canceller, repository, promised, bounds>>

Crash ==
    /\ mode # "down" /\ crashes < MaxCrashes /\ crashes' = crashes + 1
    /\ Dies
    /\ UNCHANGED <<now, manager, repository, promised, calls, faults>>

\* The constructor resumes a saved running sync of the configured player, with its
\* window, and pauses one of another player.
Boot ==
    /\ mode = "down" /\ mode' = "up" /\ http' = Quiet /\ worker' = Idle
    /\ canceller' = None /\ asked' = None
    /\ IF saved.status = "running" /\ profile.user = saved.user
       THEN LET s == [status |-> "queued", user |-> saved.user, days |-> saved.days,
                      cutoff |-> saved.cutoff, upper |-> saved.upper,
                      month |-> 0, completed |-> 0, at |-> now]
            IN  /\ syncs' = <<s>> /\ runtime' = <<FreshRuntime>>
                /\ order' = <<1>> /\ current' = 1 /\ queue' = <<1>> /\ nextId' = 2
                /\ UNCHANGED saved
       ELSE /\ syncs' = <<>> /\ runtime' = <<>> /\ order' = <<>> /\ current' = 0
            /\ queue' = <<>> /\ nextId' = 1
            /\ saved' = IF saved.status = "running" THEN [saved EXCEPT !.status = "paused", !.at = now]
                        ELSE saved
    /\ UNCHANGED <<now, profile, games, archive, checkpoints, promised, bounds>>

Init ==
    /\ http = Quiet /\ now = 0 /\ mode = "up" /\ worker = Idle
    /\ canceller = None /\ asked = None
    /\ syncs = <<>> /\ runtime = <<>> /\ order = <<>> /\ current = 0 /\ queue = <<>> /\ nextId = 1
    /\ saved = [status |-> "idle", user |-> None, days |-> 0, cutoff |-> 0, upper |-> 0, at |-> 0]
    /\ profile = [user |-> None, synced |-> 0]
    /\ games = {} /\ archive = {} /\ checkpoints = {} /\ promised = {}
    /\ calls = 0 /\ faults = 0 /\ crashes = 0

WorkerStep ==
    \/ TakeSync \/ Begin \/ Transfer \/ RequestFailed \/ Forgotten \/ Discovered \/ Pick
    \/ Fetched \/ Import \/ IndexChunk \/ Checkpoint \/ Advance \/ SaveProgress
    \/ Finish \/ FinishSave \/ FinishThrows \/ ReadProfile \/ WriteProfile

Next ==
    \/ \E u \in Users, supplied \in BOOLEAN :
           (\E d \in Windows : StartSync(u, d, supplied)) \/ StartFails(u, supplied)
    \/ \E id \in 1 .. MaxCalls + MaxCrashes : CancelSync(id)
    \/ ReadPlayer \/ SavePaused \/ \E u \in Users : ConfigureProfile(u)
    \/ Tick \/ WorkerStep \/ Shutdown \/ Joined \/ Crash \/ Boot

\* The worker's thread runs, transfers end (perform_once bounds each), cancel_sync
\* finishes what it began, and the destructor returns once it can.
Fairness == WF_vars(WorkerStep) /\ WF_vars(SavePaused) /\ WF_vars(Joined)

Spec == Init /\ [][Next]_vars /\ Fairness
-----------------------------------------------------------------------------
(* Properties.                                                             *)

\* A month checkpoint is the promise that the month need not be fetched again: when
\* it is in the repository, so are the readable games of that window and their archive
\* entries, whatever failed or died meanwhile (run_sync_step, lines 795 to 798).
CheckpointKeeps == promised \subseteq archive \cap games

\* A sync that was cancelled stays so, whatever its step was doing at the time and
\* however that step ends (lines 804 and 829).
CancelledStays ==
    [][\A id \in DOMAIN syncs :
        (syncs[id].status = "cancelled" /\ mode # "down" /\ id \in DOMAIN syncs')
            => syncs'[id].status = "cancelled"]_vars

\* The syncs all end while the process is up: months are listed once, and each turn
\* takes the next (run_sync_step; clients start MaxCalls of them here).
SyncsEnd ==
    (mode = "up") ~> (mode # "up" \/ \A id \in DOMAIN syncs : ~Active(syncs[id]))

=============================================================================
