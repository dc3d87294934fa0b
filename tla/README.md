# Plywise: specifications, model checks and proofs

Plywise is a local (and optionally hosted) chess analysis service: it imports games,
analyses them with Stockfish in the background or lets the browser's engine do so, keeps
the results in an append-only event log or in PostgreSQL, and serves them to a web client.
This directory holds TLA+ models of its parts, TLC configurations that check them on small
instances, and TLAPS proofs of theorems about them. All paths below are relative to the
repository's `src/`. `PROJECT.json` gives, for every definition of a module, the lines of
code it stands for, and the list of hazards the properties were written for.

## 1. Inventory of the system

`src/main.cpp` builds the local service in the order event log, repository, importer,
engine pool, analyzer with its cache, job manager, ingest manager, hosted runtime, API and
server, and destroys it in the opposite order: who is destroyed first may no longer be
called, and the pool outlives every analysis.

| Component | State | Operations | Talks to | Hard behaviour | What makes it correct |
|---|---|---|---|---|---|
| Analysis job manager (`app/job_manager.cpp`) | jobs, task queues, active tasks and counters by priority, requested priorities, paused flag; all under one mutex | `start`, `start_batch`, `cancel`, `pause`, `resume`, worker threads, constructor, destructor | reads and writes the repository without its mutex; calls the analyzer; notifies observers | requests against workers between an unlock and the next lock; promotion, preemption and retry of a task that runs; crash, recovery | one analysis per game; every job decided; counters exact; interactive work first; no finished analysis repeated |
| Job observers (`notify`, `add_observer`, `remove_observer` of the same file) | observers, `observer_calls_` | subscribe, unsubscribe, notify | server, ingest manager, hosted scopes | callbacks in progress while their owner goes | no call after removal returns; no update missed |
| Engine pool (`engine/pool.cpp`) | three queues, active counts, one condition variable, a promise per call | `analyze`, `take`, `worker`, `finish_active`, destructor | called by analyzers; owns the engines | `notify_one`, retries that race with the destructor, cancellation of queued work | every call answered once; no lost wakeup; destructor returns |
| Stockfish session (`engine/stockfish.cpp`) | engine process, pipes, read buffer | `start`, `analyze`, `stop`, `restart` | an external engine | late `bestmove`, timeouts, a process that dies or whose pipes a sibling inherited | an answer is that of the question asked; every call ends |
| Analyzer and cache (`analysis/analyzer.cpp`) | bounded cache of answers, the review under way | `analyze_shallow`, `analyze_deep`, cache `get` and `put` | engine | a failure between two questions of one review; limits and sorts | answers exact; the worst mistakes are listed |
| Event log (`storage/event_log.cpp`) | `events.log`, next id | `append`, `replay`, `recover_trailing_record`, `compact` | written by the repository | a crash at any byte; write and fsync that fail; rename during compaction | acknowledged records survive; compaction changes nothing |
| Event-log repository (`app/repository.cpp`) | projection of the log in memory, snapshot files, `projection_event_id_` and its contiguity | `add`, `save_analysis`, `save_shallow_analysis`, `record_job_state`, variations, drills, `create_snapshot`, `compact_storage`, and more | event log; called by job manager, ingest manager and the API | several records per call, one of which fails; snapshot watermarks; compaction | a start shows what was acknowledged |
| Training (`training/training.cpp`) | attempts and session of a drill | begin, attempt, next hint; review schedule | repository | a session and its attempts are separate records | hints follow failures; replay restores both |
| Ingest manager (`app/ingest_manager.cpp`) | resolutions, syncs, two queues, the current sync, history | `resolve`, `start_sync`, `cancel_resolution`, `cancel_sync`, `configure_profile`, two worker threads, destructor | importer, archive client, repository | results after a cancellation; trimming of a history still in use; resume | a checkpoint keeps its promise; cancelled stays cancelled; everything ends |
| Import (`import/*.cpp`) | the request under way | requests with retries and redirects, `find_game`, `from_url` | Chess.com | cancellation at any transfer; backoff | requests end; fallbacks in order |
| HTTP and websocket server (`service/http_server.cpp`) | client threads, websocket clients, scoped observers, `running` | accept loop, handlers, broadcast, `stop`, destructor | all of the above | shutdown with client threads inside; a websocket that subscribes while a job ends | stop returns; no callback outlives the server |
| Hosted runtime (`service/hosted_runtime.cpp`) | registry of owner scopes, leases | resolve a scope, evict, delete an account | PostgreSQL repository, a job manager per owner | eviction and deletion against requests | one scope per owner at work |
| OIDC token verifier (`service/oidc_token_verifier.cpp`) | key cache, missing kids, refresh times | `verify`, `key_for` | key server | one refresh in flight; rotation; failing loads | loads are spaced; nobody is shut out for longer than a cooldown |
| PostgreSQL repository and identity (`app/postgres_repository.cpp`) | tables | accounts, guest sessions, guest analysis, claim, deletion, imports, jobs, analyses | database | concurrent transactions of several processes | one claim, one free analysis, dead bearers stay dead |
| Hosted browser observations (`app/hosted_browser_observations.cpp`, `analysis/browser_observation.cpp`, `web/src/browser-review.ts`) | staged runs, in memory or in rows | begin, submit, finalize; the client that calls them | server, repository | requests late, twice or never; a stop between finalize and save | nothing acknowledged changes; a review is of one run |
| Chess core (`chess/*.cpp`) | positions | move generation, make and unmake, FEN, SAN, PGN | all | two computations of attacks; castling rights; disambiguation | undo restores; a written game reads back |
| JSON and support, command line and `main`, the other parts of the web client, migrations, deployment, scripts, benchmarks | | | | | section 7 |

`PROJECT.json` lists the same components with their status.

## 2. Plan

The most important behaviour came first; everything below is done.

1. `JobManager` with its abstract specification `JobLifecycle`, and the first theorems.
2. `EnginePool`; `EventLog` (operators) and `EventStore` (state machine).
3. `ArchiveClient` with the two halves of the ingest manager over it, `ArchiveSync` and
   `ImportResolver`.
4. `StockfishSession`, and `Analyzer` over it.
5. `HostedIdentity` and `KeyCache`.
6. `JobObservers`, composed into `HostedRuntime`, composed into `HttpServer`.
7. `ChessBoard`, `ChessNotation`, `ObservationStaging`, composed into `BrowserReview`.
8. Theorems, in this order: the invariants of `JobManager`, and that it implements
   `JobLifecycle` (step simulation); `EnginePool`; `ImportResolver` and `ArchiveSync`;
   `HostedIdentity` and `KeyCache`; `HttpServer` with its runtime and observers; `Analyzer`
   over `StockfishSession`; `BrowserReview` with the board and the staging;
   `WatermarkSplits`, `CompactionKeeps` and `Durable` of `EventStore`.

No module declares a RECURSIVE operator (recursion is by recursive functions and folds),
so that each can be proved about.

## 3. Modules and the code

### JobManager

One action per critical section of `mutex_`; reads and writes of the repository and the
analysis lie between two critical sections and are actions of their own, because other
threads run there.

| Code | Actions |
|---|---|
| `start`, `start_batch`, `start_with_priority` | `CallStart` / `CallBatch` (the repository is read before the lock), then `StartNew`, `StartExisting`, `RejectNew` or `RejectExisting` (the critical section), then `RecordNext` once per job state to record, and `Return` |
| `cancel` | `Cancel` |
| `pause`, `resume` | `SetPaused`, then `StorePaused` outside the lock |
| `work` | `Take` or `Discard`, `Announce` (records that the job runs), `Look` (reads the repository), `Found`, `Analyze` (with `Save`, `SaveThrows`, `AnalyzeThrows`), `CommitShallow`, `CommitDeep`, `RecordRequeued`, `Catch`, `Finish`, `Snapshot`, `Record`, `RecordKills` |
| destructor | `Shutdown` (the part under the lock), the workers' returns, `Joined` |
| constructor, `recoverable_analysis_jobs` | `Boot`, `BootFails`, `Recoverable` |

State: `jobs`, `nextId`, `queues`, `activeBy`, `active` and `paused` are the fields
`jobs_` with `requested_priorities_`, `next_id_`, `queues_`, `active_by_priority_`,
`active_tasks_` and `paused_`. `stopped` is the set of cancellation sources that were
stopped; a source is a name, given when a worker takes a task and free again when nobody
holds it, because a source only its task holds cannot be told apart from a new one.
`wpc`, `task` and `outcome` are the locals of the workers, `request` those of the request
threads, `shallow`, `analyzed`, `stored` and `storedPaused` what the repository holds.

Abstractions, each with its reason:

- The queue of `CurrentGame` is left out: no caller of the manager uses that priority.
- The analysis is one action with the save that ends it, and may end in any way the code
  provides: a result, a cancellation (if its source was stopped), an error that may be
  retried or not, an exception that is no error of the program. It leaves the lock long
  before and takes it long after, and the pool and the analyzer are read only through
  their result.
- The constructor is one step: no other thread runs yet. When it throws (`BootFails`), or
  the process ends in it, it has recorded some of the recoverable jobs as queued.
- The repository is a map; its own failures are the faults `"record"` and `SaveThrows`.
  `EventStore` is the model of what lies behind them.
- The condition variable is the guard of the action: each change of what a worker waits
  for is followed by `notify_all`. (An exception between the change and the
  `notify_all` in `resume` is outside the model.)
- Observers are in `JobObservers`; the progress of a job is left out.

That a worker stays free for interactive work needs no property of its own: it is the
guard of `Take`, and says what it should because the counters are exact (`CountersExact`).

### JobLifecycle

What a caller may rely on: new jobs for games no job holds, `queued` to `running` to a
final state or back to `queued`, final states that are final, `complete` only when the
analysis is saved, at most as many running jobs as workers, all jobs forgotten when the
process ends. `JobManager` maps `job` to `jobs` (game and status) and `saved` to
`analyzed`.

### EnginePool

The mutex of `EnginePool::State` makes each critical section one action, as above, but
the condition variable is explicit: `Submit` releases the lock in state `"notify"` and
`Notify` wakes one sleeper of the system's choice; a retry wakes one too, other changes
wake all. `WakeSpuriously` is the spurious wakeup. `Poll` is the loop of `analyze` that
passes the caller's stop on to the work every 2 ms, merged with the
request of the stop. A promise is set by `Answer` and `Fail` (worker) or `Abandon`
(destructor), each outside the lock as in the code. `Shutdown` is guarded by what the
owner in `main.cpp` guarantees: nobody is between the lock and the notification of
`analyze` any more when the pool is destroyed. Counters that only `stats()` reads are
left out.

### EventLog and EventStore

`EventLog` holds operators on a file that is a sequence of cells: a record is four cells
(two of header, one of payload, one of checksum), the fewest that tell apart every place
at which `replay` treats a cut record differently (before the magic is complete, inside
the header, where the lengths are known and the file too short, where the checksum
fails). `Scan` is what `replay_unlocked` reads from each place on (`ReadFrom` is one turn
of its loop); `Replay` (its value at the first place), `Recovered`, `NextId` and
`Compacted` translate `replay_unlocked`, `recover_trailing_record`, the constructor and
`compact`.

`EventStore` is the repository over that file. A call holds the mutex of the repository,
so `Perform` makes a call one action with three outcomes: every append succeeds; an append
throws after those before it, and the file has one of the `Residues` that failing can
leave; the process dies with any prefix of the bytes written. `Boot` is the order of
`main.cpp`: open, replay, recover the tail, rebuild from the newest authorized snapshot.
`save_analysis` and `save_shallow_analysis` unlock before they ask for a snapshot, so
`CreateSnapshot` is an action of its own; its every-tenth-game trigger is abstracted to
any time. The calls are `Add`, `SaveShallow`, `SaveAnalysis`, `RecordJobState`, the
variations, and the drills: `AddValidatedDrill`, `RecordAttempt` (which appends the end
of the session as a second record when the attempt is correct), `BeginDrillSession` and
`AdvanceHint`. A drill is a value with its attempts and its session, because replay adds
attempts up and replaces sessions. The clock of the requests is `Clock`, which every
append and every failure moves, so that an attempt that failed unseen is older than the
session begun after it. Left out: details that replay ignores (positions, evaluations,
the id and the number of an attempt's retries), calls that append one record of another
kind, the index files (derived, never read back: that writing them fails leaves the same
state), records of an older or an unknown schema with their migration in compaction. Records
that nothing of the model reads between (the positions of an analysis and its mistakes, the
ratings of the two players) are one append of their call, and the drills of a game are one.

### ArchiveClient, ArchiveSync, ImportResolver

`ArchiveClient` is a request as a worker thread makes it: `ChessComArchiveClient::request`
(retries with backoff, `Refuse`, `Wake`) over `curl_http_get_with_hops` (`Respond`,
`Redirect`, `Break`, and `Abort` on the cancellation token). A module that makes requests
extends it and reads `http` when it is done. What Chess.com answers is any answer.

`ArchiveSync` is the historical worker with the calls that concern it: `StartSync`, which
writes the repository under the lock, and `StartFails`, where one of these writes throws;
a call without a name reads the player from the profile before the lock (`ReadPlayer`,
`asked`); `CancelSync` with the save that follows it outside the lock (`SavePaused`),
`ConfigureProfile`; the worker takes a sync (`TakeSync`), lists the months (`Discovered`),
picks the next one that is not checkpointed (`Pick`, `Skips`), fetches, imports, indexes
in chunks and checkpoints it (`Fetched`, `Import`, `IndexChunk`, `Checkpoint`), advances
and saves its progress (`Advance`, `SaveProgress`), and finishes (`Finish`, `FinishSave`,
`ReadProfile`, `WriteProfile`). A record that does not parse or tells no time is skipped
(`Malformed`). `FinishThrows` is the last save when it throws: the sync fails by way of
the handler, or the process ends if it is already there (`Dies`). Every call that writes
the repository may fail, once per run; a crash or a shutdown may come anywhere, and `Boot`
resumes from the saved state. The clock moves with `Tick`.

`ImportResolver` is the interactive worker. `resolve` is a call in two steps: `Ask`
configures the player, or reads who is configured, without the lock, and then, under it,
`Resolve` queues a new resolution, or `ResolveKnown` finds one of the URL through
`active_canonical_resolutions_` or the queue full. The rest is `CancelResolution` and
`run_resolution` as a search of the local archive, of the newest months of each named
player, and then `ImportService::from_url` with its own archives, its callback and the
public page. A game that a page shows may fail to parse, and the archive of that player
then counts as failed. A URL stands for its canonical form and its game. The `Corruption`
of an `exact_binding` that does not fit its record is left out: `archive_entry` makes an
entry only after the same look.

The two halves share no queue and no history with each other, so they are two modules;
the repository tables that both write are written by one `add` each.

### StockfishSession and Analyzer

`StockfishSession` has the client (`start`, `analyze`, `stop`, `restart`) and the child as
two processes joined by the lines in two pipes. `Strike` is a stop request or a deadline
at any read; `Interrupt` and `Drain` are the two seconds `analyze` waits for the
`bestmove` a stopped search owes, `GivesUp` their end, after which the process is
replaced. `Moveless` is the `bestmove` that names no move. The wait for the end of a
killed child is part of the step that stops it, because nothing else of the session goes
on during it. `kept` says that a sibling forked in between holds the ends of the pipes, so
that the death of this child is not seen as end of file. The child's actions are external:
what UCI lets an engine do.

`Analyzer` extends it: a review is a list of questions put to the cache (`Lookup`) or to
the engine (`AskEngine`, `Receive`, `Fail`). `BeginShallow` scans, `Candidates` and
`BeginDeep` pick the plies looked at again, `FinishDeep` sorts and limits the mistakes.
A move is its loss and whether it is an inaccuracy or worse (`Inaccurate`, a set of pairs
of scores, for the curve of expected points); `Deserves` says which moves are looked at
again (`Threshold` is `candidate_threshold_cp`, `Special` the sacrifices and the forced
moves), and `Candidates` puts the inaccuracies first, each half by loss. Categories,
motifs and accuracy are functions of a position and stay out.

### HostedIdentity and KeyCache

`HostedIdentity` is the identity store and the hosted repository as transactions of READ
COMMITTED on tables: a transaction takes a row or advisory lock (a start whose lock is
taken is disabled), reads what is committed at each step, and writes and commits in its
last one. `Ensure`, `CreateGuest`, `Reserve`, `Claim` and `Remove` run on identity
connections, `Add`, `Record` and `Save` on repository connections of other processes.
`clock` counts deletions, which is all that the time of a bearer is compared with.
`Expire` is the end of the thirty days of a receipt, or of a guest session: an expired
receipt is no tombstone for a bearer any more, stays until the next sign-in that succeeds
(`Purge`), and answers a repeated deletion until then (`ReplayDelete` asks for no date).
`Reserve` is the look for the reservation and its insert in one step, because both are
made under the lock of the session's row.

`KeyCache` is `key_for`: the clock is read before the lock (`Ask`), the first critical
section answers from the cache, refuses or decides to load (`Look`), the load runs
without the lock and may fail or throw (`Load`), and the second critical section enters
what it got (`Land`). The provider rotates its document at any time. `missing` is the
bounded list of kids looked for in vain.

### JobObservers, HostedRuntime, HttpServer

`JobObservers` is the protocol of `notify`: copy the callbacks and count them under the
lock, call them without it (`Enter`, `Leave`), and a removal that waits for the calls
under way (`NoCallsLeft`). It is a module of operators over its variables that the two
others compose.

`HostedRuntime` is the registry: `Open` finds, reuses or creates a scope and evicts the
idle ones (`Idle`, `Evicted`), leases are taken and released (`Release`), and
`delete_account` holds `resources_mutex` while it retires a scope (`RetireScope`), erases
it (`EraseScope`) and deletes the rows (`DeleteRows`). The job manager inside a scope is
cut down to one job and one worker, its shallow and deep phase in one: `JobManager` has
the rest. The destruction of a scope nobody leases is a step of its own.

`HttpServer` composes them with the accept loop, client threads with three kinds of
request (one that starts a job, a websocket, the deletion of an account), the websocket
steps in the code's order (`Subscribe`, `Enlist`, `ListJobs`, `SendSnapshot`), the
callbacks (`Broadcast`), and the end: `Stop`, `RetireAll`, `Unobserve`, `EraseNext`,
`Gone`. `RetireAll` closes the listener and retires the websocket clients of the list in
one step: a client that enters the list after it was copied is there after the step, and a
frame sent to one before its turn could have been sent before the step. The observer of
the ingest manager is left out with that manager. A request that changes nothing here is a
start that finds its job. Rate limits, tickets and the parsing of requests are left out.

### ChessBoard, ChessNotation, ObservationStaging, BrowserReview

`ChessBoard` is a position as a record; `LegalMoves`, `MakeMove`, `UndoOf` and
`UnmakeMove` translate the code's functions. `LegalMoves` filters by making each move on a
copy, where the code makes and unmakes it on the board; `UndoRestores` is what makes the
two the same. The Zobrist hash is taken to be injective. `ChessNotation` has FEN and SAN
as records of their parts, with what the text leaves out left out, and the clocks within
their sixteen bits. `IsFen` is what the text of a FEN can say at all, and
`ScenariosAssumption` asks it of each scenario, and that `from_fen` accepts it; it does
not ask that the position makes sense.

`ObservationStaging` is the three operations that the ledger in memory and the store in
PostgreSQL offer alike; `durable` says which one it is, and only the ledger has a limit
and forgets at a restart. `BrowserReview` composes all three: `parse_pgn` reads a game
(`ReadMove`, `EndText`), tabs ask (`AskBegin`, `AskSubmit`, `AskFinalize`), each request
they ever sent may be served at any time, again, or never (`ServeBegin`, `ServeSubmit`;
finalize in its three steps `ReadGame`, `FinalizeRun`, `SaveReview`, of which the last
assembles and saves the review, and may fail), a native job may
save its own review (`SaveNative`), and the server may restart between any two steps.
Whether a line is valid is a pure function of the position, worked out once when the game
is stored (`verdicts`). The quota that begin takes first is left out.

### MC modules

An `MC` module extends its module with the symmetry sets or the constants a cfg cannot
write. `MCHostedIdentity` and `MCEngines` each compose two modules that share nothing: a
behaviour is of the tables or of the keys, of a review or of the pool (`scene`).
`MCJobManager` adds `Renew` for the run of liveness: the last job, decided and named by no
task and no call, is forgotten with what is known of its game, so that its id and its game
stand for new ones. A property over such jobs speaks of a supply without end.
`MCBrowserReview` asserts that its positions are `Lawful` (the rights match king and rook,
nothing stands on the en passant square), which two theorems assume. Symmetry is used only
in runs whose properties are invariants or step properties. No run replaces a definition.

## 4. Runs

Each question is asked with the smallest instance on which it can go wrong; the product of
all of them is too large for TLC.

| Run | Instance | Shows |
|---|---|---|
| `JobsRace` | two workers, one game, a queue of two; start, batch, cancel; crash | `ExclusiveAnalysis`: a job cancelled, promoted or requeued while a worker is between two of its steps never gives two workers the same game. `CountersExact`, `NoStrandedJob`, and `ImplementsLifecycle`, the refinement of `JobLifecycle` |
| `JobsFaults` | one worker, two games, a queue of one; start, batch, pause; crash, shutdown, failing `record_job_state` | `TypeOK`, `AnalyzedOnce`: restarts, stale reads and wrong records repeat no finished analysis; the constructor that refuses too much recovered work is reached |
| `JobsLive` | one worker, two games and two jobs at a time, of which the last is renewed without end (`LiveSpec`), one retry, shutdown, fairness | `InteractivePreempts`; under fairness `JobsAreDecided`, unless clients never stop starting jobs, and `ShutdownEnds` |
| `Store` | one game with one variation, or one drill; six records, two snapshots, one fault (crash at any byte, refused append, failed fsync) | `Durable`, `CompactionKeeps`, `WatermarkSplits` |
| `Sync` | two calls, four games of one player over two months, one of them unreadable, one failing append, one crash or shutdown, one retry, history of one | `CheckpointKeeps`, `CancelledStays`, and `SyncsEnd` under fairness |
| `Resolve` | three calls for one URL by two players, history of two, one failing append, any answers, no retries or redirects (those are in `Sync`) | `DedupIsLive`, and `ResolutionsEnd` under fairness |
| `Engine` | scene "review": a review, shallow and deep, of two plies; one fault of the engine, two stops or timeouts, a sibling process that keeps pipe ends, a cache of four answers for six questions; scene "pool": two workers, two callers, interactive and historical calls, one retry, `max_pending` 2, cancellation and destruction at any time | `CacheIsExact`, `MistakesAreWorst`, and `ReviewsEnd` under fairness; `AnsweredOnce`, `NoLostWakeup`, and `InteractiveReturns` and `DestructorReturns` under fairness |
| `Identity` | scene "tables": two subjects, two identity and two repository connections, one guest, three games, a limit of two, five transactions and a deletion clock; scene "keys": two requests, two kids, three documents, time to 5 with a cooldown and a lifetime of 2 | `OldBearersStayDead`, `ClaimedOnce`, `OneFreeAnalysis`, `WithinLimit`; `LoadsAreSpaced`, `AnswersAreBacked` |
| `Server` | two requests on two threads, an account and a guest, room for one scope, a job to recover, stop at any point | `CallbacksEnd`, `NoMissedUpdate`, `OneScopeAtWork`, and `ServerStops` under fairness |
| `Browser` | four positions two plies deep (one with a crowd of queens and knights one ply), and staged games for two tabs (below) | `UndoRestores`, `ChecksAgree`, `RightsAreEarned`, `SanRoundTrip`, `AcknowledgedStays`, `ReviewIsWhole` |
| `BugDeletion` | as `Server` | a violation: section 5 |
| `BugBearer` | one subject, two identity connections, four transactions | a violation: section 5 |

**Job manager.** `MaxJobs` bounds the ids a process life hands out and `Sources` names
cancellation sources; each execution in progress and each shared task uses one, and five
are never exhausted with these workers and queues. Two workers are what exclusion and the
counters are about; two jobs let one be promoted or preempted while the other waits, and a
game have a second job after the first was cancelled. One request thread is enough for all
but its own races with another, and the whole decision of `start` is one critical section;
`Exclusion` is proved for any number of them. With one worker preemption is on, so the
runs of preemption and liveness have one worker. In `JobsLive` a historical job can be
preempted by any number of interactive ones, of which at most one exists at a time; two at
a time would only wait longer for the same worker. A queue limit of one already makes
requeues exceed it.

**Pool scene of `Engine`.** Two calls and two workers give a submission that races a
sleeper, a retry that races the destructor, and a refusal at the limit.

**Store.** Six records hold an import (two records), an analysis (two), a snapshot marker
and a record after it, or a drill, its session, a failure, a hint, and a correct attempt
with the end of its session; a compaction frees no ids, so it takes the place of one of
them. One fault can be in any of them; the second class of fault that matters, one after
a fault that went unnoticed, is described in section 5. The two kinds of history (`Plans`)
meet only in the file, and their product adds no order of records that either lacks.

**Ingest.** Two months let one be checkpointed when the fault strikes in the next; a
history of one (`Sync`) or two (`Resolve`) trims while a cancelled entry still runs; a
second player gives discovery something to find. Windows are one length here. `Resolve`
has no retries and no redirects, whose number matters for a single request only; one retry
is in `Sync`.

**Engine.** Three positions at two depths are six questions: a cache of four drops
answers that are asked again. One fault and two stops can strike in the same review, the
second while the answer of the first is still owed. The scores let the scan find both moves
bad, or one of them good and still above the threshold, so that the order of the candidates
is that of quality before that of loss.

**Identity.** Three games make a guest with two meet the limit; two repository
connections count at once. The longest history that matters, a bearer issued before a
deletion while the account is made again, takes four transactions: with one subject they
are the whole of `BugBearer`. `WithinLimit` is about guests: a claim gives an account the
games of a guest without counting.
The clock of the keys reaches two lifetimes and a cooldown; the documents hold a key that
cannot be used, another key, and a kid given twice (which `parse_jwks` refuses).

**Server.** Two requests and one recovered job are four threads with the accept loop.
A refusal by a scope that is retired but still registered needs a third request and is not
reached.

**Browser.** The positions hold castling on both sides with rooks that can be taken on
their corners, an en passant capture that would expose the king, promotions that take a
rook with its castling right, and pieces whose SAN needs file, rank or square. The
"text" of these is any legal move. The staged games are a game of two plies in the ledger
with two tabs that share a run; mate in one in rows, with requests out of order and a
shared run; the same in the ledger with a run for each tab and room for one run; and a
game that is not finished, which is refused. A ledger that forgot a shared run at a
restart may mix what it is sent before and after, so `ReviewIsWhole` excepts it.

`CHECK_DEADLOCK FALSE` is set where the system may stop: a manager whose clients are done
waits, a pool that was destroyed is gone, a run at its bound ends. `Server` and
`Identity` have their end as a step and check deadlock.

Fairness, always weak:

- `JobsLive` and the pool scene of `Engine`: every thread runs (`WorkerStep`, the rest of
  a call a client is in, the joining destructor). That an analysis ends is included,
  because every engine call has a timeout. What a thread waits for is not taken from it,
  except by another worker that then does the work. Historical pool calls are promised no
  answer: strict priorities can starve them by design, so `InteractiveReturns` speaks of
  interactive calls only.
- `Sync`, `Resolve`: the worker runs, which includes that a transfer ends (each has a
  time limit in `perform_once`); `cancel_sync` finishes what it began; the destructor
  returns once it can.
- The review scene of `Engine`: the client runs, and the child obeys or a timeout strikes
  (`analyze` and `start` have deadlines). A child need not die or print.
- `Server`: each client thread, each callback and each worker of a scope runs, and so
  does the thread in `stop`. A peer need never close: `stop` closes its socket.

Nobody has to call, cancel, fail or destroy anything.

## 5. Disagreements of code and documents

Two runs check a property that a comment states and the code does not keep.

- `BugDeletion` / `WorkersSurvive` (`hosted_runtime.cpp:487`, "The shared scope lifetime
  keeps in-flight API requests and websocket observers safe while cancellation drains"):
  an account is deleted while the worker of its scope runs its job; the rows go, and
  `record_job_state` after the try block of `work` (`job_manager.cpp:527`) throws out of
  the thread, which ends the process.
- `BugBearer` / `RowRevivesNoBearer` (`postgres_repository.cpp:1594`, "An older bearer must
  never become valid again merely because the account row exists once more"): a sign-in
  that finds no row of its subject locks none. It reads the receipts, and then inserts the
  account or returns the one it meets (`:1638`, `:1669`) without a second look. If another
  connection has made the account, deleted it and made it again in between, the bearer,
  issued before that deletion, is given the account. `OldBearersStayDead` is what the code
  does keep: a sign-in that finds the row, which it has then locked, knows of every
  deletion on record, and one that finds none of every deletion up to its look.

The models also hold the following behaviours. Most are not contradicted by a document;
none has a property, because the code does nothing against them. File names are those of
section 1.

Job manager:
- A cancellation or a promotion between the last check of the source and the requeue of
  the deep phase (`job_manager.cpp:449`) is lost: the deep analysis of a cancelled job
  runs and the job ends as complete; a promoted one waits in the historical queue.
- The destructor stops running jobs as if they were cancelled (`:75`), and they are
  recorded so: a restart does not recover them. A crash does.
- A restart with more unfinished jobs than `max_queued` is refused by the constructor (`:57`).
- `record_job_state` that throws inside the `try` after the deep task was queued (`:452`)
  marks the job failed with its task still queued.
- `remove_observer` in a callback waits for the calls of the other observers of the same
  notification, which run later on the same thread (`:356`). No caller in `src/` does so.
- In the hosted repository the save of a shallow analysis completes the run and the job
  of the game (`postgres_repository.cpp:682`) before the deep pass has begun.

Event log and repository:
- A `write` that fails after a part of the record leaves the fragment; the process goes on
  behind it, and the next acknowledged record is lost at the next start. With `"torn"` in
  the `Faults` of `Store.cfg` `Durable` fails.
- `compact_storage` notes records that memory never applied (`repository.cpp:1733`); a
  snapshot that lacks them is then accepted.
- A correct attempt and the end of its session are two records (`repository.cpp:1324`):
  a crash or a refused append between them leaves the attempt with the old session, whose
  start and hints then count for the next review of the drill.
- A drill is created after its analysis, in a record of its own; a crash between them
  leaves an analysis without drills.

Ingest:
- The worker of a cancelled resolution erases the entry of a newer one of the same URL
  (`ingest_manager.cpp:726`), so that a third call starts a duplicate; when the history
  was trimmed meanwhile, `resolutions_.at` throws (`:724`; the model ends the process).
- A month checkpointed by a sync with an earlier or shorter window is skipped (`:773`):
  its later games stay out although the sync succeeds.
- `finish_sync` saves outside the lock (`:838`): its state may be older than that of a
  sync started meanwhile, and the save then throws.

Hosted service:
- A claim copies the job of a game under an id of its own but with the idempotency key it
  had (`postgres_repository.cpp:1889`). When the account then starts a job for that game,
  the insert of `record_job_state` (`:835`) has another id and the same key, and fails on
  the UNIQUE constraint of the table (`Conflicts`).
- An import that found the guest unclaimed may enter after the claim has committed; it is
  then not transferred.
- `delete_account` takes the scope out of the registry before the rows go
  (`hosted_runtime.cpp:484`): a request in between opens a second scope for an owner
  about to be deleted.
- A websocket's observer keeps the lease of its scope until the server ends
  (`http_server.cpp:2464`), so that such a scope is never evicted.
- The ledger of browser runs never frees a run (`browser_observation.cpp:394`), and a
  finalize request that saves late replaces a newer review (`http_server.cpp:1796`).
- `oidc_token_verifier.cpp:363` says "Known cached keys remain usable while the one
  allowed refresh is in flight". After a failed load, a kid whose key is past its lifetime is
  among the missing ones, and its bearers are refused for the cooldown, also while another
  refresh is in flight. Bearers are also refused in the first cooldown after the host has
  booted (the steady clock starts at 0), and a withdrawn key stays accepted as long as
  loads fail.

Chess:
- The full move number wraps at the width of its type (`board.cpp:488`), outside the two
  plies of the run.
- `from_fen` (`fen.cpp:38`) takes any en passant square and any rights, whatever stands on
  the squares they are about. If a piece stands on the en passant square, the pawn that
  "captures en passant" there replaces that piece, and taking the move back does not bring
  it back; a right without king and rook at home is written out again by `to_fen`. The
  attempt to prove `UndoRestores` and `RightsAreEarned` for every FEN showed this, and TLC
  confirms it; the scenarios of the run have no such FEN.

## 6. Proofs

Each theorem holds for every value of the constants that the `ASSUME` of its module
allows. These assumptions say what the code has: finitely many workers, games, users and
URLs, limits that are natural numbers and positive where the code divides by them or would
refuse everything, distinct kinds of ids. The bounds of TLC (`MaxJobs`, `MaxCalls`,
`MaxFaults`, `MaxTime`) are arbitrary in the theorems. In each proof every action of
`Next` has a step of its own, and the queue and set lemmas it cites come first.

| Module | Theorems |
|---|---|
| `JobManagerProofs` | `TypeCorrect`, `Exclusion`, `NothingStranded`, `CountsAreExact`, `AnalyzesOnce`, `LifecycleImplemented`, `InteractiveFirst`, `OvershootBounded` |
| `PoolAndLogProofs` | of the engine pool: `AnsweredExactlyOnce`, `WakeupsSuffice`; of the event log: `WatermarkAlwaysSplits`, `CompactionAlwaysKeeps`, `AlwaysDurable` |
| `ArchiveSyncProofs` | `CheckpointsKeep`, `CancellationHolds` |
| `ImportResolverProofs` | `DeduplicationIsLive` |
| `HostedIdentityProofs` | of the tables: `BearersStayDead`, `GuestClaimedOnce`, `FreeAnalysisIsOne`, `GamesWithinLimit`; of the keys: `LoadsSpaced`, `AnswersBacked` |
| `HttpServerProofs` | `CallbacksEndHolds`, `OneScopeAtWorkHolds`, `NoMissedUpdateHolds` |
| `AnalyzerProofs` | `CacheIsExactHolds`, `MistakesAreWorstHolds` |
| `BrowserReviewProofs` | of the board: `ChecksAlwaysAgree`, `SanIsUnambiguous`, `MovesAreUndone`, `RightsAlwaysEarned`; of the review: `AcknowledgedAlwaysStays`, `ReviewsAreWhole` |

### The job manager

**`TypeCorrect`**: `Spec => []TypeOK`, with every fault. `TypeOK` is not inductive: a
worker writes `jobs[task[w].job]` and records `outcome[w]`, so the invariant `TypeInv`
adds that a worker that is not idle works for a job that exists (`KnowsJob`), that a
worker about to record holds a status (`RecordsStatus`), and that no worker is at work in
a process that is down (`DownIsEmpty`), which lets `Boot` forget the jobs.

**`Exclusion`**: `"record" \notin Faults` implies `Spec => []ExclusiveAnalysis`. Two
workers analyse the same game either for the same job or for two live jobs of one game.
`ExecInv` rules out both: a job that is executed is `running` and has one executor, a job
with a task in a queue is not executed and waits as `queued` or was cancelled, a job has
at most one task in the queues, and a game has at most one live job. The assumption is
needed: `record_job_state` that throws inside the `try` of a worker after the deep task
was queued marks the job failed with its task still queued, which breaks `ExecInv`.

**`NothingStranded`** holds with every fault. A queue loses a task only to the worker
that takes it (`TailKeeps`, `MoveKeeps` and `AppendKeeps` say what else stays), and a
worker leaves its task either decided, or queued again in the critical section that makes
the job `queued`. A failing write can at worst decide a job whose task is still queued,
which strands nothing.

**`CountsAreExact`** holds with every fault. The code counts a worker under the priority
of its task, and a requeue changes that priority; the counters stay exact because each
queue holds only tasks of its own priority (`QueuesSorted`), so that what is counted when
a task is taken is what is subtracted at the end.

**`AnalyzesOnce`** assumes `"record" \notin Faults`, or one worker, where exclusion is
plain. Only `start` and the worker itself ask whether a game is complete; the read of
`start` is stale, and the one that counts is the worker's (`Found`), after which nobody
else can save the game, by `Exclusion`.

**`LifecycleImplemented`** (`"record" \notin Faults`) is the refinement of
`JobLifecycle`, `Spec => Lifecycle!Spec`: each critical section is a step of one job, the
creation of several, the end of the process, or a stutter. It needs `Inv` (one live job
per game, one executor per job, hence `RunningFew`: no more running jobs than workers),
`NoStrandedJob`, and that a worker which says complete speaks of a saved analysis
(`SavedKnown`). With failing writes the refinement does not hold, for the reason given
under `Exclusion`: a failed job with a queued task may run.

**`OvershootBounded`** (`"record" \notin Faults`): `start` refuses what would exceed
`max_queued`, but a worker requeues without asking. The queues hold at most
`MaxQueued + |Workers|` tasks, because the queued tasks together with the executions in
progress do (`Room`): the room a requeued task needs is the execution it ends. It is not a
property of a run, since the bound speaks for every size at once.

**`InteractiveFirst`** (`"record" \notin Faults`; the property itself speaks of one
worker): from `Room`, exact agreement of the active entries with the tasks, and `Told`,
which extends the property to the worker that has taken its task and not yet begun. `Room`
enters where one would not expect it: a start that is refused for lack of room promotes the
job it found all the same, without the preemption that would stop the analysis under way
(`RejectExisting`); while the one worker is at work there is room, so that this never
happens then.

### The engine pool

**`AnsweredExactlyOnce`**: a call that waits has its work in exactly one place, a queue,
a worker's hands or the list the destructor fails, and once answered in none
(`OnePlace`). No work is twice in a queue or in two hands, hands are empty where the code
holds nothing, and the pending works stay within the limit because `active` counts
exactly the workers between `take` and the end of their work.

**`WakeupsSuffice`**: `NoLostWakeup` counts as on their way threads that will finish, and
is not inductive, because finishing can make a further historical work servable.
`WakeupInv` counts only the workers that look at the queues or notify and the callers that
notify, and bounds the works that could be served by them while anybody sleeps.

### The ingest manager

**`CheckpointsKeep`**: while a month is imported and indexed, what it owes is in the
repository and in the archive, or still to do, and a game still to be indexed is added already
(`MonthKept`); that stays true because a window ends in the past
(`Past`), so that a page shows no new games of it. **`CancellationHolds`** is the action
property `CancelledStays`: every write of a status outside `cancel_sync` is guarded by a
fresh look at the sync with that id, and ids are never used twice, so the sync looked at
is the sync cancelled.

**`DeduplicationIsLive`**: an entry of `active_canonical_resolutions_` points to a known
and undecided resolution. The worker clears the entry of the URL it was given, which is
that of its resolution as long as that is known (`WorkerAgrees`); trimming removes only
what has ended, and ids are never used twice.

### Identity and keys

The four theorems of the tables rest on `Base`: a row is locked by one transaction at a
time (`Exclusive`), and a claim or a deletion works for an account (`Actors`). Each then
names what its transactions know between two of their statements: `Ensurer` and `Deleter`
(the account found is still that of the subject while its row is locked, and no deletion
on record is as late as the bearer; of an account not found, no deletion that was on
record when the receipts were read), `Claimer` with `ReceiptsTrue` (who claimed the
session is as read, and a receipt names who did), `RunsPermitted` with `PermitsReserved`
(every run of a guest goes back to the one game it reserved), `Importer` (after counting
under the advisory lock there is still room). `BearersStayDead` is `OldBearersStayDead`
and no more: `BugBearer` shows that the comment's promise does not hold of an account that
is made or met after the receipts were read. `GamesWithinLimit` is about guests, as its
property is.

**`LoadsSpaced`** and **`AnswersBacked`** rest on what the times in the cache stand for:
`lastAttempt` is the beginning of the newest load, but right after the first load that
ever worked, which resets it (`AttemptsKept`); the times of missing kids are ends of
loads (`Past`); one request loads at a time (`OneLoad`).

### The server, its runtime and its observers

The three theorems hold for any finite number of client threads and scope numbers, any
owners, any `max_owner_resources` and any number of requests, and with the server's end at
any point. `RuntimeConstants` and `ServerConstants` only keep the names of threads, scopes
and the server apart. Each rests on `ServerInv`: what a client thread knows where it
stands, above all that it holds a lease on the scope it works with (`ThreadKnows`), that a
subscribed scope is leased by the server for good (`SubscribedPinned`), that a number
without a scope has neither leases nor work (`UnbornRests`), and that a job fits what its
worker does (`JobFits`).

**`CallbacksEndHolds`**: `observer_calls_` is exactly the number of notifications of the
manager that are not over (`CallsExact`), and whoever still observes or is called belongs
to a manager the server knows of (`WatchedKnown`, `CallersKnown`). The destructor removes
itself from each of them and waits there for the count to reach zero; so the last of
these waits is also the end of the last callback (`EndsSilent`).

**`OneScopeAtWorkHolds`**: a scope with a lease or a pending job is in the registry
unless its owner's rows are gone or the deletion of the account is between the registry
and the rows (`OneScope`). An eviction takes only what `Idle` allows, and a second scope
of an owner is only opened when the registry has none. The exception is real: a request
that arrives between these two steps of `delete_account` opens a second scope (section 5).

**`NoMissedUpdateHolds`** is not inductive in several ways. `Told` says for every
websocket that reads its snapshot or has read it that the view of its job is known to it
or on its way (`Coming`): with the worker that has not reported, with the thread that has
started the job and not told so, or with a notification that still has to call the server
or whose copied list holds this client under its present number (`Carries`). A list copied
before the client entered it holds news that the snapshot, which is read later, shows as
well; that is where the order subscribe, enlist, read is needed.

### The engine session and the cache

**`CacheIsExactHolds`**: no line names the position it is about, so what the client takes
for an answer is one only if nothing of an earlier search is left in the pipes. `Between`
says so for every place of a call: before a "go" is written, and again once its `bestmove`
was read, the pipes are `Calm` (no output, no search, at most the stop that came too late
for its search); while the client reads or drains they serve the one search it asked for,
with `bestmove` as its last line (`Serves`); and the two questions of `start()` are each
answered before anything else is asked (`Uci`, `Isready`). A session that throws stops its
process first, and one without a process has empty pipes (`Quiet`). Hence the lines and
the move of an answer are of the question of the task (`Asking`), which does not change
while it is asked. `CacheOK` adds what the queue of the cache needs: it holds each key
once, within the limit, so that evicting its head removes exactly one answer. The
invariant was checked with TLC on the instance of `Engine` before it was proved.

**`MistakesAreWorstHolds`** has two halves. The first is about the two sorts by loss, of
`select_mistakes` and of each half of the candidates (`CandidatesAre`): the rank of a
candidate is the number of candidates that precede it (greater loss, or as much and
earlier in the game), so the ranks of n candidates are 0 to n - 1, each taken once, and
the sorted sequence names each candidate once with no loss before a greater one
(`RanksAre`, `FirstAreWorst`). This needs the losses to be numbers, and an answer that
came from the cache has one because `CacheOK` says it is an answer of its own question.
The second half is the course of a review, `TaskIs` and `ReviewIs`: the answers a task has
got are of the questions it asked, in their order, no move is known at full depth before
the deep look, and the deep look asks about the worst of the scan, which is where the
mistakes are taken from.

### The event log

**`WatermarkAlwaysSplits`**: `StoreSpec => []WatermarkSplits`, for any games, plans and
bounds and for every fault, also the torn appends that the run leaves out because they
break `Durable`. It has two halves.

The first is about the file alone, whatever it ends with. `AppendedFrom`: after the first
cells of some records are appended, what replay reads from any place is what it read from
there before, followed by some of the appended records in their order. No magic lies
between the end of the file and the first cell appended (`FindMagicFacts`), no record
lies in both parts (a fragment in front of the append may swallow appended records, but
never makes one up), and a record that is read only now begins in what was appended.
Compaction keeps some of the records in their order (`RetainedDrawn`), and what recovery
cuts off was not read (`Recovers`). Replay is a recursive function on the places of the
file; that there is one, and what it reads, is shown by the least or the greatest place
where it would fail (`ScanIs`, `LeastOfNats`).

The second half is the invariant `StoreInv`: the records that a start would read have ids
that do not decrease, and each marker a watermark below its own id and not below the ids
before it (`Split`); while the process is up these ids are at most `nextId`, and the
projection has noted smaller ones only. Ids may be equal: a record whose fsync failed, or
a compaction that failed after the new file was in place, has used up an id that is not
counted. Nevertheless the watermark divides, since `create_snapshot` refuses to begin
unless the last record in the file is the one noted last (`MarkerSound`). The invariant was
checked with TLC on the instance of `Store` before it was proved.

**`CompactionAlwaysKeeps`**: `StoreSpec => []CompactionKeeps`, for every fault. A start
applies records one by one, and each touches one key (`ApplyingAt`), so that every key is
followed on its own. `KeepInv` says that every record fits its key (`Fits`) and every
marker has a snapshot of its path and watermark (`Backs`), that no two snapshots have one
path, and that drills are drills (`Shaped`). From a dropped record on, the run that
applied it and the run that did not are `Near`: for a game, both know it and neither shows
it analysed; for a drill, made alike with the same attempts and at most another session;
for a job or a variation, anything. Every record keeps that, and the record that replaces
the dropped one (`Closers`) makes them equal. That the start begins alike is a matter of the
markers: compaction keeps the last one, which has the greatest watermark because no marker
has a watermark below the ids before it (`StartsThere`), so that the same snapshot is
selected with the same watermark.

**`AlwaysDurable`**: `StoreSpec => []Durable` for any games, plans and bounds, under
crashes at any byte, refused appends and failed fsyncs. Its assumption excludes only the
torn append, with which `Durable` is false. `DurableInv` has three parts. The file is
the beginning of whole records, and all of them while the process is up (`WholeInv`), so
that what a call appends is read as it was written and the fragment of a crash is cut
off by the start. What a start would show is one of the `possible` values of each key,
and so is what the projection in memory shows; they differ after an fsync that failed,
whose record is in the file and not in the projection. A call continues both: its
records have ids above every watermark (`Split`), so a start skips none of them and
shows what it showed before with these records applied (`Continued`), which is how
`possible` moves. With the marker of a new snapshot a start shows the projection: the
watermark covers every record in the file (`MaySnapshot`), the view in the snapshot is
the projection, and variations, which are not in it, are replayed from their first
record (`SnapshotView`). Compaction is `CompactionAlwaysKeeps`.

### The board and the review in the browser

Board and review share only the `verdicts`, so that each half has an invariant of its own.

**`ChecksAlwaysAgree`** holds of every board, also of those no game leads to: an attack is
a move seen from the other end (`AttackIsMove`, `MoveIsAttack`). A leap goes back by the
opposite offset, and two pieces see each other along a ray from both ends
(`SeenFromBothEnds`), since the steps to the first piece are the same either way. The
invariant `BoardIsOne` says that the board is one, with pieces on squares only.

**`SanIsUnambiguous`**: two legal moves with the same SAN, both normalised as `parse_pgn`
does, are one move. The text names the piece, the target, the promotion and, among the
candidates for the same target, a file, a rank or both; a pawn that takes names its file,
one that does not has come along it. Castling is written by its side alone, which is why
the kings' home squares matter: two castlings of one side are one move.

**`MovesAreUndone`** goes through the order in which `unmake_move` puts pieces back, for
an ordinary move, a promotion, an en passant capture and castling. It assumes that nothing
stands on the en passant square of a scenario's FEN. **`RightsAlwaysEarned`** assumes that
the rights of a scenario's FEN match king and rook; the invariant adds that no ply has
touched the squares of a right that is left. Neither follows from what `from_fen` checks
(section 5); every later position has both by itself (`PassedOver`, `MadeLawful`), and the
scenarios of the run satisfy both (`ScenesAreLawful`).

**`AcknowledgedAlwaysStays`** and **`ReviewsAreWhole`** rest on `ReviewInv`, for any tabs,
lines, limits and restarts. Requests are served late, twice and in any order, so what a
run holds cannot be tied to what a tab asked last; but a tab has sent only one observation
for each sequence number, and the next one only after the acknowledgement of the last
(`TabsAre`, `RequestsAre`), and every observation of a run is number i of one of its tabs
(`RunsAre`). A run gains observations until it has all it expects and then never changes
(`RunsGrow`), so that the bundle of a finalize handler that has stopped between its steps
is still the run when it saves (`HandlersAre`, `Reviewed`). That a review says something
of each position is the pigeonhole principle: there are as many observations as positions,
and `analysis_from_browser` refuses two for one position.

To be proved about, `ChessBoard`, `ChessNotation` and `Analyzer` are written without
`CASE`, `FoldSet`, `:>`, `@@` and the library's sorts, which the provers cannot expand;
castling is one record of squares for each of the four.

### What is only model-checked

- Liveness and ENABLED: `JobsAreDecided`, `ShutdownEnds`, `InteractiveReturns`,
  `DestructorReturns`, `SyncsEnd`, `ResolutionsEnd`, `ReviewsEnd`, `ServerStops`; no
  installed prover handles fairness.
- `Durable` with torn appends, where it is false (section 5): `AlwaysDurable` assumes
  `"torn" \notin Faults`, as the run does.

## 7. Not modelled

- JSON and support: parsing and printing without shared state.
- Command line and `main`: wiring and wording. What the modules need of it is in them:
  `EventStore` opens the log as `main` does, `HttpServer` has its default observer and the
  order of destruction.
- The web client beyond `browser-review.ts`: the engine worker and the refresh of a
  session are small state machines of their own, the views are layout.
- Migrations, deployment, scripts and benchmarks: schema and tooling.
- Of modelled components: the wording of errors, the characters of URLs, PGN, FEN and
  JSON, the rate limits, quotas and websocket tickets of the server, cryptography and the
  claims of a token, categories and explanations of mistakes, the review schedule and the
  corpus of drills, the export of an account, and the calls of the local repository that
  append one record of a kind of their own.
