----------------------------- MODULE HttpServer -----------------------------
(***************************************************************************)
(* The HTTP server over the hosted runtime, src/src/service/               *)
(* http_server.cpp: the accept loop and its client threads, requests that  *)
(* start an analysis or delete an account, websockets that watch the jobs  *)
(* of their owner, the callbacks that tell them, stop and the destructor.  *)
(*                                                                         *)
(* A client thread serves one request.  A request that changes nothing     *)
(* here is a "start" that finds its job.  Every client thread is a number, *)
(* so is every scope, so that a new one is the least that is free.         *)
(***************************************************************************)
EXTENDS HostedRuntime

CONSTANTS
    Server,      \* the callback of the server, and the holder of what its observers pin
    MaxRequests  \* bound: requests that are accepted

\* The job manager of the process itself, which observers watch but no hosted request uses.
Default == 0

ASSUME ServerConstants ==
    /\ Threads \subseteq Nat \ {0} /\ Threads \cap Scopes = {}
    /\ Managers = {Default} \cup Scopes /\ Notifiers = Managers \cup Threads
    /\ Server \notin Threads \cup {None} /\ None # Default /\ MaxRequests \in Nat

VARIABLES
    server,     \* how far the server is on its way to its end
    threads,    \* the client threads
    clients,    \* the websocket client of each thread
    targets,    \* by notifying thread: the clients that its callback sends to
    subscribed, \* scoped_observers_
    requests

serverVars == <<server, threads, clients, targets, subscribed, requests>>
vars == <<runtimeVars, serverVars>>

NoThread == [kind |-> "none", pc |-> "idle", owner |-> None, scope |-> None, seen |-> None]
NoClient == [id |-> 0, state |-> "none", listed |-> FALSE, owner |-> None, heard |-> {}]

Init ==
    /\ InitRuntime([m \in Managers |-> IF m = Default THEN {Server} ELSE {}])
    /\ server = "up"
    /\ threads = [t \in Threads |-> NoThread]
    /\ clients = [t \in Threads |-> NoClient]
    /\ targets = [n \in Notifiers |-> {}]
    /\ subscribed = {} /\ requests = 0

-----------------------------------------------------------------------------
(* Client threads.                                                          *)

IsUp == process = "running"
At(t, pc) == IsUp /\ threads[t].pc = pc
Goto(t, pc) == threads' = [threads EXCEPT ![t].pc = pc]
OnlyThreads == UNCHANGED <<server, clients, targets, subscribed, requests>>
ThreadOnly == UNCHANGED runtimeVars /\ OnlyThreads

\* The listener stays open until stop has closed it; max_active_client_threads_ is the number
\* of threads, and more are turned away.
Accept(t) ==
    /\ server \in {"up", "flagged"} /\ requests < MaxRequests
    /\ At(t, "idle") /\ \A u \in Threads : At(u, "idle") => t <= u
    /\ \E kind \in {"start", "socket", "delete"}, o \in Owners :
           /\ kind = "delete" => o \in Accounts
           /\ threads' = [threads EXCEPT ![t] = [NoThread EXCEPT !.kind = kind, !.owner = o,
                                                                 !.pc = "resolve"]]
    /\ requests' = requests + 1
    /\ UNCHANGED <<runtimeVars, server, clients, targets, subscribed>>

\* The token or the ticket names no owner any more.
Denied(t) == threads[t].owner \notin rights /\ UNCHANGED runtimeVars

Serve(t, s) == threads' = [threads EXCEPT ![t].scope = s,
    ![t].pc = CASE threads[t].kind = "start" -> "start" [] threads[t].kind = "socket" -> "subscribe"
                [] threads[t].kind = "delete" -> "retire"]

Resolve(t) ==
    /\ At(t, "resolve") /\ mutex = None
    /\ \/ \E s \in Registered(threads[t].owner) : Reuse(t, s) /\ Serve(t, s)
       \/ Open(t, threads[t].owner) /\ Serve(t, Fresh)
       \/ (Denied(t) \/ Refuse(threads[t].owner)) /\ Goto(t, "done")
    /\ OnlyThreads

StartJob(t) ==
    LET s == threads[t].scope
    IN /\ At(t, "start")
       /\ \/ Start(s) /\ threads' = [threads EXCEPT ![t].pc = "started", ![t].seen = View(Started(s))]
          \/ ~MayStart(s) /\ Goto(t, "done") /\ UNCHANGED runtimeVars
       /\ OnlyThreads

TellStart(t) ==
    LET s == threads[t].scope
    IN /\ At(t, "started") /\ Goto(t, "done")
       /\ \/ RecordStart(t, s, threads[t].seen)
          \/ ~HasRight(s) /\ UNCHANGED runtimeVars
       /\ OnlyThreads

\* The connection is closed and the thread ends.
Finish(t) ==
    /\ At(t, "done") /\ notices[t] = Silent
    /\ Release(t)
    /\ threads' = [threads EXCEPT ![t] = NoThread]
    /\ clients' = [clients EXCEPT ![t] = NoClient]
    /\ UNCHANGED <<server, targets, subscribed, requests>>

-----------------------------------------------------------------------------
(* The deletion of an account.                                              *)

BeginDelete(t) ==
    LET mine == Registered(threads[t].owner)
    IN /\ At(t, "retire") /\ mutex = None
       /\ \/ \E s \in mine : RetireScope(t, s) /\ threads' = [threads EXCEPT ![t].pc = "erase",
                                                                             ![t].scope = s]
          \/ \E s \in mine : RetireThrows(s) /\ Goto(t, "done")
          \/ mine = {} /\ Goto(t, "rows") /\ UNCHANGED runtimeVars
       /\ OnlyThreads

Erase(t) ==
    /\ At(t, "erase") /\ notices[t] = Silent
    /\ EraseScope(threads[t].scope) /\ Goto(t, "rows") /\ OnlyThreads

Rows(t) ==
    /\ At(t, "rows")
    /\ DeleteRows(threads[t].owner) /\ Goto(t, "done") /\ OnlyThreads

-----------------------------------------------------------------------------
(* Websockets.                                                              *)

\* The first websocket of a scope leaves its lease with the observer; the lease of a later
\* one ends here.
Subscribe(t) ==
    LET s == threads[t].scope
    IN /\ At(t, "subscribe") /\ Goto(t, "enlist")
       /\ IF s \in subscribed
          THEN Release(t) /\ UNCHANGED subscribed
          ELSE /\ subscribed' = subscribed \cup {s}
               /\ AddObserver(s, Server)
               /\ leases' = [leases EXCEPT ![s] = (@ \ {t}) \cup {Server}]
               /\ UNCHANGED <<databaseVars, registry, scope, job, worker, mutex, process>>
       /\ UNCHANGED <<server, clients, targets, requests>>

Enlist(t) ==
    /\ At(t, "enlist") /\ Goto(t, "list")
    /\ clients' = [clients EXCEPT ![t] = [id |-> requests, state |-> "open", listed |-> TRUE,
                                          owner |-> threads[t].owner, heard |-> {}]]
    /\ UNCHANGED <<runtimeVars, server, targets, subscribed, requests>>

ListJobs(t) ==
    /\ At(t, "list")
    /\ threads' = [threads EXCEPT ![t].pc = "snapshot", ![t].seen = Shown(threads[t].scope)]
    /\ ThreadOnly

\* send_websocket_frame; retire_websocket_client; remove_websocket_client.  A peer that does
\* not take a frame in time is a peer that closes.
IsOpen(client) == client.state = "open"
Heard(client, status) == [client EXCEPT !.heard = @ \cup ({status} \ {"pending"})]
Retired(client) == IF IsOpen(client) THEN [client EXCEPT !.state = "retired"] ELSE client
Removed(client) == [Retired(client) EXCEPT !.listed = FALSE]
Sent(client, status) == IF IsOpen(client) THEN Heard(client, status) ELSE Removed(client)

SendSnapshot(t) ==
    /\ At(t, "snapshot") /\ Goto(t, IF IsOpen(clients[t]) THEN "loop" ELSE "done")
    /\ clients' = [clients EXCEPT ![t] = Sent(@, threads[t].seen)]
    /\ UNCHANGED <<runtimeVars, server, targets, subscribed, requests>>

\* stopped_, a client that is retired, or a peer that closes end the loop.
MustLeave_Retired(t) == clients[t].state = "retired"                         \* mutant
MustLeave(t) == server # "up" \/ clients[t].state = "retired"
LeaveLoop(t) ==
    /\ At(t, "loop") /\ clients' = [clients EXCEPT ![t] = Removed(@)] /\ Goto(t, "done")
    /\ UNCHANGED <<runtimeVars, server, targets, subscribed, requests>>
PeerCloses(t) == ~MustLeave(t) /\ LeaveLoop(t)
LoopEnds(t) == MustLeave(t) /\ LeaveLoop(t)

-----------------------------------------------------------------------------
(* The callbacks of the server: broadcast_to_owner, and broadcast, which    *)
(* does nothing where requests have owners.                                 *)

Targets_Settled(o) == {t \in Threads : clients[t].listed /\ clients[t].owner = o /\ At(t, "loop")} \* mutant
Targets(o) == {t \in Threads : clients[t].listed /\ clients[t].owner = o}

Broadcast(n) ==
    /\ IsUp /\ Enter(n)
    /\ targets' = [targets EXCEPT ![n] = IF notices[n].of = Default THEN {}
                      ELSE {[to |-> t, id |-> clients[t].id] : t \in Targets(OwnerOf(notices[n].of))}]
    /\ UNCHANGED <<databaseVars, scopeVars, server, threads, clients, subscribed, requests>>

\* A client of the list may have gone since, and its thread may serve another.
EndCallback(n) ==
    /\ IsUp /\ Leave(n)
    /\ clients' = [t \in Threads |-> IF [to |-> t, id |-> clients[t].id] \in targets[n]
                                     THEN Sent(clients[t], notices[n].what) ELSE clients[t]]
    /\ targets' = [targets EXCEPT ![n] = {}]
    /\ UNCHANGED <<databaseVars, scopeVars, server, threads, subscribed, requests>>

\* The job manager of the process has a job of its own to tell of.  It matters to the end of
\* the server only.
DefaultJob ==
    /\ IsUp /\ server \in {"stopped", "unobserved", "gone"} /\ requests < MaxRequests
    /\ Notify(Default, Default, "pending") /\ requests' = requests + 1
    /\ UNCHANGED <<databaseVars, scopeVars, server, threads, clients, targets, subscribed>>

-----------------------------------------------------------------------------
(* stop and the destructor.                                                 *)

StopAt(before, after) == IsUp /\ server = before /\ server' = after
StopOnly == UNCHANGED <<threads, clients, targets, subscribed, requests>>

Stop == StopAt("up", "flagged") /\ UNCHANGED runtimeVars /\ StopOnly

\* The listener is closed and the clients of the list are retired.  One step: a client that
\* comes into the list after it was copied is in the list after this step, and a frame that
\* is sent to one before its turn could have been sent before the step.
RetireAll ==
    /\ StopAt("flagged", "stopped")
    /\ clients' = [t \in Threads |-> IF clients[t].listed THEN Retired(clients[t]) ELSE clients[t]]
    /\ UNCHANGED <<runtimeVars, threads, targets, subscribed, requests>>

\* active_client_threads_ is zero; set_observer({}) on the process's own manager.  (The same
\* call on the ingest manager, which is not in this module, follows.)
Unobserve ==
    /\ StopAt("stopped", "unobserved") /\ \A t \in Threads : At(t, "idle")
    /\ EraseObserver(Default, Server) /\ UNCHANGED <<databaseVars, scopeVars>> /\ StopOnly

EraseNext ==
    /\ IsUp /\ server = "unobserved" /\ NoCallsLeft(Default)
    /\ \E s \in subscribed : Server \in observers[s] /\ EraseObserver(s, Server)
                             /\ \A r \in subscribed : Server \in observers[r] => s <= r
    /\ \A s \in subscribed : Server \notin observers[s] => NoCallsLeft(s)
    /\ UNCHANGED <<databaseVars, scopeVars, serverVars>>

Gone ==
    /\ StopAt("unobserved", "gone") /\ NoCallsLeft(Default)
    /\ \A s \in subscribed : Server \notin observers[s] /\ NoCallsLeft(s)
    /\ subscribed' = {} /\ Release(Server)
    /\ UNCHANGED <<threads, clients, targets, requests>>

-----------------------------------------------------------------------------
SocketStep(t) == Subscribe(t) \/ Enlist(t) \/ ListJobs(t) \/ SendSnapshot(t) \/ LoopEnds(t)
DeleteStep(t) == BeginDelete(t) \/ Erase(t) \/ Rows(t)
ThreadStep(t) ==
    Resolve(t) \/ StartJob(t) \/ TellStart(t) \/ SocketStep(t)
    \/ DeleteStep(t) \/ Finish(t)
CallbackStep(n) == Broadcast(n) \/ EndCallback(n)
ScopeStep(s) == IsUp /\ UNCHANGED serverVars /\ (WorkerStep(s) \/ Destroy(s))
EndStep == RetireAll \/ Unobserve \/ EraseNext \/ Gone
Ended == ~IsUp \/ server = "gone"

Next ==
    \/ \E t \in Threads : Accept(t) \/ ThreadStep(t) \/ PeerCloses(t)
    \/ \E n \in Notifiers : CallbackStep(n)
    \/ \E s \in Scopes : ScopeStep(s)
    \/ DefaultJob \/ Stop \/ EndStep
    \/ Ended /\ UNCHANGED vars

Fairness ==
    /\ \A t \in Threads : WF_vars(ThreadStep(t))
    /\ \A n \in Notifiers : WF_vars(CallbackStep(n))
    /\ \A s \in Scopes : WF_vars(ScopeStep(s))
    /\ WF_vars(EndStep)
Spec == Init /\ [][Next]_vars /\ Fairness
-----------------------------------------------------------------------------
(* Properties.                                                              *)

\* Once the server is destroyed none of its callbacks runs or is about to, although the
\* scopes and their workers live on (http_server.cpp:2002).
CallbacksEnd ==
    server = "gone" => \A n \in Notifiers : notices[n].in # Server /\ Server \notin notices[n].left

\* A websocket is told every status its job has come to rest in, by the snapshot or by an
\* update: none falls between the subscription, the list and the job's last notification.
Settled(s) ==
    /\ worker[s] = "idle" /\ \A u \in Threads : ~At(u, "started")
    /\ \A n \in Notifiers : notices[n].of # s
NoMissedUpdate ==
    \A t \in Threads :
        At(t, "loop") /\ clients[t].listed /\ Settled(threads[t].scope) /\ HasRight(threads[t].scope)
        => Shown(threads[t].scope) \in clients[t].heard \cup {"pending"}

\* All who work for an owner, requests, observers and jobs, share the registered scope,
\* whatever was evicted and opened again; only a deletion takes it from under them.
Deleting(o) == o \notin rights \/ \E t \in Threads : /\ threads[t].kind = "delete"
                                                     /\ threads[t].owner = o
                                                     /\ threads[t].pc \in {"rows", "done"}
OneScopeAtWork ==
    \A s \in Scopes : (leases[s] # {} \/ WorkPending(s)) /\ ~Deleting(OwnerOf(s))
                      => Contains(registry, s)

\* Once stop is called the server comes to its end, whatever its clients and jobs do, or
\* the process has ended before it.
ServerStops == server = "flagged" ~> Ended

\* The deletion of an account does not end the process: what is in flight stays safe while
\* cancellation drains (hosted_runtime.cpp:487).
WorkersSurvive == process = "running"
=============================================================================
