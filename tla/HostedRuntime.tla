---------------------------- MODULE HostedRuntime ----------------------------
(***************************************************************************)
(* The registry of owner scopes of the hosted service,                     *)
(* src/src/service/hosted_runtime.cpp.  A scope is the repository, the job *)
(* manager and the ingest manager of one owner; requests and observers     *)
(* hold leases on it; when the registry is full the scope that was used    *)
(* longest ago and is idle makes room; the deletion of an account retires  *)
(* its scope and then removes the account's rows.                          *)
(*                                                                         *)
(* The job manager of a scope is cut down to one job of one game, its      *)
(* shallow and deep phase in one, and one worker; JobManager has the rest. *)
(* The rows of an owner are its right (require_owner), the game whose      *)
(* analysis is saved and the job that a new manager recovers;              *)
(* HostedIdentity has the transactions.                                    *)
(***************************************************************************)
EXTENDS Sequences, SequencesExt, JobObservers

CONSTANTS
    Owners, Accounts, MaxOwnerResources, \* max_owner_resources
    Scopes,  \* bound: numbers of the scopes alive at once
    Threads  \* client threads

ASSUME RuntimeConstants ==
    /\ IsFiniteSet(Scopes) /\ Scopes \subseteq Nat \ {0} /\ IsFiniteSet(Threads)
    /\ Accounts \subseteq Owners /\ None \notin Owners \cup Threads \cup Scopes
    /\ MaxOwnerResources \in Nat

VARIABLES
    rights,     \* the owners that require_owner lets pass
    analysed,   \* the owners whose game has its analysis in the database
    unfinished, \* the owners with a job that a new manager recovers
    registry,   \* resources: its scopes, the one used longest ago first
    scope,      \* the owner of each scope, and whether it is retired
    leases,     \* by scope: who holds a lease
    job,        \* by scope: the status of its job
    worker,     \* by scope: where its worker is
    mutex,      \* resources_mutex: the deletion that holds it over several steps, or None
    process     \* "running", or "terminated" by an exception that left a thread

databaseVars == <<rights, analysed, unfinished>>
scopeVars == <<registry, scope, leases, job, worker, mutex, process>>
runtimeVars == <<databaseVars, scopeVars, observerVars>>

Unused == [owner |-> None, retired |-> FALSE]

InitRuntime(watching) ==
    /\ InitObservers(watching)
    /\ rights = Owners /\ analysed = {} /\ unfinished = Accounts
    /\ registry = <<>>
    /\ scope = [s \in Scopes |-> Unused]
    /\ leases = [s \in Scopes |-> {}]
    /\ job = [s \in Scopes |-> "none"]
    /\ worker = [s \in Scopes |-> "idle"]
    /\ mutex = None /\ process = "running"

OwnerOf(s) == scope[s].owner
Registered(o) == {s \in Scopes : OwnerOf(s) = o /\ Contains(registry, s)}

-----------------------------------------------------------------------------
(* scope_for_owner.  The registry is locked all through.                    *)

WorkPending(s) == job[s] \in {"queued", "running", "cancelling"}
\* What observers and snapshots tell apart of it.
View(status) == IF status \in {"queued", "running", "cancelling"} THEN "pending" ELSE status
Shown(s) == View(job[s])
IsIdle_Leased(s) == ~scope[s].retired /\ ~WorkPending(s)                      \* mutant
IsIdle(s) == ~scope[s].retired /\ leases[s] = {} /\ ~WorkPending(s)
Idle == {i \in DOMAIN registry : IsIdle(registry[i])}
IsFull == Len(registry) >= MaxOwnerResources
Without(s) == RemoveAt(registry, CHOOSE i \in DOMAIN registry : registry[i] = s)

\* An idle scope whose time is over, the oldest of them, else the oldest idle one: the oldest.
Oldest == registry[CHOOSE i \in Idle : \A j \in Idle : i <= j]
Evicted == IF IsFull THEN {Oldest} ELSE {}
Remaining == IF IsFull THEN Without(Oldest) ELSE registry
HasRoom == IsFull => Idle # {}
Retire(gone) == [s \in Scopes |-> [scope[s] EXCEPT !.retired = @ \/ s \in gone]]

Reuse(h, s) ==
    /\ ~scope[s].retired
    /\ registry' = Append(Without(s), s)
    /\ leases' = [leases EXCEPT ![s] = @ \cup {h}]
    /\ UNCHANGED <<databaseVars, scope, job, worker, mutex, process, observerVars>>

\* The constructor of the job manager starts what it recovers; a game with its analysis is
\* complete at once.
Recovered(o) == IF o \notin unfinished THEN "none" ELSE IF o \in analysed THEN "complete" ELSE "queued"
Unborn == {s \in Scopes : scope[s] = Unused}
Fresh == CHOOSE s \in Unborn : \A r \in Unborn : s <= r

Open(h, o) ==
    /\ Registered(o) = {} /\ HasRoom /\ o \in rights /\ Unborn # {}
    /\ registry' = Append(Remaining, Fresh)
    /\ scope' = [Retire(Evicted) EXCEPT ![Fresh] = [owner |-> o, retired |-> FALSE]]
    /\ leases' = [leases EXCEPT ![Fresh] = {h}]
    /\ job' = [job EXCEPT ![Fresh] = Recovered(o)]
    /\ unfinished' = IF Recovered(o) = "complete" THEN unfinished \ {o} ELSE unfinished
    /\ UNCHANGED <<rights, analysed, worker, mutex, process, observerVars>>

\* A retired scope, no room, or an owner without its rows, for whom a scope may have been
\* evicted already.
Refuse(o) ==
    /\ \/ /\ \E s \in Registered(o) : scope[s].retired
          /\ UNCHANGED <<registry, scope>>
       \/ Registered(o) = {} /\ ~HasRoom /\ UNCHANGED <<registry, scope>>
       \/ /\ Registered(o) = {} /\ HasRoom /\ o \notin rights
          /\ registry' = Remaining /\ scope' = Retire(Evicted)
    /\ UNCHANGED <<databaseVars, leases, job, worker, mutex, process, observerVars>>

-----------------------------------------------------------------------------
(* The end of a scope: the last reference to it goes.                       *)

IsDying(s) == scope[s] # Unused /\ ~Contains(registry, s) /\ leases[s] = {}

\* ~JobManager has waited for the calls and joined the worker.
Destroy(s) ==
    /\ IsDying(s) /\ NoCallsLeft(s) /\ worker[s] = "idle" /\ notices[s] = Silent
    /\ scope' = [scope EXCEPT ![s] = Unused]
    /\ job' = [job EXCEPT ![s] = "none"]
    /\ UNCHANGED <<databaseVars, registry, leases, worker, mutex, process, observerVars>>

-----------------------------------------------------------------------------
(* The job manager of a scope.  record_job_state and save_analysis throw    *)
(* when the owner's rows are gone; outside a try block that ends the        *)
(* process.                                                                 *)

HasRight(s) == OwnerOf(s) \in rights
Recorded(s, status) ==
    unfinished' = IF status = "pending" THEN unfinished \cup {OwnerOf(s)}
                  ELSE unfinished \ {OwnerOf(s)}
RecordAndNotify(n, s, status) == HasRight(s) /\ Recorded(s, status) /\ Notify(n, s, status)

Terminate ==
    /\ process' = "terminated"
    /\ UNCHANGED <<databaseVars, registry, scope, leases, job, worker, mutex, observerVars>>

\* The worker gives the job its status, records it and tells the observers.
Take(s) ==
    /\ job[s] = "queued" /\ worker[s] = "idle" /\ ~IsDying(s)
    /\ \/ ~HasRight(s) /\ Terminate
       \/ /\ RecordAndNotify(s, s, "pending")
          /\ job' = [job EXCEPT ![s] = "running"] /\ worker' = [worker EXCEPT ![s] = "analysing"]
          /\ UNCHANGED <<rights, analysed, registry, scope, leases, mutex, process>>

Report(s) ==
    /\ worker[s] = "decided"
    /\ \/ ~HasRight(s) /\ Terminate
       \/ /\ RecordAndNotify(s, s, job[s])
          /\ worker' = [worker EXCEPT ![s] = "idle"]
          /\ UNCHANGED <<rights, analysed, registry, scope, leases, job, mutex, process>>

\* The analysis is saved, which completes the job's row, or it or the save fails.
Decide(s) ==
    /\ worker[s] = "analysing" /\ notices[s] = Silent
    /\ \/ /\ job[s] \in {"running", "cancelling"} /\ HasRight(s)
          /\ job' = [job EXCEPT ![s] = "complete"]
          /\ analysed' = analysed \cup {OwnerOf(s)} /\ unfinished' = unfinished \ {OwnerOf(s)}
       \/ /\ job[s] = "running"
          /\ job' = [job EXCEPT ![s] = "failed"] /\ UNCHANGED <<analysed, unfinished>>
       \/ /\ job[s] = "cancelling"
          /\ job' = [job EXCEPT ![s] = "cancelled"] /\ UNCHANGED <<analysed, unfinished>>
    /\ worker' = [worker EXCEPT ![s] = "decided"]
    /\ UNCHANGED <<rights, registry, scope, leases, mutex, process, observerVars>>

WorkerStep(s) == Take(s) \/ Decide(s) \/ Report(s)

\* JobManager::start by a request: a job that is there is the answer; a new one is recorded
\* after the lock is gone.
MayStart(s) == HasRight(s) /\ job[s] = "none"
Started(s) == IF OwnerOf(s) \in analysed THEN "complete" ELSE "queued"
Start(s) ==
    /\ MayStart(s) /\ job' = [job EXCEPT ![s] = Started(s)]
    /\ UNCHANGED <<databaseVars, registry, scope, leases, worker, mutex, process, observerVars>>
RecordStart(h, s, status) ==
    /\ RecordAndNotify(h, s, status)
    /\ UNCHANGED <<rights, analysed, registry, scope, leases, job, worker, mutex, process>>

Release(h) ==
    /\ leases' = [s \in Scopes |-> leases[s] \ {h}]
    /\ UNCHANGED <<databaseVars, registry, scope, job, worker, mutex, process, observerVars>>

-----------------------------------------------------------------------------
(* delete_account.  Retiring, cancelling and erasing are under the lock.    *)

\* A queued job is cancelled at once, a running one when its worker sees it.
CancelJob(h, s) ==
    LET status == IF job[s] = "queued" THEN "cancelled" ELSE "cancelling"
    IN /\ WorkPending(s)
       /\ RecordAndNotify(h, s, IF status = "cancelled" THEN status ELSE "pending")
       /\ job' = [job EXCEPT ![s] = status]

RetireScope(h, s) ==
    /\ scope' = Retire({s}) /\ mutex' = h
    /\ \/ CancelJob(h, s)
       \/ ~WorkPending(s) /\ UNCHANGED <<unfinished, job, observerVars>>
    /\ UNCHANGED <<rights, analysed, registry, leases, worker, process>>

\* The rows went in another request: the exception leaves the retired scope where it is.
RetireThrows(s) ==
    /\ ~HasRight(s) /\ WorkPending(s)
    /\ scope' = Retire({s})
    /\ job' = [job EXCEPT ![s] = IF @ = "queued" THEN "cancelled" ELSE "cancelling"]
    /\ UNCHANGED <<databaseVars, registry, leases, worker, mutex, process, observerVars>>

EraseScope(s) ==
    /\ registry' = Without(s)
    /\ mutex' = None
    /\ UNCHANGED <<databaseVars, scope, leases, job, worker, process, observerVars>>

DeleteRows(o) ==
    /\ rights' = rights \ {o} /\ analysed' = analysed \ {o} /\ unfinished' = unfinished \ {o}
    /\ UNCHANGED <<scopeVars, observerVars>>
=============================================================================
