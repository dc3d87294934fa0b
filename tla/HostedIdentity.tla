--------------------------- MODULE HostedIdentity ---------------------------
(***************************************************************************)
(* The tables that the hosted service keeps in PostgreSQL and the          *)
(* transactions on them: HostedIdentityStore (accounts, deletion receipts, *)
(* guest sessions, the free analysis, claims) and PostgresRepository       *)
(* (imports, analysis runs, jobs and heads), both in                       *)
(* src/src/app/postgres_repository.cpp.  Several API processes share the   *)
(* database; a process has one connection for identities and one for each  *)
(* repository, and a connection runs one transaction at a time.            *)
(*                                                                         *)
(* A transaction is a few steps: it takes a row lock (FOR UPDATE) or reads *)
(* what it has not locked, and writes and commits in its last step.  The   *)
(* isolation is READ COMMITTED: each step sees what is committed then.     *)
(* Waiting for the first lock holds nothing, so it is a disabled start.    *)
(*                                                                         *)
(* Time passes with deletions: a bearer is issued in the span before the   *)
(* next one.  A game has one source, the row of the game itself (games)    *)
(* and what hangs on a run (positions, assessments, reviews) are left out. *)
(***************************************************************************)
EXTENDS Integers, FiniteSets, Functions

CONSTANTS Subjects, AccountIds, Guests, Games,
          Keys,         \* idempotency keys of requests
          Identities,   \* connections of HostedIdentityStore
          Repositories, \* connections of PostgresRepository
          StorageLimit, \* hosted_game_storage_limit
          MaxCalls,     \* bound: transactions begun
          None

ASSUME HostedConstants ==
    /\ StorageLimit \in Nat /\ MaxCalls \in Nat /\ IsFiniteSet(Games)
    /\ None \notin AccountIds \cup Games \cup Guests
    /\ AccountIds \cap Guests = {} /\ Identities \cap Repositories = {}

VARIABLES
    accounts,  \* the account of each subject, or None
    born,      \* the account ids ever drawn
    receipts,  \* account_deletion_receipts
    expired,   \* those past their thirty days, which stay until a sign-in deletes them
    sessions,  \* guest_sessions: their state and who claimed them
    records,   \* idempotency_records of claims
    reserved,  \* guest_analysis_reservations
    owned,     \* game_owners: pairs of owner and game
    runs,      \* analysis_runs: the status of each
    jobs,      \* analysis_jobs: the status of each, by its run
    heads,     \* analysis_heads: the run of an owner's game, by compatibility key
    tx,        \* the transaction of each connection
    permits,   \* analyses that the request handlers were allowed
    claims,    \* the receipts of claims that were returned
    clock,     \* deletions so far
    calls

identityVars == <<accounts, born, receipts, expired, sessions, records, reserved, permits, claims, clock>>
repositoryVars == <<owned, runs, jobs, heads>>
vars == <<identityVars, repositoryVars, tx, calls>>

Connections == Identities \cup Repositories
Idle == [op |-> "idle", pc |-> "", owner |-> None, guest |-> None, game |-> None, key |-> None,
         issued |-> 0, past |-> {}, since |-> 0, seen |-> None, locks |-> {}]
NoSession == [state |-> "none", by |-> None]

\* The service starts empty, or with guests that an earlier process let in and who imported.
Init ==
    /\ accounts = [s \in Subjects |-> None] /\ born = {}
    /\ receipts = {} /\ expired = {} /\ records = {} /\ claims = {} /\ permits = {}
    /\ sessions \in [Guests -> {NoSession, [NoSession EXCEPT !.state = "open"]}]
    /\ owned \in SUBSET ({g \in Guests : sessions[g].state = "open"} \X Games)
    /\ \A g \in Guests : Cardinality({x \in Games : <<g, x>> \in owned}) <= StorageLimit
    /\ reserved = [g \in Guests |-> None]
    /\ runs = <<>> /\ jobs = <<>> /\ heads = <<>>
    /\ tx = [c \in Connections |-> Idle]
    /\ clock = 0 /\ calls = 0

-----------------------------------------------------------------------------
(* Transactions.                                                            *)

Free(c, row) == \A d \in Connections \ {c} : row \notin tx[d].locks
AccountRow(a) == <<"account", a>>
SessionRow(g) == <<"session", g>>
ImportsOf(o) == <<"imports", o>>   \* the advisory lock of an owner's imports

Begin(c, t) ==
    /\ tx[c] = Idle /\ calls < MaxCalls
    /\ tx' = [tx EXCEPT ![c] = t] /\ calls' = calls + 1
    /\ UNCHANGED <<identityVars, repositoryVars>>
At(c, op, pc) == tx[c].op = op /\ tx[c].pc = pc
Step(c, t) == tx' = [tx EXCEPT ![c] = t] /\ UNCHANGED calls
End(c) == Step(c, Idle)

OwnerOf(c) == tx[c].owner
Exists(a) == a \in Range(accounts)
\* require_owner: an account that exists, or a guest that is not expired and not claimed.
\* The owners row of a guest outlives its session, which goes with the account that claimed it.
IsOwner(o) == IF o \in Guests THEN sessions[o].state \in {"open", "gone"} ELSE Exists(o)
\* The foreign key of game_owners: an owner's row, whatever its session says.
HasRow(o) == IF o \in Guests THEN sessions[o].state # "none" ELSE Exists(o)

-----------------------------------------------------------------------------
(* ensure_account.                                                          *)

EnsureLocks_None(s) == {}                                                    \* mutant
EnsureLocks(s) == {AccountRow(accounts[t]) : t \in {s} \cap {u \in Subjects : accounts[u] # None}}
\* now() is when the transaction began: what expires later still counts for it.
StartEnsure(c) ==
    \E s \in Subjects, i \in 0 .. clock :
        /\ \A row \in EnsureLocks(s) : Free(c, row)
        /\ Begin(c, [Idle EXCEPT !.op = "ensure", !.pc = "receipts", !.owner = s, !.issued = i,
                     !.past = expired, !.seen = accounts[s], !.locks = EnsureLocks(s)])

Tombstones(c) == {r \in receipts \ tx[c].past : r.subject = tx[c].owner}
Latest(c) == CHOOSE r \in Tombstones(c) : \A q \in Tombstones(c) : q.at <= r.at
\* The deletions on record that the bearer was issued before, and if there are any.
CutoffsOf(c) == {r.at : r \in {q \in Tombstones(c) : tx[c].issued <= q.at}}
Predates(c) == CutoffsOf(c) # {}

ReadReceipts(c) ==
    /\ At(c, "ensure", "receipts")
    /\ IF Predates(c) THEN End(c)
       ELSE IF tx[c].seen # None THEN Step(c, [tx[c] EXCEPT !.pc = "found"])
       ELSE Step(c, [tx[c] EXCEPT !.pc = "create", !.since = clock,
                     !.seen = IF Tombstones(c) = {} THEN None ELSE Latest(c).account])
    /\ UNCHANGED <<identityVars, repositoryVars>>

\* The expired receipts go when the sign-in succeeds (those of every subject).
Purge(c) == receipts' = receipts \ tx[c].past /\ expired' = expired \ tx[c].past

Found(c) ==
    /\ At(c, "ensure", "found") /\ End(c) /\ Purge(c)
    /\ UNCHANGED <<accounts, born, sessions, records, reserved, permits, claims, clock, repositoryVars>>

\* random_account_id; new ids are alike (bound: there is one left).
Drawn == CHOOSE a \in AccountIds : a \notin born
\* A deleted account comes back under its id; a race on the subject takes the winner's.
Create(c) ==
    LET s == tx[c].owner
    IN /\ At(c, "ensure", "create") /\ End(c) /\ Purge(c)
       /\ \/ accounts[s] # None /\ UNCHANGED <<accounts, born>>
          \/ /\ accounts[s] = None /\ tx[c].seen # None
             /\ accounts' = [accounts EXCEPT ![s] = tx[c].seen] /\ UNCHANGED born
          \/ /\ accounts[s] = None /\ tx[c].seen = None /\ AccountIds \ born # {}
             /\ accounts' = [accounts EXCEPT ![s] = Drawn] /\ born' = born \cup {Drawn}
       /\ UNCHANGED <<sessions, records, reserved, permits, claims, clock, repositoryVars>>

-----------------------------------------------------------------------------
(* Guest sessions and their free analysis.                                  *)

\* create_guest_session draws a new id and token.
CreateGuest(c) ==
    /\ tx[c] = Idle
    /\ \E g \in Guests : /\ sessions[g].state = "none" /\ Free(c, SessionRow(g))
                         /\ sessions' = [sessions EXCEPT ![g].state = "open"]
    /\ UNCHANGED <<accounts, born, receipts, expired, records, reserved, permits, claims, clock,
                   repositoryVars, tx, calls>>

StartReserve(c) ==
    \E g \in Guests, x \in Games :
        /\ sessions[g].state = "open" /\ Free(c, SessionRow(g)) /\ <<g, x>> \in owned
        /\ Begin(c, [Idle EXCEPT !.op = "reserve", !.pc = "write", !.guest = g, !.game = x,
                     !.locks = {SessionRow(g)}])

\* The reservation stands; a request for another game is over the quota.
Reserved_Replaces(g, x) ==                                                   \* mutant
    reserved' = [reserved EXCEPT ![g] = x] /\ permits' = permits \cup {<<g, x>>}
Reserved(g, x) ==
    /\ reserved[g] \in {None, x}
    /\ reserved' = [reserved EXCEPT ![g] = x] /\ permits' = permits \cup {<<g, x>>}
Refused(g, x) == reserved[g] \notin {None, x} /\ UNCHANGED <<reserved, permits>>

Reserve(c) ==
    LET g == tx[c].guest x == tx[c].game
    IN /\ At(c, "reserve", "write") /\ End(c)
       /\ Reserved(g, x) \/ Refused(g, x)
       /\ UNCHANGED <<accounts, born, receipts, expired, sessions, records, claims, clock,
                      repositoryVars>>

-----------------------------------------------------------------------------
(* claim_guest: the account's row, a receipt of the same key, the session,  *)
(* and then copies of all that the guest has.                               *)

\* The handler has looked the guest's token up before.
StartClaim(c) ==
    \E g \in Guests, a \in born, k \in Keys :
        /\ sessions[g].state = "open" \/ \E t \in claims : t.guest = g
        /\ Exists(a) /\ Free(c, AccountRow(a))
        /\ Begin(c, [Idle EXCEPT !.op = "claim", !.pc = "receipt", !.guest = g, !.owner = a,
                     !.key = k, !.locks = {AccountRow(a)}])

PriorClaims(c) == {r \in records : r.account = tx[c].owner /\ r.key = tx[c].key}
Receipt(c, games, already) ==
    [guest |-> tx[c].guest, account |-> tx[c].owner, games |-> games, already |-> already]
Return(receipt) == claims' = claims \cup {receipt}
Recorded(c, receipt) == records' = records \cup {[account |-> tx[c].owner, key |-> tx[c].key,
                                                  receipt |-> receipt]}
unclaimedVars == <<accounts, born, receipts, expired, reserved, permits, clock>>

ReplayClaim(c) ==
    /\ At(c, "claim", "receipt") /\ End(c)
    /\ \E r \in PriorClaims(c) :
           IF r.receipt.guest = tx[c].guest THEN Return(r.receipt) ELSE UNCHANGED claims
    /\ UNCHANGED <<unclaimedVars, sessions, records, repositoryVars>>

SessionLocks_None(c) == {}                                                   \* mutant
SessionLocks(c) == {SessionRow(tx[c].guest)}
LockSession(c) ==
    LET g == tx[c].guest
    IN /\ At(c, "claim", "receipt") /\ PriorClaims(c) = {}
       /\ Free(c, SessionRow(g))
       /\ IF sessions[g].state = "open" \/ sessions[g].by = tx[c].owner
          THEN Step(c, [tx[c] EXCEPT !.pc = "transfer", !.seen = sessions[g].by,
                        !.locks = @ \cup SessionLocks(c)])
          ELSE End(c)
       /\ UNCHANGED <<identityVars, repositoryVars>>

AlreadyClaimed(c) ==
    /\ At(c, "claim", "transfer") /\ tx[c].seen # None /\ End(c)
    /\ LET receipt == Receipt(c, 0, TRUE) IN Return(receipt) /\ Recorded(c, receipt)
    /\ UNCHANGED <<unclaimedVars, sessions, repositoryVars>>

\* INSERT ... SELECT ... ON CONFLICT DO NOTHING: a run is copied under an id of its own and
\* with the idempotency key it had, its job and head only with it.
Copied(r, a) == [r EXCEPT !.owner = a, !.copy = TRUE]
SameKey(r, q) == r.owner = q.owner /\ r.game = q.game /\ r.kind = q.kind /\ r.kind = "job"
Transferable(g, a) ==
    {r \in DOMAIN runs : r.owner = g /\ \A q \in DOMAIN runs : ~SameKey(Copied(r, a), q)}
Merged(f, new) == [r \in DOMAIN f \cup DOMAIN new |-> IF r \in DOMAIN new THEN new[r] ELSE f[r]]
With(f, r, v) == Merged(f, [q \in {r} |-> v])
WithCopies(f, g, a) ==
    Merged(f, [r \in {Copied(q, a) : q \in Transferable(g, a) \cap DOMAIN f} |->
                  f[CHOOSE q \in DOMAIN f : q.owner = g /\ Copied(q, a) = r]])

Transfer(c) ==
    LET g == tx[c].guest a == tx[c].owner
        games == {x \in Games : <<g, x>> \in owned /\ <<a, x>> \notin owned}
        moved == {h \in DOMAIN heads : h.owner = g /\ heads[h] \in Transferable(g, a)}
        receipt == Receipt(c, Cardinality(games), FALSE)
    IN /\ At(c, "claim", "transfer") /\ tx[c].seen = None /\ End(c)
       /\ owned' = owned \cup {<<a, x>> : x \in games}
       /\ runs' = WithCopies(runs, g, a) /\ jobs' = WithCopies(jobs, g, a)
       /\ heads' = Merged([h \in {[k EXCEPT !.owner = a] : k \in moved} |->
                               Copied(heads[[h EXCEPT !.owner = g]], a)], heads)
       /\ sessions' = [sessions EXCEPT ![g] = [state |-> "claimed", by |-> a]]
       /\ Return(receipt) /\ Recorded(c, receipt)
       /\ UNCHANGED unclaimedVars

-----------------------------------------------------------------------------
(* delete_account.                                                          *)

StartDelete(c) ==
    \E a \in born, k \in Keys :
        /\ Exists(a) /\ Free(c, AccountRow(a))
        /\ Begin(c, [Idle EXCEPT !.op = "delete", !.pc = "write", !.owner = a, !.key = k,
                     !.locks = {AccountRow(a)}])

PriorReceipts(c) == {r \in receipts : r.account = tx[c].owner /\ r.key = tx[c].key}
Without(f, a) == [r \in {q \in DOMAIN f : q.owner # a} |-> f[r]]

\* The account was deleted under this key before, and came back since: the old receipt,
\* which may have expired.
ReplayDelete(c) ==
    /\ At(c, "delete", "write") /\ PriorReceipts(c) # {} /\ End(c)
    /\ UNCHANGED <<identityVars, repositoryVars>>

SubjectOf(a) == CHOOSE s \in Subjects : accounts[s] = a
\* Receipts are unique by subject and key: another account of the subject used this key.
KeyTaken(c) == \E r \in receipts : r.subject = SubjectOf(tx[c].owner) /\ r.key = tx[c].key
FailDelete(c) ==
    /\ At(c, "delete", "write") /\ PriorReceipts(c) = {} /\ KeyTaken(c) /\ End(c)
    /\ UNCHANGED <<identityVars, repositoryVars>>

\* The sessions it claimed, its row, and by the cascade of its owner all that it has.
Delete(c) ==
    LET a == tx[c].owner
        s == SubjectOf(a)
        mine == {g \in Guests : sessions[g].by = a}
    IN /\ At(c, "delete", "write") /\ PriorReceipts(c) = {} /\ ~KeyTaken(c) /\ End(c)
       /\ \A g \in mine : Free(c, SessionRow(g))
       /\ sessions' = [g \in Guests |-> IF g \in mine THEN [state |-> "gone", by |-> None]
                                        ELSE sessions[g]]
       /\ accounts' = [accounts EXCEPT ![s] = None]
       /\ records' = {r \in records : r.account # a}
       /\ owned' = {p \in owned : p[1] # a}
       /\ runs' = Without(runs, a) /\ jobs' = Without(jobs, a) /\ heads' = Without(heads, a)
       /\ receipts' = receipts \cup {[subject |-> s, account |-> a, key |-> tx[c].key, at |-> clock]}
       /\ clock' = clock + 1
       /\ UNCHANGED <<born, expired, reserved, permits, claims>>

\* A receipt reaches the end of its thirty days; a guest session reaches its own.
Expire ==
    /\ \/ \E r \in receipts \ expired : expired' = expired \cup {r} /\ UNCHANGED sessions
       \/ \E g \in Guests : /\ sessions[g].state = "open"
                            /\ sessions' = [sessions EXCEPT ![g].state = "expired"]
                            /\ UNCHANGED expired
    /\ UNCHANGED <<accounts, born, receipts, records, reserved, permits, claims, clock,
                   repositoryVars, tx, calls>>

-----------------------------------------------------------------------------
(* PostgresRepository: each call reads the owner's right first, unlocked.   *)

Allowed(o, x) == o \in Guests => <<o, x>> \in permits
Call(c, op, o, x, extra) ==
    Begin(c, [Idle EXCEPT !.op = op, !.pc = "begun", !.owner = o, !.game = x, !.key = extra])

StartAdd(c) ==
    \E o \in Guests \cup born, x \in Games : IsOwner(o) /\ Call(c, "add", o, x, None)

ImportLocks_None(o) == {}                                                    \* mutant
ImportLocks(o) == {ImportsOf(o)}
Has(o) == {x \in Games : <<o, x>> \in owned}

\* The advisory lock, the duplicate and the count; the import or the refusal.
CheckImport(c) ==
    LET o == tx[c].owner
    IN /\ At(c, "add", "begun")
       /\ \A row \in ImportLocks(o) : Free(c, row)
       /\ IF tx[c].game \in Has(o) \/ Cardinality(Has(o)) >= StorageLimit THEN End(c)
          ELSE Step(c, [tx[c] EXCEPT !.pc = "write", !.locks = ImportLocks(o)])
       /\ UNCHANGED <<identityVars, repositoryVars>>

Import(c) ==
    /\ At(c, "add", "write") /\ End(c)
    /\ IF HasRow(OwnerOf(c)) THEN owned' = owned \cup {<<OwnerOf(c), tx[c].game>>}
       ELSE UNCHANGED owned
    /\ UNCHANGED <<identityVars, runs, jobs, heads>>

\* record_job_state: the pending run of the owner's game, and its job.
Statuses == {"running", "failed"}
RunOf(o, x) == [owner |-> o, game |-> x, kind |-> "job", copy |-> FALSE]
Conflicts(r) == r \notin DOMAIN runs /\ \E q \in DOMAIN runs : SameKey(q, r)

StartRecord(c) ==
    \E p \in owned, status \in Statuses :
        /\ IsOwner(p[1]) /\ Allowed(p[1], p[2])
        /\ Call(c, "record", p[1], p[2], status)

Record(c) ==
    LET r == RunOf(tx[c].owner, tx[c].game)
    IN /\ At(c, "record", "begun") /\ End(c)
       /\ IF Conflicts(r) \/ <<tx[c].owner, tx[c].game>> \notin owned THEN UNCHANGED <<runs, jobs>>
          ELSE /\ runs' = With(runs, r, tx[c].key)
               /\ jobs' = With(jobs, r, tx[c].key)
       /\ UNCHANGED <<identityVars, owned, heads>>

\* save_analysis and save_shallow_analysis: the pending run if there is one that is not
\* complete, else a run of the analysis itself.
StartSave(c) ==
    \E p \in owned, compatibility \in {"shallow", "review"} :
        /\ IsOwner(p[1]) /\ Allowed(p[1], p[2])
        /\ Call(c, "save", p[1], p[2], compatibility)

SavedRun(o, x, compatibility) ==
    LET pending == RunOf(o, x)
    IN IF pending \in DOMAIN runs /\ runs[pending] # "complete" THEN pending
       ELSE [pending EXCEPT !.kind = compatibility]

Save(c) ==
    LET o == tx[c].owner x == tx[c].game r == SavedRun(o, x, tx[c].key)
    IN /\ At(c, "save", "begun") /\ End(c)
       /\ IF <<o, x>> \notin owned THEN UNCHANGED <<runs, jobs, heads>>
          ELSE /\ runs' = With(runs, r, "complete")
               /\ heads' = With(heads, [owner |-> o, game |-> x, compatibility |-> tx[c].key], r)
               /\ jobs' = IF r \in DOMAIN jobs THEN With(jobs, r, "complete") ELSE jobs
       /\ UNCHANGED <<identityVars, owned>>

-----------------------------------------------------------------------------
Claim(c) == StartClaim(c) \/ ReplayClaim(c) \/ LockSession(c) \/ AlreadyClaimed(c) \/ Transfer(c)
Ensure(c) == StartEnsure(c) \/ ReadReceipts(c) \/ Found(c) \/ Create(c)
Remove(c) == StartDelete(c) \/ ReplayDelete(c) \/ FailDelete(c) \/ Delete(c)
Identity(c) == Ensure(c) \/ CreateGuest(c) \/ StartReserve(c) \/ Reserve(c) \/ Claim(c) \/ Remove(c)
Repository(c) == StartAdd(c) \/ CheckImport(c) \/ Import(c) \/ StartRecord(c) \/ Record(c)
                 \/ StartSave(c) \/ Save(c)
Next ==
    \/ \E c \in Identities : Identity(c)
    \/ \E c \in Repositories : Repository(c)
    \/ Expire
    \/ calls = MaxCalls /\ (\A c \in Connections : tx[c] = Idle) /\ UNCHANGED vars
Spec == Init /\ [][Next]_vars
-----------------------------------------------------------------------------
(* Properties.                                                              *)

\* A sign-in that finds the account hands it to no bearer that a deletion on record
\* predates, though it was deleted and came back before the row was locked.  One that finds
\* none and makes or meets the account in its last step has heard of every deletion but
\* those that were made since it read the receipts (postgres_repository.cpp:1594).
OldBearersStayDead ==
    \A c \in Identities :
        /\ At(c, "ensure", "found") => ~Predates(c)
        /\ At(c, "ensure", "create") => \A at \in CutoffsOf(c) : at >= tx[c].since

\* What the comment at postgres_repository.cpp:1594 promises: "An older bearer must never
\* become valid again merely because the account row exists once more."
RowRevivesNoBearer ==
    [][\A c \in Identities :
          (Found(c) \/ Create(c)) /\ accounts[tx[c].owner] # None => ~Predates(c)]_vars

\* A guest's reviews are transferred once, to one account; every other receipt, of a retry,
\* of another key or of a second process, repeats that one or names it (claim_guest).
ClaimedOnce ==
    \A p, q \in claims : p.guest = q.guest =>
        p.account = q.account /\ (~p.already /\ ~q.already => p = q)

\* A guest has jobs for one game at most, whatever requests, retries and claims race
\* (hosted_identity.hpp:69, "Atomically reserves the single free analysis for a guest").
OneFreeAnalysis ==
    \A g \in Guests : Cardinality({r.game : r \in {q \in DOMAIN runs : q.owner = g}}) <= 1

\* No guest has more games than the limit, although the check and the import are two
\* statements of transactions on several connections (postgres_repository.cpp:566).  An
\* account may have more: a claim gives it the guest's games without a count.
WithinLimit == \A g \in Guests : Cardinality(Has(g)) <= StorageLimit

=============================================================================
