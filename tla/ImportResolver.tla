---------------------------- MODULE ImportResolver ----------------------------
(***************************************************************************)
(* The interactive half of IngestManager (src/src/app/ingest_manager.cpp)  *)
(* and ImportService::from_url: clients ask for one Chess.com game by its  *)
(* URL; one worker looks for it in the local archive, in the newest months *)
(* of the players it can name, and at last through from_url (the players'  *)
(* archives, the callback, the public page), adds it to the repository, or *)
(* leaves the resolution for the user to recover.  What Chess.com shows is *)
(* any answer; a URL stands for its canonical form and its game.           *)
(***************************************************************************)
EXTENDS ArchiveClient, SequencesExt

CONSTANTS Urls, Users,
          None,
          RecentMonths,  \* months of a player search_archive looks at (2)
          FoundMonths,   \* max_recent_archive_months of find_game (4)
          MaxPending, MaxHistory,   \* options_
          MaxCalls, MaxFaults       \* bounds

ASSUME ResolverConstants ==
    /\ IsFiniteSet(Urls) /\ IsFiniteSet(Users) /\ None \notin Users
    /\ RecentMonths \in Nat \ {0} /\ FoundMonths \in Nat \ {0}
    /\ MaxPending \in Nat \ {0} /\ MaxHistory \in Nat \ {0}
    /\ MaxCalls \in Nat /\ MaxFaults \in Nat

VARIABLES
    mode,         \* "up", "stopping" (in the destructor) or "down"
    resolutions,  \* resolutions_: id -> resolution
    cancelled,    \* resolution_cancellations_: the ids whose stop was requested
    active,       \* active_canonical_resolutions_: url -> id
    order,        \* resolution_order_
    queue,        \* interactive_queue_
    nextId,       \* next_resolution_id_
    asked,        \* the call of resolve that has its player and not yet the lock, or Silent
    worker,       \* the interactive worker between two of its steps
    profile,      \* repository: the configured player, or None
    archive,      \* repository: the games with an archive entry
    games,        \* repository: the games added
    calls, faults \* history, for the bounds

manager    == <<resolutions, cancelled, active, order, queue, nextId>>
repository == <<profile, archive, games>>
vars       == <<http, mode, manager, asked, worker, repository, calls, faults>>

-----------------------------------------------------------------------------
Statuses == {"queued", "running", "resolved", "needs_recovery", "cancelled"}
Active(r) == r.status \in {"queued", "running"}

\* The next users to ask, the months left of the one that is asked, whether the
\* search is that of search_archive or of find_game, and what from_url remembers.
Idle == [at |-> "idle", id |-> 0, url |-> None, user |-> None, status |-> "running",
         todo |-> <<>>, months |-> 0, finding |-> FALSE, missed |-> FALSE]

Entries(f, keys) == [k \in keys |-> f[k]]

\* trim_history_unlocked.
Trimmed(rs, seq) ==
    LET excess == IF Len(seq) > MaxHistory THEN Len(seq) - MaxHistory ELSE 0
        n == CHOOSE k \in 0 .. excess :
                /\ \A i \in 1 .. k : ~Active(rs[seq[i]])
                /\ k = excess \/ Active(rs[seq[k + 1]])
    IN  SubSeq(seq, n + 1, Len(seq))

Remember(rs, seq) ==
    /\ order' = Trimmed(rs, seq)
    /\ resolutions' = Entries(rs, ToSet(order'))

Stop == worker.id \in cancelled

Fault == faults < MaxFaults /\ faults' = faults + 1
NoFault == UNCHANGED faults
-----------------------------------------------------------------------------
(* Clients.                                                                *)

Configured(user) == IF user = None THEN profile ELSE user
Silent == [url |-> None, user |-> None]

\* resolve configures the player it is given, or reads the one of the profile ...
Ask(url, user) ==
    /\ mode = "up" /\ asked = Silent /\ calls < MaxCalls /\ calls' = calls + 1
    /\ profile' = Configured(user) /\ asked' = [url |-> url, user |-> profile']
    /\ UNCHANGED <<http, mode, manager, worker, archive, games, faults>>

\* ... then it queues a resolution, under the lock.
Resolve(url, user) ==
    /\ mode = "up" /\ asked = [url |-> url, user |-> user] /\ asked' = Silent
    /\ url \notin DOMAIN active /\ Len(queue) < MaxPending
    /\ LET r == [url |-> url, user |-> user, status |-> "queued"]
       IN  Remember([i \in DOMAIN resolutions \cup {nextId} |->
                        IF i = nextId THEN r ELSE resolutions[i]], Append(order, nextId))
    /\ active' = [u \in DOMAIN active \cup {url} |-> IF u = url THEN nextId ELSE active[u]]
    /\ queue' = Append(queue, nextId) /\ nextId' = nextId + 1
    /\ UNCHANGED <<http, mode, cancelled, worker, repository, calls, faults>>

\* A resolution of the URL is active, or the queue is full: nothing changes.
ResolveKnown ==
    /\ mode = "up" /\ asked # Silent /\ asked' = Silent
    /\ asked.url \in DOMAIN active \/ Len(queue) >= MaxPending
    /\ UNCHANGED <<http, mode, manager, worker, repository, calls, faults>>

Without(f, url) == Entries(f, DOMAIN f \ {url})

CancelResolution_KeepsEntry(id) ==
    /\ mode = "up" /\ id \in DOMAIN resolutions /\ Active(resolutions[id])
    /\ resolutions' = [resolutions EXCEPT ![id].status = "cancelled"]
    /\ cancelled' = cancelled \cup {id}
    /\ queue' = SelectSeq(queue, LAMBDA x : x # id)
    /\ UNCHANGED <<http, mode, active, order, nextId, asked, worker, repository, calls, faults>>

CancelResolution(id) ==
    /\ mode = "up" /\ id \in DOMAIN resolutions /\ Active(resolutions[id])
    /\ resolutions' = [resolutions EXCEPT ![id].status = "cancelled"]
    /\ cancelled' = cancelled \cup {id}
    /\ active' = Without(active, resolutions[id].url)
    /\ queue' = SelectSeq(queue, LAMBDA x : x # id)
    /\ UNCHANGED <<http, mode, order, nextId, asked, worker, repository, calls, faults>>
-----------------------------------------------------------------------------
(* The worker.                                                             *)

Others == <<mode, asked, profile, calls>>
Working(at) == mode # "down" /\ worker.at = at
Go(at) == worker' = [worker EXCEPT !.at = at]

TakeResolution ==
    /\ mode = "up" /\ worker.at = "idle" /\ queue # <<>>
    /\ worker' = [Idle EXCEPT !.at = "begin", !.id = Head(queue)]
    /\ queue' = Tail(queue)
    /\ UNCHANGED <<http, resolutions, cancelled, active, order, nextId, archive, games, faults, Others>>

\* The first critical section of run_resolution.
Begin ==
    /\ Working("begin")
    /\ IF worker.id \notin DOMAIN resolutions \/ resolutions[worker.id].status = "cancelled"
       THEN worker' = Idle /\ UNCHANGED resolutions
       ELSE /\ resolutions' = [resolutions EXCEPT ![worker.id].status = "running"]
            /\ LET r == resolutions[worker.id]
               IN  worker' = [worker EXCEPT !.at = "local", !.url = r.url, !.user = r.user]
    /\ UNCHANGED <<http, cancelled, active, order, queue, nextId, archive, games, faults, Others>>

\* A hit in the local archive needs no request.  (The exact_binding looked at here and in
\* MonthIndexed holds: archive_entry made the entry, after the same look.)
LookLocally ==
    /\ Working("local")
    /\ IF worker.url \in archive THEN Go("add") /\ UNCHANGED http
       ELSE Go("players") /\ http' = Sending(FALSE)
    /\ UNCHANGED <<manager, archive, games, faults, Others>>

Transfer ==
    /\ mode # "down" /\ http.at # "done"
    /\ HttpStep(Stop)
    /\ UNCHANGED <<manager, worker, archive, games, faults, Others>>

\* A cancellation seen by any request ends the resolution.
Cancelled ==
    /\ mode # "down" /\ Done("cancelled") /\ http' = Quiet
    /\ worker' = [worker EXCEPT !.at = "final", !.status = "cancelled"]
    /\ UNCHANGED <<manager, archive, games, faults, Others>>

NamedUsers == IF worker.user = None THEN <<>> ELSE <<worker.user>>

\* Each of them is asked once (attempted_users).
Distinct(users) == FoldLeft(LAMBDA seen, u : IF Contains(seen, u) THEN seen ELSE Append(seen, u), <<>>, users)

\* discover_players: the page names two players or it does not; from_url asks again.
PlayersKnown ==
    /\ Working("players") /\ http.at = "done" /\ http.result # "cancelled" /\ http' = Quiet
    /\ \E names \in {<<>>} \cup (IF http.result = "ok" THEN Users \X Users ELSE {}) :
        worker' = [worker EXCEPT
            !.at = "next",
            !.todo = Distinct(IF worker.finding THEN names ELSE names \o NamedUsers)]
    /\ UNCHANGED <<manager, archive, games, faults, Others>>

\* The next user's archives; when there is none, from_url, and at its end its fallbacks.
NextUser ==
    /\ Working("next") /\ worker.todo # <<>>
    /\ Go("index") /\ http' = Sending(TRUE)
    /\ UNCHANGED <<manager, archive, games, faults, Others>>

FromUrl ==
    /\ Working("next") /\ worker.todo = <<>> /\ ~worker.finding
    /\ worker' = [worker EXCEPT !.at = "players", !.finding = TRUE]
    /\ http' = Sending(FALSE)
    /\ UNCHANGED <<manager, archive, games, faults, Others>>

Asked_Again == [worker EXCEPT !.at = "next"]
Asked == [worker EXCEPT !.at = "next", !.todo = Tail(@)]

Listed ==
    /\ Working("index") /\ Done("ok")
    /\ \E n \in 0 .. (IF worker.finding THEN FoundMonths ELSE RecentMonths) :
        IF n = 0 THEN http' = Quiet /\ worker' = [Asked EXCEPT !.missed = worker.finding]
        ELSE http' = Sending(TRUE) /\ worker' = [worker EXCEPT !.at = "month", !.months = n]
    /\ UNCHANGED <<manager, archive, games, faults, Others>>

\* search_archive stores every page and looks the game up in the archive; a page whose
\* chunk cannot be stored ends the resolution.
MonthIndexed ==
    /\ Working("month") /\ Done("ok") /\ ~worker.finding
    /\ \/ /\ \E on \in BOOLEAN :
             /\ archive' = IF on THEN archive \cup {worker.url} ELSE archive
             /\ \/ /\ worker.url \in archive' /\ Go("add") /\ http' = Quiet
                \/ /\ worker.url \notin archive' /\ worker.months > 1 /\ http' = Sending(TRUE)
                   /\ worker' = [worker EXCEPT !.months = @ - 1]
                \/ /\ worker.url \notin archive' /\ worker.months = 1 /\ http' = Quiet
                   /\ worker' = Asked
          /\ NoFault
       \/ /\ worker' = [worker EXCEPT !.at = "final", !.status = "needs_recovery"]
          /\ http' = Quiet /\ Fault /\ UNCHANGED archive
    /\ UNCHANGED <<manager, games, Others>>

\* find_game takes the game from the page; a PGN that does not parse counts as a failure of
\* the player's archive, and is no miss.
MonthFound ==
    /\ Working("month") /\ Done("ok") /\ worker.finding
    /\ \/ Go("add") /\ http' = Quiet
       \/ /\ worker.months > 1 /\ http' = Sending(TRUE)
          /\ worker' = [worker EXCEPT !.months = @ - 1]
       \/ worker.months = 1 /\ http' = Quiet /\ worker' = [Asked EXCEPT !.missed = TRUE]
       \/ worker' = Asked /\ http' = Quiet
    /\ UNCHANGED <<manager, archive, games, faults, Others>>

\* A failed archive request: search_archive goes on after "missing" only; from_url goes
\* on with the next player and remembers a miss.
ArchiveFailed ==
    /\ mode # "down" /\ worker.at \in {"index", "month"}
    /\ http.at = "done" /\ http.result \notin {"ok", "cancelled"} /\ http' = Quiet
    /\ worker' = IF worker.finding
                 THEN [Asked EXCEPT !.missed = @ \/ http.result = "missing"]
                 ELSE IF http.result = "missing" THEN Asked
                 ELSE [worker EXCEPT !.at = "final", !.status = "needs_recovery"]
    /\ UNCHANGED <<manager, archive, games, faults, Others>>

Callback == /\ worker' = [worker EXCEPT !.at = "callback"]
            /\ http' = Sending(FALSE)

\* The end of the archive search of from_url: after a miss the callback comes first.
Fallback ==
    /\ Working("next") /\ worker.todo = <<>> /\ worker.finding
    /\ \/ worker.missed /\ Callback
       \/ ~worker.missed /\ Go("page") /\ http' = Sending(FALSE)
    /\ UNCHANGED <<manager, archive, games, faults, Others>>

\* The callback or the page holds the game, or it does not (and every failure but a
\* cancellation goes on).  cancellation is looked at again before the page.
CallbackAnswered ==
    /\ Working("callback") /\ http.at = "done" /\ http.result # "cancelled"
    /\ \/ http.result = "ok" /\ Go("add") /\ http' = Quiet
       \/ worker.missed /\ Go("page") /\ http' = Sending(FALSE)
       \/ /\ ~worker.missed /\ http' = Quiet
          /\ worker' = [worker EXCEPT !.at = "final", !.status = "needs_recovery"]
    /\ UNCHANGED <<manager, archive, games, faults, Others>>

Attempted == worker.missed

PageAnswered ==
    /\ Working("page") /\ http.at = "done" /\ http.result # "cancelled"
    /\ \/ http.result = "ok" /\ Go("add") /\ http' = Quiet
       \/ ~Attempted /\ Callback
       \/ /\ Attempted /\ http' = Quiet
          /\ worker' = [worker EXCEPT !.at = "final", !.status = "needs_recovery"]
    /\ UNCHANGED <<manager, archive, games, faults, Others>>

Added(ok) == IF ok THEN "resolved" ELSE "needs_recovery"

\* repository_.add, whose append may throw.
Add ==
    /\ Working("add")
    /\ \E ok \in BOOLEAN :
        /\ games' = IF ok THEN games \cup {worker.url} ELSE games
        /\ worker' = [worker EXCEPT !.at = "final", !.status = Added(ok)]
        /\ IF ok THEN NoFault ELSE Fault
    /\ UNCHANGED <<http, manager, archive, Others>>

\* The last critical section; a cancellation that came first stays.
Kept(status, outcome) == IF status = "cancelled" THEN status ELSE outcome

Final ==
    /\ Working("final") /\ worker.id \in DOMAIN resolutions
    /\ Remember([resolutions EXCEPT ![worker.id].status = Kept(@, worker.status)], order)
    /\ active' = Without(active, worker.url)
    /\ worker' = Idle
    /\ UNCHANGED <<http, cancelled, queue, nextId, archive, games, faults, Others>>

\* resolutions_.at(id) of a resolution trimmed meanwhile throws outside any handler:
\* std::terminate.
Forgotten ==
    /\ Working("final") /\ worker.id \notin DOMAIN resolutions
    /\ mode' = "down" /\ worker' = Idle
    /\ UNCHANGED <<http, manager, asked, repository, calls, faults>>

WorkerStep ==
    \/ TakeResolution \/ Begin \/ LookLocally \/ Transfer \/ Cancelled \/ PlayersKnown
    \/ NextUser \/ FromUrl \/ Listed \/ MonthIndexed \/ MonthFound \/ ArchiveFailed
    \/ Fallback \/ CallbackAnswered \/ PageAnswered \/ Add \/ Final \/ Forgotten
-----------------------------------------------------------------------------
\* The destructor requests every stop and joins the worker.
Shutdown ==
    /\ mode = "up" /\ asked = Silent /\ mode' = "stopping"
    /\ cancelled' = cancelled \cup DOMAIN resolutions
    /\ UNCHANGED <<http, resolutions, active, order, queue, nextId, asked, worker, repository, calls,
                   faults>>

Joined ==
    /\ mode = "stopping" /\ worker.at = "idle" /\ mode' = "down"
    /\ UNCHANGED <<http, manager, asked, worker, repository, calls, faults>>

Init ==
    /\ http = Quiet /\ mode = "up" /\ asked = Silent /\ worker = Idle
    /\ resolutions = <<>> /\ cancelled = {} /\ active = <<>>
    /\ order = <<>> /\ queue = <<>> /\ nextId = 1
    /\ profile = None /\ archive = {} /\ games = {} /\ calls = 0 /\ faults = 0

Next ==
    \/ \E url \in Urls, user \in Users \cup {None} : Ask(url, user) \/ Resolve(url, user)
    \/ ResolveKnown
    \/ \E id \in 1 .. MaxCalls : CancelResolution(id)
    \/ WorkerStep \/ Shutdown \/ Joined

\* The worker's thread runs and transfers end; the destructor returns once it can.
Fairness == WF_vars(WorkerStep) /\ WF_vars(Joined)

Spec == Init /\ [][Next]_vars /\ Fairness
-----------------------------------------------------------------------------
(* Properties.                                                             *)

\* What resolve answers for a URL it already works on is a resolution that is known
\* and active: the .at of line 353 never throws, through cancellation, the ends of
\* older resolutions of the URL and trimming.
DedupIsLive ==
    \A url \in DOMAIN active :
        /\ active[url] \in DOMAIN resolutions
        /\ Active(resolutions[active[url]]) /\ resolutions[active[url]].url = url

\* All resolutions end while the process is up: every search, retry and fallback is
\* bounded.
ResolutionsEnd ==
    (mode = "up") ~> (mode # "up" \/ \A id \in DOMAIN resolutions : ~Active(resolutions[id]))

=============================================================================
