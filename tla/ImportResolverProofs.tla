------------------------ MODULE ImportResolverProofs ------------------------
(***************************************************************************)
(* What ImportResolver shows of deduplication, for any URLs, users, limits *)
(* and numbers of months: resolve never answers with a resolution that is  *)
(* over or forgotten.  It rests on the worker and its resolution agreeing  *)
(* on the URL: the worker clears the entry of the URL it was given, and    *)
(* trimming removes only what has ended.                                   *)
(***************************************************************************)
EXTENDS ImportResolver, TLAPS, SequenceTheorems, WellFoundedInduction

-----------------------------------------------------------------------------
(* The invariant.                                                          *)

ResolutionType == [url : Urls, user : Users \cup {None}, status : Statuses]

\* The fields of the worker, kept by every step: which is all that a change of one field of a
\* record needs.
WorkerFields == {"at", "id", "url", "user", "status", "todo", "months", "finding", "missed"}
IsWorker(t) == t = [f \in WorkerFields |-> t[f]]

\* The worker has begun its resolution and looked at its URL.
Begun(t) == t.at \notin {"idle", "begin"}

ResolverTypeOK ==
    /\ nextId \in Nat \ {0}
    /\ order \in Seq(1 .. nextId - 1)
    /\ resolutions \in [DOMAIN resolutions -> ResolutionType]
    /\ active = [u \in DOMAIN active |-> active[u]]
    /\ IsWorker(worker) /\ worker.status \in Statuses
    /\ profile \in Users \cup {None}

\* Each known resolution is in the order of history, and nothing else is.
HistoryExact == DOMAIN resolutions = ToSet(order)

\* The worker's URL is that of its resolution, as long as that is known; an id is never used
\* again.
WorkerAgrees ==
    Begun(worker) =>
        /\ worker.id \in 1 .. nextId - 1
        /\ worker.id \in DOMAIN resolutions => resolutions[worker.id].url = worker.url

\* A request is under way only while the worker waits for one.
Requesting == {"players", "index", "month", "callback", "page"}
OnlyRequesting == http.at # "quiet" => worker.at \in Requesting

ResolverInv == ResolverTypeOK /\ HistoryExact /\ WorkerAgrees /\ OnlyRequesting /\ DedupIsLive

-----------------------------------------------------------------------------
(* The history: what trimming keeps.                                       *)

LEMMA LeastOf ==
    ASSUME NEW T \in SUBSET Nat, T # {}
    PROVE  \E x \in T : \A y \in T : ~(y < x)
  <1>1. \E x \in T : \A y \in T : ~(<<y, x>> \in OpToRel(<, Nat))
    BY NatLessThanWellFounded, WFMin
  <1>2. \A x \in T, y \in T : y < x => <<y, x>> \in OpToRel(<, Nat)
    BY DEF OpToRel
  <1> QED
    BY <1>1, <1>2

\* The loop of trim_history_unlocked ends: at the excess, or before the first element of A.
LEMMA TrimPoint ==
    ASSUME NEW e \in Nat, NEW A
    PROVE  \E k \in 0 .. e : (\A i \in 1 .. k : i \notin A) /\ (k = e \/ k + 1 \in A)
  <1> DEFINE T == {k \in 0 .. e : k = e \/ k + 1 \in A}
  <1>1. T \in SUBSET Nat /\ e \in T
    OBVIOUS
  <1>2. PICK k \in T : \A y \in T : ~(y < k)
    BY <1>1, LeastOf
  <1>3. \A i \in 1 .. k : i \notin A
    <2> SUFFICES ASSUME NEW i \in 1 .. k, i \in A PROVE FALSE
      OBVIOUS
    <2>1. i - 1 \in 0 .. e /\ (i - 1) + 1 = i /\ i - 1 < k
      OBVIOUS
    <2> QED  BY <1>2, <2>1
  <1> QED
    BY <1>2, <1>3

LEMMA TrimmedKeeps ==
    ASSUME NEW N, NEW seq \in Seq(N), NEW rs
    PROVE  /\ Trimmed(rs, seq) \in Seq(N)
           /\ ToSet(Trimmed(rs, seq)) \subseteq ToSet(seq)
           /\ \A id \in ToSet(seq) : Active(rs[id]) => id \in ToSet(Trimmed(rs, seq))
  <1> DEFINE excess == IF Len(seq) > MaxHistory THEN Len(seq) - MaxHistory ELSE 0
             Fits(k) == /\ \A i \in 1 .. k : ~Active(rs[seq[i]])
                        /\ k = excess \/ Active(rs[seq[k + 1]])
             n == CHOOSE k \in 0 .. excess : Fits(k)
  <1>1. Len(seq) \in Nat /\ DOMAIN seq = 1 .. Len(seq) /\ \A i \in 1 .. Len(seq) : seq[i] \in N
    BY LenProperties
  <1>2. excess \in Nat /\ excess <= Len(seq)
    BY <1>1, ResolverConstants
  <1>3. \E k \in 0 .. excess : Fits(k)
    <2> DEFINE live == {i \in 1 .. Len(seq) : Active(rs[seq[i]])}
    <2> HIDE DEF excess, live, Fits, n
    <2>0. \A B : \E k \in 0 .. excess : (\A i \in 1 .. k : i \notin B) /\ (k = excess \/ k + 1 \in B)
      BY <1>2, TrimPoint
    <2>1. \E k \in 0 .. excess : (\A i \in 1 .. k : i \notin live) /\ (k = excess \/ k + 1 \in live)
      BY <2>0
    <2>2. PICK k \in 0 .. excess : (\A i \in 1 .. k : i \notin live) /\ (k = excess \/ k + 1 \in live)
      BY <2>1
    <2> USE DEF live, Fits
    <2>3. Fits(k)
      BY <1>1, <1>2, <2>2
    <2> QED  BY <2>3
  <1> HIDE DEF Fits
  <1>4. n \in 0 .. excess /\ Fits(n)
    BY <1>3
  <1>5. Trimmed(rs, seq) = SubSeq(seq, n + 1, Len(seq))
    BY DEF Trimmed, Fits
  <1> HIDE DEF excess, n
  <1> DEFINE t == SubSeq(seq, n + 1, Len(seq))
  <1>6. /\ t \in Seq(N) /\ Len(t) = IF n + 1 <= Len(seq) THEN Len(seq) - (n + 1) + 1 ELSE 0
        /\ \A i \in 1 .. Len(seq) - (n + 1) + 1 : t[i] = seq[n + 1 + i - 1]
    BY <1>1, <1>2, <1>4, SubSeqProperties
  <1> HIDE DEF t
  <1>7. DOMAIN t = 1 .. Len(t)
    BY <1>6, LenProperties
  <1>8. /\ n \in Nat /\ Len(t) = Len(seq) - n
        /\ \A i \in 1 .. Len(t) : n + i \in 1 .. Len(seq) /\ t[i] = seq[n + i]
    <2>1. n \in Nat /\ n <= Len(seq)
      BY <1>1, <1>2, <1>4
    <2>2. Len(t) = Len(seq) - n /\ Len(seq) - (n + 1) + 1 = Len(seq) - n
      <3> DEFINE l == Len(seq)
      <3>1. l \in Nat /\ Len(t) = IF n + 1 <= l THEN l - (n + 1) + 1 ELSE 0
        BY <1>1, <1>6
      <3> HIDE DEF l
      <3>2. l - (n + 1) + 1 = l - n /\ (~(n + 1 <= l) => l - n = 0)
        BY <2>1, <3>1 DEF l
      <3> QED  BY <3>1, <3>2 DEF l
    <2>3. ASSUME NEW i \in 1 .. Len(t) PROVE n + i \in 1 .. Len(seq) /\ t[i] = seq[n + i]
      <3>1. i \in 1 .. Len(seq) - n /\ n + i \in 1 .. Len(seq) /\ n + 1 + i - 1 = n + i
        BY <1>1, <2>1, <2>2
      <3>2. t[i] = seq[n + 1 + i - 1]
        BY <1>6, <2>2, <3>1
      <3> QED  BY <3>1, <3>2
    <2> QED  BY <2>1, <2>2, <2>3
  <1>9. ToSet(t) \subseteq ToSet(seq)
    BY <1>1, <1>7, <1>8 DEF ToSet
  <1>10. ASSUME NEW id \in ToSet(seq), Active(rs[id]) PROVE id \in ToSet(t)
    <2>1. PICK j \in 1 .. Len(seq) : seq[j] = id
      BY <1>1 DEF ToSet
    <2>2. j > n
      BY <1>2, <1>4, <1>10, <2>1 DEF Fits
    <2>3. j - n \in 1 .. Len(t) /\ n + (j - n) = j
      BY <1>1, <1>8, <2>2
    <2>4. t[j - n] = id
      BY <1>8, <2>1, <2>3
    <2> QED  BY <1>7, <2>3, <2>4 DEF ToSet
  <1> QED
    BY <1>5, <1>6, <1>9, <1>10 DEF t

LEMMA RememberKeeps ==
    ASSUME NEW N, NEW seq \in Seq(N), NEW rs \in [ToSet(seq) -> ResolutionType], Remember(rs, seq)
    PROVE  /\ order' \in Seq(N) /\ HistoryExact'
           /\ resolutions' \in [DOMAIN resolutions' -> ResolutionType]
           /\ \A id \in DOMAIN resolutions' : id \in ToSet(seq) /\ resolutions'[id] = rs[id]
           /\ \A id \in ToSet(seq) : Active(rs[id]) => id \in DOMAIN resolutions'
  <1>1. order' = Trimmed(rs, seq) /\ resolutions' = [k \in ToSet(order') |-> rs[k]]
    BY DEF Remember, Entries
  <1>2. /\ order' \in Seq(N) /\ ToSet(order') \subseteq ToSet(seq)
        /\ \A id \in ToSet(seq) : Active(rs[id]) => id \in ToSet(order')
    BY <1>1, TrimmedKeeps
  <1>3. DOMAIN resolutions' = ToSet(order')
    BY <1>1
  <1>4. \A id \in ToSet(order') : resolutions'[id] = rs[id] /\ rs[id] \in ResolutionType
    BY <1>1, <1>2
  <1>5. resolutions' \in [ToSet(order') -> ResolutionType]
    BY <1>1, <1>4
  <1> QED
    BY <1>2, <1>3, <1>4, <1>5 DEF HistoryExact

LEMMA ToSetAppend ==
    ASSUME NEW N, NEW s \in Seq(N), NEW x \in N
    PROVE  Append(s, x) \in Seq(N) /\ ToSet(Append(s, x)) = ToSet(s) \cup {x}
  <1>1. /\ Append(s, x) \in Seq(N) /\ Len(Append(s, x)) = Len(s) + 1 /\ Len(s) \in Nat
        /\ \A i \in 1 .. Len(s) : Append(s, x)[i] = s[i]
        /\ Append(s, x)[Len(s) + 1] = x
    BY AppendProperties, LenProperties
  <1>2. DOMAIN s = 1 .. Len(s) /\ DOMAIN Append(s, x) = 1 .. Len(s) + 1
    BY <1>1, LenProperties
  <1>3. ToSet(Append(s, x)) \subseteq ToSet(s) \cup {x}
    BY <1>1, <1>2 DEF ToSet
  <1>4. ToSet(s) \subseteq ToSet(Append(s, x))
    BY <1>1, <1>2 DEF ToSet
  <1>5. x \in ToSet(Append(s, x))
    <2>1. Len(s) + 1 \in 1 .. Len(s) + 1
      BY <1>1
    <2> QED  BY <1>1, <1>2, <2>1 DEF ToSet
  <1> QED
    BY <1>1, <1>3, <1>4, <1>5

-----------------------------------------------------------------------------
(* The worker's record.                                                    *)

LEMMA IdleWorker == IsWorker(Idle) /\ Idle.at = "idle" /\ Idle.status = "running" /\ "running" \in Statuses
  BY DEF Idle, IsWorker, WorkerFields, Statuses

LEMMA ChangedAt ==
    ASSUME IsWorker(worker), NEW at, NEW t, t = [worker EXCEPT !.at = at]
    PROVE  /\ IsWorker(t) /\ t.at = at /\ t.id = worker.id /\ t.url = worker.url
           /\ t.status = worker.status
  BY DEF IsWorker, WorkerFields

\* The steps of the worker that leave the manager alone: it stays with its resolution, or drops it.
LEMMA QuietStep ==
    ASSUME ResolverInv, UNCHANGED <<resolutions, active, order, nextId>>,
           profile' \in Users \cup {None},
           IsWorker(worker'), worker'.status \in Statuses,
           \/ ~Begun(worker')
           \/ Begun(worker) /\ worker'.id = worker.id /\ worker'.url = worker.url,
           OnlyRequesting'
    PROVE  ResolverInv'
  <1>1. ResolverTypeOK' /\ HistoryExact' /\ DedupIsLive'
    BY DEF ResolverInv, ResolverTypeOK, HistoryExact, DedupIsLive
  <1>2. WorkerAgrees'
    BY DEF ResolverInv, WorkerAgrees
  <1> QED
    BY <1>1, <1>2 DEF ResolverInv

\* What a request can be asked of.
LEMMA RequestFacts ==
    /\ Quiet.at = "quiet" /\ \A b \in BOOLEAN : Sending(b).at = "sending"
  BY DEF Quiet, Sending

-----------------------------------------------------------------------------
(* The steps of the search.                                                *)

\* The worker goes on with its resolution, and waits for every request it makes.
GoesOn ==
    /\ IsWorker(worker') /\ Begun(worker') /\ worker'.status \in Statuses
    /\ worker'.id = worker.id /\ worker'.url = worker.url
    /\ OnlyRequesting'

LEMMA GoesOnStep ==
    ASSUME ResolverInv, UNCHANGED <<resolutions, active, order, nextId, profile>>,
           Begun(worker), GoesOn
    PROVE  ResolverInv'
  BY QuietStep DEF GoesOn, ResolverInv, ResolverTypeOK

LEMMA LocalGoesOn ==
    ASSUME ResolverInv, LookLocally \/ Transfer \/ Cancelled \/ Add
    PROVE  Begun(worker) /\ GoesOn
  <1>0. IsWorker(worker) /\ worker.status \in Statuses /\ OnlyRequesting
    BY DEF ResolverInv, ResolverTypeOK
  <1>1. CASE LookLocally
    <2>1. worker.at = "local" /\ http.at = "quiet"
      BY <1>0, <1>1 DEF LookLocally, Working, OnlyRequesting, Requesting
    <2>2. CASE Go("add") /\ UNCHANGED http
      BY <1>0, <2>1, <2>2, ChangedAt DEF Go, GoesOn, Begun, OnlyRequesting
    <2>3. CASE Go("players")
      BY <1>0, <2>1, <2>3, ChangedAt DEF Go, GoesOn, Begun, OnlyRequesting, Requesting
    <2> QED  BY <1>1, <2>2, <2>3 DEF LookLocally
  <1>2. CASE Transfer
    <2>1. http.at # "quiet" /\ worker' = worker
      BY <1>2 DEF Transfer, HttpStep, Respond, Redirect, Break, Refuse, Wake, Abort
    <2>2. worker.at \in Requesting
      BY <1>0, <2>1 DEF OnlyRequesting
    <2> QED  BY <1>0, <2>1, <2>2 DEF GoesOn, Begun, OnlyRequesting, Requesting
  <1>3. CASE Cancelled
    <2>1. worker.at \in Requesting
      BY <1>0, <1>3 DEF Cancelled, Done, OnlyRequesting
    <2>2. http' = Quiet /\ worker' = [worker EXCEPT !.at = "final", !.status = "cancelled"]
      BY <1>3 DEF Cancelled
    <2>3. /\ IsWorker(worker') /\ worker'.at = "final" /\ worker'.status = "cancelled"
          /\ worker'.id = worker.id /\ worker'.url = worker.url
      BY <1>0, <2>2 DEF IsWorker, WorkerFields
    <2> QED  BY <2>1, <2>2, <2>3, RequestFacts DEF GoesOn, Begun, OnlyRequesting, Requesting, Statuses
  <1>4. CASE Add
    <2>1. worker.at = "add" /\ http.at = "quiet" /\ http' = http
      BY <1>0, <1>4 DEF Add, Working, OnlyRequesting, Requesting
    <2>2. PICK ok \in BOOLEAN : worker' = [worker EXCEPT !.at = "final", !.status = Added(ok)]
      BY <1>4 DEF Add
    <2>3. Added(ok) \in Statuses
      BY DEF Added, Statuses
    <2>4. /\ IsWorker(worker') /\ worker'.at = "final" /\ worker'.status = Added(ok)
          /\ worker'.id = worker.id /\ worker'.url = worker.url
      BY <1>0, <2>2 DEF IsWorker, WorkerFields
    <2> QED  BY <2>1, <2>3, <2>4 DEF GoesOn, Begun, OnlyRequesting
  <1> QED
    BY <1>1, <1>2, <1>3, <1>4

LEMMA PlayersGoOn ==
    ASSUME ResolverInv, PlayersKnown \/ NextUser \/ FromUrl \/ Fallback
    PROVE  Begun(worker) /\ GoesOn
  <1>0. IsWorker(worker) /\ worker.status \in Statuses /\ OnlyRequesting
    BY DEF ResolverInv, ResolverTypeOK
  <1>1. CASE PlayersKnown
    <2>1. worker.at = "players" /\ http' = Quiet
      BY <1>1 DEF PlayersKnown, Working
    <2>2. PICK names \in {<<>>} \cup (IF http.result = "ok" THEN Users \X Users ELSE {}) :
              worker' = [worker EXCEPT
                  !.at = "next",
                  !.todo = Distinct(IF worker.finding THEN names ELSE names \o NamedUsers)]
      BY <1>1 DEF PlayersKnown
    <2> DEFINE todo == Distinct(IF worker.finding THEN names ELSE names \o NamedUsers)
    <2>3. worker' = [worker EXCEPT !.at = "next", !.todo = todo]
      BY <2>2
    <2> HIDE DEF todo
    <2>4. /\ IsWorker(worker') /\ worker'.at = "next" /\ worker'.id = worker.id
          /\ worker'.url = worker.url /\ worker'.status = worker.status
      BY <1>0, <2>3 DEF IsWorker, WorkerFields
    <2> QED  BY <1>0, <2>1, <2>4, RequestFacts DEF GoesOn, Begun, OnlyRequesting
  <1>2. CASE NextUser
    <2>1. worker.at = "next" /\ worker' = [worker EXCEPT !.at = "index"]
      BY <1>2 DEF NextUser, Working, Go
    <2> QED  BY <1>0, <2>1, ChangedAt DEF GoesOn, Begun, OnlyRequesting, Requesting
  <1>3. CASE FromUrl
    <2>1. worker.at = "next" /\ worker' = [worker EXCEPT !.at = "players", !.finding = TRUE]
      BY <1>3 DEF FromUrl, Working
    <2>2. IsWorker(worker') /\ worker'.at = "players"
      BY <1>0, <2>1 DEF IsWorker, WorkerFields
    <2>3. worker'.id = worker.id /\ worker'.url = worker.url /\ worker'.status = worker.status
      BY <1>0, <2>1 DEF IsWorker, WorkerFields
    <2> QED  BY <1>0, <2>1, <2>2, <2>3 DEF GoesOn, Begun, OnlyRequesting, Requesting
  <1>4. CASE Fallback
    <2>1. worker.at = "next"
      BY <1>4 DEF Fallback, Working
    <2>2. worker' = [worker EXCEPT !.at = "callback"] \/ worker' = [worker EXCEPT !.at = "page"]
      BY <1>4 DEF Fallback, Callback, Go
    <2> QED  BY <1>0, <2>1, <2>2, ChangedAt DEF GoesOn, Begun, OnlyRequesting, Requesting
  <1> QED
    BY <1>1, <1>2, <1>3, <1>4

\* The ends of a step of the archive search: the next month, the next user, the game or nothing.
LEMMA SearchEnds ==
    ASSUME ResolverInv, worker.at \in {"index", "month"}, NEW x, NEW y,
           \/ worker' = [worker EXCEPT !.at = "month", !.months = x]
           \/ worker.at = "month" /\ worker' = [worker EXCEPT !.months = x]
           \/ /\ http' = Quiet
              /\ \/ worker' = [worker EXCEPT !.at = "next", !.todo = x]
                 \/ worker' = [[worker EXCEPT !.at = "next", !.todo = x] EXCEPT !.missed = y]
                 \/ worker' = [worker EXCEPT !.at = "add"]
                 \/ worker' = [worker EXCEPT !.at = "final", !.status = "needs_recovery"]
    PROVE  Begun(worker) /\ GoesOn
  <1>0. IsWorker(worker) /\ worker.status \in Statuses /\ Begun(worker) /\ "needs_recovery" \in Statuses
    BY DEF ResolverInv, ResolverTypeOK, Begun, Statuses
  <1>1. CASE \/ worker' = [worker EXCEPT !.at = "month", !.months = x]
             \/ worker.at = "month" /\ worker' = [worker EXCEPT !.months = x]
    <2>1. worker'.at = "month"
      BY <1>0, <1>1 DEF IsWorker, WorkerFields
    <2>2. /\ IsWorker(worker') /\ worker'.id = worker.id
          /\ worker'.url = worker.url /\ worker'.status = worker.status
      BY <1>0, <1>1 DEF IsWorker, WorkerFields
    <2> QED  BY <1>0, <2>1, <2>2 DEF GoesOn, Begun, OnlyRequesting, Requesting
  <1>2. CASE /\ http' = Quiet
             /\ \/ worker' = [worker EXCEPT !.at = "next", !.todo = x]
                \/ worker' = [[worker EXCEPT !.at = "next", !.todo = x] EXCEPT !.missed = y]
    <2> DEFINE next == [worker EXCEPT !.at = "next", !.todo = x]
    <2>1. /\ IsWorker(next) /\ next.at = "next" /\ next.id = worker.id
          /\ next.url = worker.url /\ next.status = worker.status
      BY <1>0 DEF IsWorker, WorkerFields
    <2>2. worker' = next \/ worker' = [next EXCEPT !.missed = y]
      BY <1>2
    <2> HIDE DEF next
    <2>3. /\ IsWorker(worker') /\ worker'.at = "next" /\ worker'.id = worker.id
          /\ worker'.url = worker.url /\ worker'.status = worker.status
      BY <2>1, <2>2 DEF IsWorker, WorkerFields
    <2> QED  BY <1>0, <1>2, <2>3, RequestFacts DEF GoesOn, Begun, OnlyRequesting
  <1>3. CASE http' = Quiet /\ worker' = [worker EXCEPT !.at = "add"]
    BY <1>0, <1>3, ChangedAt, RequestFacts DEF GoesOn, Begun, OnlyRequesting
  <1>4. CASE http' = Quiet /\ worker' = [worker EXCEPT !.at = "final", !.status = "needs_recovery"]
    <2>1. /\ IsWorker(worker') /\ worker'.at = "final" /\ worker'.status = "needs_recovery"
          /\ worker'.id = worker.id /\ worker'.url = worker.url
      BY <1>0, <1>4 DEF IsWorker, WorkerFields
    <2> QED  BY <1>0, <1>4, <2>1, RequestFacts DEF GoesOn, Begun, OnlyRequesting
  <1> QED
    BY <1>1, <1>2, <1>3, <1>4

LEMMA ArchiveGoesOn ==
    ASSUME ResolverInv, Listed \/ MonthIndexed \/ MonthFound \/ ArchiveFailed
    PROVE  Begun(worker) /\ GoesOn
  <1>0. worker.at \in {"index", "month"}
    BY DEF Listed, MonthIndexed, MonthFound, ArchiveFailed, Working
  <1>1. CASE Listed
    <2>1. \E x, y :
             \/ worker' = [worker EXCEPT !.at = "month", !.months = x]
             \/ http' = Quiet /\ worker' = [[worker EXCEPT !.at = "next", !.todo = x] EXCEPT !.missed = y]
      BY <1>1, Zenon DEF Listed, Asked
    <2> QED  BY <1>0, <2>1, SearchEnds
  <1>2. CASE MonthIndexed
    <2>1. \E x :
             \/ worker.at = "month" /\ worker' = [worker EXCEPT !.months = x]
             \/ http' = Quiet /\ worker' = [worker EXCEPT !.at = "next", !.todo = x]
             \/ http' = Quiet /\ worker' = [worker EXCEPT !.at = "add"]
             \/ http' = Quiet /\ worker' = [worker EXCEPT !.at = "final", !.status = "needs_recovery"]
      BY <1>2, Zenon DEF MonthIndexed, Asked, Go, Working
    <2> QED  BY <1>0, <2>1, SearchEnds
  <1>3. CASE MonthFound
    <2>1. \E x, y :
             \/ worker.at = "month" /\ worker' = [worker EXCEPT !.months = x]
             \/ http' = Quiet /\ worker' = [[worker EXCEPT !.at = "next", !.todo = x] EXCEPT !.missed = y]
             \/ http' = Quiet /\ worker' = [worker EXCEPT !.at = "next", !.todo = x]
             \/ http' = Quiet /\ worker' = [worker EXCEPT !.at = "add"]
      BY <1>3, Zenon DEF MonthFound, Asked, Go, Working
    <2> QED  BY <1>0, <2>1, SearchEnds
  <1>4. CASE ArchiveFailed
    <2>1. \E x, y : http' = Quiet /\
             \/ worker' = [worker EXCEPT !.at = "next", !.todo = x]
             \/ worker' = [[worker EXCEPT !.at = "next", !.todo = x] EXCEPT !.missed = y]
             \/ worker' = [worker EXCEPT !.at = "final", !.status = "needs_recovery"]
      BY <1>4, Zenon DEF ArchiveFailed, Asked
    <2> QED  BY <1>0, <2>1, SearchEnds
  <1> QED
    BY <1>1, <1>2, <1>3, <1>4

LEMMA PagesGoOn ==
    ASSUME ResolverInv, CallbackAnswered \/ PageAnswered
    PROVE  Begun(worker) /\ GoesOn
  <1>0. IsWorker(worker) /\ worker.status \in Statuses /\ "needs_recovery" \in Statuses
    BY DEF ResolverInv, ResolverTypeOK, Statuses
  <1>1. worker.at \in {"callback", "page"}
    BY DEF CallbackAnswered, PageAnswered, Working
  <1>2. \/ worker' = [worker EXCEPT !.at = "callback"] \/ worker' = [worker EXCEPT !.at = "page"]
        \/ http' = Quiet /\ worker' = [worker EXCEPT !.at = "add"]
        \/ http' = Quiet /\ worker' = [worker EXCEPT !.at = "final", !.status = "needs_recovery"]
    BY Zenon DEF CallbackAnswered, PageAnswered, Callback, Go
  <1>3. CASE worker' = [worker EXCEPT !.at = "callback"] \/ worker' = [worker EXCEPT !.at = "page"]
    BY <1>0, <1>1, <1>3, ChangedAt DEF GoesOn, Begun, OnlyRequesting, Requesting
  <1>4. CASE http' = Quiet /\ worker' = [worker EXCEPT !.at = "add"]
    BY <1>0, <1>1, <1>4, ChangedAt, RequestFacts DEF GoesOn, Begun, OnlyRequesting
  <1>5. CASE http' = Quiet /\ worker' = [worker EXCEPT !.at = "final", !.status = "needs_recovery"]
    <2>1. /\ IsWorker(worker') /\ worker'.at = "final" /\ worker'.status = "needs_recovery"
          /\ worker'.id = worker.id /\ worker'.url = worker.url
      BY <1>0, <1>5 DEF IsWorker, WorkerFields
    <2> QED  BY <1>1, <1>0, <1>5, <2>1, RequestFacts DEF GoesOn, Begun, OnlyRequesting
  <1> QED
    BY <1>2, <1>3, <1>4, <1>5

-----------------------------------------------------------------------------
(* The critical sections.                                                  *)

\* Removing the entry of a URL, as cancel_resolution and the last critical section do.
LEMMA WithoutFacts ==
    ASSUME NEW url
    PROVE  /\ Without(active, url) = [u \in DOMAIN Without(active, url) |-> Without(active, url)[u]]
           /\ \A u \in DOMAIN Without(active, url) :
                  u \in DOMAIN active /\ u # url /\ Without(active, url)[u] = active[u]
  BY DEF Without, Entries

LEMMA ResolveStep ==
    ASSUME ResolverInv, NEW url \in Urls, NEW user \in Users \cup {None}, Resolve(url, user)
    PROVE  ResolverInv'
  <1>0. ResolverTypeOK /\ HistoryExact /\ WorkerAgrees /\ OnlyRequesting /\ DedupIsLive
    BY DEF ResolverInv
  <1> DEFINE r == [url |-> url, user |-> user, status |-> "queued"]
             rs == [i \in DOMAIN resolutions \cup {nextId} |->
                       IF i = nextId THEN r ELSE resolutions[i]]
             seq == Append(order, nextId)
             N == 1 .. nextId
  <1>1. profile \in Users \cup {None}
    BY <1>0 DEF ResolverTypeOK
  <1>2. r \in ResolutionType /\ Active(r) /\ r.url = url
    BY DEF ResolutionType, Active, Statuses
  <1> HIDE DEF r
  <1>3. /\ Remember(rs, seq)
        /\ active' = [u \in DOMAIN active \cup {url} |-> IF u = url THEN nextId ELSE active[u]]
        /\ nextId' = nextId + 1
        /\ UNCHANGED <<http, worker, profile>>
    BY DEF Resolve, repository, r
  <1>4. order \in Seq(N) /\ nextId \in N
    <2>1. 1 .. nextId - 1 \subseteq N /\ nextId \in N
      BY <1>0 DEF ResolverTypeOK
    <2>2. Seq(1 .. nextId - 1) \subseteq Seq(N)
      BY <2>1
    <2> QED  BY <1>0, <2>1, <2>2 DEF ResolverTypeOK
  <1>5. seq \in Seq(N) /\ ToSet(seq) = DOMAIN resolutions \cup {nextId}
    BY <1>0, <1>4, ToSetAppend DEF HistoryExact
  <1>6. rs \in [ToSet(seq) -> ResolutionType]
    BY <1>0, <1>2, <1>5 DEF ResolverTypeOK
  <1>7. \A id \in DOMAIN resolutions : id \in 1 .. nextId - 1 /\ rs[id] = resolutions[id]
    <2>1. \A i \in DOMAIN order : order[i] \in 1 .. nextId - 1
      BY <1>0, LenProperties DEF ResolverTypeOK
    <2>2. \A id \in DOMAIN resolutions : id \in 1 .. nextId - 1
      BY <1>0, <2>1 DEF HistoryExact, ToSet
    <2>3. nextId \notin 1 .. nextId - 1
      BY <1>0 DEF ResolverTypeOK
    <2> QED  BY <2>2, <2>3
  <1>8. rs[nextId] = r
    OBVIOUS
  <1> HIDE DEF rs, seq
  <1>9. /\ order' \in Seq(N) /\ HistoryExact'
        /\ resolutions' \in [DOMAIN resolutions' -> ResolutionType]
        /\ \A id \in DOMAIN resolutions' : id \in ToSet(seq) /\ resolutions'[id] = rs[id]
        /\ \A id \in ToSet(seq) : Active(rs[id]) => id \in DOMAIN resolutions'
    BY <1>3, <1>5, <1>6, RememberKeeps
  <1>10. ResolverTypeOK'
    <2>1. N = 1 .. nextId' - 1 /\ nextId' \in Nat \ {0}
      BY <1>0, <1>3 DEF ResolverTypeOK
    <2>2. active' = [u \in DOMAIN active' |-> active'[u]]
      BY <1>3
    <2> QED  BY <1>0, <1>1, <1>3, <1>9, <2>1, <2>2 DEF ResolverTypeOK
  <1>11. WorkerAgrees'
    <2> SUFFICES ASSUME Begun(worker)
                 PROVE  /\ worker.id \in 1 .. nextId' - 1
                        /\ worker.id \in DOMAIN resolutions' => resolutions'[worker.id].url = worker.url
      BY <1>3 DEF WorkerAgrees
    <2>1. /\ worker.id \in 1 .. nextId - 1
          /\ worker.id \in DOMAIN resolutions => resolutions[worker.id].url = worker.url
      BY <1>0 DEF WorkerAgrees
    <2>2. worker.id \in 1 .. nextId' - 1 /\ worker.id # nextId
      BY <1>0, <1>3, <2>1 DEF ResolverTypeOK
    <2> QED  BY <1>5, <1>7, <1>9, <2>1, <2>2
  <1>12. DedupIsLive'
    <2> SUFFICES ASSUME NEW u \in DOMAIN active'
                 PROVE  /\ active'[u] \in DOMAIN resolutions'
                        /\ Active(resolutions'[active'[u]]) /\ resolutions'[active'[u]].url = u
      BY DEF DedupIsLive
    <2>1. CASE u = url
      BY <1>2, <1>3, <1>5, <1>8, <1>9, <2>1
    <2>2. CASE u # url
      <3>1. u \in DOMAIN active /\ active'[u] = active[u]
        BY <1>3, <2>2
      <3>2. /\ active[u] \in DOMAIN resolutions /\ Active(resolutions[active[u]])
            /\ resolutions[active[u]].url = u
        BY <1>0, <3>1 DEF DedupIsLive
      <3> QED  BY <1>5, <1>7, <1>9, <3>1, <3>2
    <2> QED  BY <2>1, <2>2
  <1>13. OnlyRequesting'
    BY <1>0, <1>3 DEF OnlyRequesting
  <1> QED
    BY <1>9, <1>10, <1>11, <1>12, <1>13 DEF ResolverInv

LEMMA CancelStep ==
    ASSUME ResolverInv, NEW id, CancelResolution(id)
    PROVE  ResolverInv'
  <1>0. ResolverTypeOK /\ HistoryExact /\ WorkerAgrees /\ OnlyRequesting /\ DedupIsLive
    BY DEF ResolverInv
  <1>1. /\ id \in DOMAIN resolutions
        /\ resolutions' = [resolutions EXCEPT ![id].status = "cancelled"]
        /\ active' = Without(active, resolutions[id].url)
        /\ UNCHANGED <<http, order, nextId, worker, profile>>
    BY DEF CancelResolution, repository
  <1>2. [resolutions[id] EXCEPT !.status = "cancelled"] \in ResolutionType
        /\ [resolutions[id] EXCEPT !.status = "cancelled"].url = resolutions[id].url
    BY <1>0, <1>1 DEF ResolverTypeOK, ResolutionType, Statuses
  <1>3. /\ DOMAIN resolutions' = DOMAIN resolutions
        /\ resolutions' \in [DOMAIN resolutions' -> ResolutionType]
        /\ resolutions'[id].url = resolutions[id].url
        /\ \A j \in DOMAIN resolutions \ {id} : resolutions'[j] = resolutions[j]
    BY <1>0, <1>1, <1>2 DEF ResolverTypeOK
  <1>4. /\ active' = [u \in DOMAIN active' |-> active'[u]]
        /\ \A u \in DOMAIN active' : u \in DOMAIN active /\ u # resolutions[id].url /\ active'[u] = active[u]
    BY <1>1, WithoutFacts
  <1>5. ResolverTypeOK' /\ HistoryExact' /\ OnlyRequesting'
    BY <1>0, <1>1, <1>3, <1>4 DEF ResolverTypeOK, HistoryExact, OnlyRequesting
  <1>6. WorkerAgrees'
    BY <1>0, <1>1, <1>3 DEF WorkerAgrees
  <1>7. DedupIsLive'
    BY <1>0, <1>3, <1>4 DEF DedupIsLive
  <1> QED
    BY <1>5, <1>6, <1>7 DEF ResolverInv

LEMMA BeginStep == ASSUME ResolverInv, Begin PROVE ResolverInv'
  <1>0. ResolverTypeOK /\ HistoryExact /\ WorkerAgrees /\ OnlyRequesting /\ DedupIsLive
    BY DEF ResolverInv
  <1>1. worker.at = "begin" /\ http.at = "quiet" /\ UNCHANGED <<http, active, order, nextId, profile>>
    BY <1>0 DEF Begin, Working, OnlyRequesting, Requesting, Others
  <1>2. CASE worker' = Idle /\ UNCHANGED resolutions
    BY <1>0, <1>1, <1>2, IdleWorker, QuietStep DEF Begun, OnlyRequesting, ResolverTypeOK
  <1>3. CASE ~(worker.id \notin DOMAIN resolutions \/ resolutions[worker.id].status = "cancelled")
    <2> DEFINE id == worker.id
    <2>1. /\ id \in DOMAIN resolutions
          /\ resolutions' = [resolutions EXCEPT ![id].status = "running"]
          /\ worker' = [worker EXCEPT !.at = "local", !.url = resolutions[id].url,
                                      !.user = resolutions[id].user]
      BY <1>3 DEF Begin
    <2>2. /\ IsWorker(worker') /\ worker'.at = "local" /\ worker'.id = id
          /\ worker'.url = resolutions[id].url /\ worker'.status = worker.status
      BY <1>0, <2>1 DEF ResolverTypeOK, IsWorker, WorkerFields
    <2> HIDE DEF id
    <2>3. /\ [resolutions[id] EXCEPT !.status = "running"] \in ResolutionType
          /\ [resolutions[id] EXCEPT !.status = "running"].url = resolutions[id].url
          /\ Active([resolutions[id] EXCEPT !.status = "running"])
      BY <1>0, <2>1 DEF ResolverTypeOK, ResolutionType, Statuses, Active
    <2>4. /\ DOMAIN resolutions' = DOMAIN resolutions
          /\ resolutions' \in [DOMAIN resolutions' -> ResolutionType]
          /\ resolutions'[id].url = resolutions[id].url /\ Active(resolutions'[id])
          /\ \A j \in DOMAIN resolutions \ {id} : resolutions'[j] = resolutions[j]
      BY <1>0, <2>1, <2>3 DEF ResolverTypeOK
    <2>5. ResolverTypeOK' /\ HistoryExact' /\ OnlyRequesting'
      BY <1>0, <1>1, <2>2, <2>4 DEF ResolverTypeOK, HistoryExact, OnlyRequesting
    <2>6. WorkerAgrees'
      <3>1. \A i \in DOMAIN order : order[i] \in 1 .. nextId - 1
        BY <1>0, LenProperties DEF ResolverTypeOK
      <3>2. id \in 1 .. nextId - 1
        BY <1>0, <2>1, <3>1 DEF HistoryExact, ToSet
      <3> QED  BY <1>1, <2>2, <2>4, <3>2 DEF WorkerAgrees
    <2>7. DedupIsLive'
      BY <1>0, <1>1, <2>4 DEF DedupIsLive
    <2> QED  BY <2>5, <2>6, <2>7 DEF ResolverInv
  <1> QED
    BY <1>2, <1>3 DEF Begin

LEMMA FinalStep == ASSUME ResolverInv, Final PROVE ResolverInv'
  <1>0. ResolverTypeOK /\ HistoryExact /\ WorkerAgrees /\ OnlyRequesting /\ DedupIsLive
    BY DEF ResolverInv
  <1> DEFINE id == worker.id
             rs == [resolutions EXCEPT ![id].status = Kept(@, worker.status)]
             N == 1 .. nextId - 1
  <1>1. /\ worker.at = "final" /\ id \in DOMAIN resolutions
        /\ Remember(rs, order) /\ active' = Without(active, worker.url) /\ worker' = Idle
        /\ UNCHANGED <<http, nextId, profile>>
    BY DEF Final, Working, Others
  <1>2. http.at = "quiet" /\ resolutions[id].url = worker.url
    BY <1>0, <1>1 DEF OnlyRequesting, Requesting, WorkerAgrees, Begun
  <1>3. Kept(resolutions[id].status, worker.status) \in Statuses
    BY <1>0, <1>1 DEF Kept, ResolverTypeOK, ResolutionType
  <1>4. /\ [resolutions[id] EXCEPT !.status = Kept(@, worker.status)] \in ResolutionType
        /\ [resolutions[id] EXCEPT !.status = Kept(@, worker.status)].url = resolutions[id].url
    BY <1>0, <1>1, <1>3 DEF ResolverTypeOK, ResolutionType
  <1>5. /\ rs \in [ToSet(order) -> ResolutionType]
        /\ \A j \in DOMAIN resolutions : rs[j].url = resolutions[j].url /\ (j # id => rs[j] = resolutions[j])
    BY <1>0, <1>1, <1>4 DEF ResolverTypeOK, HistoryExact
  <1> HIDE DEF rs, id
  <1>6. /\ order' \in Seq(N) /\ HistoryExact'
        /\ resolutions' \in [DOMAIN resolutions' -> ResolutionType]
        /\ \A j \in DOMAIN resolutions' : j \in ToSet(order) /\ resolutions'[j] = rs[j]
        /\ \A j \in ToSet(order) : Active(rs[j]) => j \in DOMAIN resolutions'
    BY <1>0, <1>1, <1>5, RememberKeeps DEF ResolverTypeOK
  <1>7. /\ active' = [u \in DOMAIN active' |-> active'[u]]
        /\ \A u \in DOMAIN active' : u \in DOMAIN active /\ u # worker.url /\ active'[u] = active[u]
    BY <1>1, WithoutFacts
  <1>8. ResolverTypeOK' /\ OnlyRequesting'
    BY <1>0, <1>1, <1>2, <1>6, <1>7, IdleWorker DEF ResolverTypeOK, OnlyRequesting
  <1>9. WorkerAgrees'
    BY <1>1, IdleWorker DEF WorkerAgrees, Begun
  <1>10. DedupIsLive'
    <2> SUFFICES ASSUME NEW u \in DOMAIN active'
                 PROVE  /\ active'[u] \in DOMAIN resolutions'
                        /\ Active(resolutions'[active'[u]]) /\ resolutions'[active'[u]].url = u
      BY DEF DedupIsLive
    <2>1. /\ active[u] \in DOMAIN resolutions /\ Active(resolutions[active[u]])
          /\ resolutions[active[u]].url = u /\ active'[u] = active[u] /\ u # worker.url
      BY <1>0, <1>7 DEF DedupIsLive
    <2>2. active[u] # id
      BY <1>2, <2>1
    <2> QED  BY <1>0, <1>5, <1>6, <2>1, <2>2 DEF HistoryExact
  <1> QED
    BY <1>6, <1>8, <1>9, <1>10 DEF ResolverInv

LEMMA OtherSteps ==
    ASSUME ResolverInv,
           \/ \E url \in Urls, user \in Users \cup {None} : Ask(url, user)
           \/ ResolveKnown \/ TakeResolution \/ Forgotten \/ Shutdown \/ Joined \/ UNCHANGED vars
    PROVE  ResolverInv'
  <1>0. ResolverTypeOK /\ OnlyRequesting
    BY DEF ResolverInv
  <1>1. UNCHANGED <<resolutions, active, order, nextId, http>>
    BY DEF Ask, ResolveKnown, TakeResolution, Forgotten, Shutdown, Joined, vars, manager
  <1>2. profile' \in Users \cup {None}
    BY <1>0 DEF Ask, ResolveKnown, TakeResolution, Forgotten, Shutdown, Joined, vars, repository,
                Others, Configured, ResolverTypeOK
  <1>3. CASE TakeResolution
    <2>1. worker' = [Idle EXCEPT !.at = "begin", !.id = Head(queue)] /\ worker.at = "idle"
      BY <1>3 DEF TakeResolution
    <2>2. IsWorker(worker') /\ worker'.at = "begin" /\ worker'.status = "running"
      BY <2>1, IdleWorker DEF IsWorker, WorkerFields
    <2> QED  BY <1>0, <1>1, <1>2, <2>1, <2>2, IdleWorker, QuietStep DEF Begun, OnlyRequesting, Requesting
  <1>4. CASE Forgotten
    <2>1. worker.at = "final" /\ worker' = Idle
      BY <1>4 DEF Forgotten, Working
    <2> QED  BY <1>0, <1>1, <1>2, <2>1, IdleWorker, QuietStep DEF Begun, OnlyRequesting, Requesting
  <1>5. CASE \/ \E url \in Urls, user \in Users \cup {None} : Ask(url, user)
             \/ ResolveKnown \/ Shutdown \/ Joined \/ UNCHANGED vars
    <2>1. worker' = worker
      BY <1>5 DEF Ask, ResolveKnown, Shutdown, Joined, vars
    <2> QED  BY <1>0, <1>1, <1>2, <2>1, QuietStep DEF Begun, OnlyRequesting, ResolverTypeOK
  <1> QED
    BY <1>3, <1>4, <1>5

LEMMA ResolverInitially == Init => ResolverInv
  <1> SUFFICES ASSUME Init PROVE ResolverInv
    OBVIOUS
  <1>1. /\ http = Quiet /\ worker = Idle /\ resolutions = <<>> /\ active = <<>> /\ order = <<>>
        /\ nextId = 1 /\ profile = None
    BY DEF Init
  <1>2. DOMAIN <<>> = {} /\ <<>> \in Seq(1 .. nextId - 1)
    BY EmptySeq
  <1>3. ResolverTypeOK
    BY <1>1, <1>2, IdleWorker DEF ResolverTypeOK
  <1>4. HistoryExact /\ WorkerAgrees /\ OnlyRequesting /\ DedupIsLive
    BY <1>1, <1>2, IdleWorker, RequestFacts DEF HistoryExact, ToSet, WorkerAgrees, Begun,
                                                OnlyRequesting, DedupIsLive
  <1> QED
    BY <1>3, <1>4 DEF ResolverInv

LEMMA ResolverNext == ResolverInv /\ [Next]_vars => ResolverInv'
  <1> SUFFICES ASSUME ResolverInv, [Next]_vars PROVE ResolverInv'
    OBVIOUS
  <1>1. ASSUME NEW url \in Urls, NEW user \in Users \cup {None},
               Ask(url, user) \/ Resolve(url, user)
        PROVE  ResolverInv'
    BY <1>1, ResolveStep, OtherSteps
  <1>2. ASSUME NEW id \in 1 .. MaxCalls, CancelResolution(id) PROVE ResolverInv'
    BY <1>2, CancelStep
  <1>3. CASE \/ LookLocally \/ Transfer \/ Cancelled \/ Add \/ PlayersKnown \/ NextUser \/ FromUrl
             \/ Fallback \/ Listed \/ MonthIndexed \/ MonthFound \/ ArchiveFailed
             \/ CallbackAnswered \/ PageAnswered
    <2>1. UNCHANGED <<resolutions, active, order, nextId, profile>>
      BY <1>3 DEF LookLocally, Transfer, Cancelled, Add, PlayersKnown, NextUser, FromUrl, Fallback,
                  Listed, MonthIndexed, MonthFound, ArchiveFailed, CallbackAnswered, PageAnswered,
                  manager, Others
    <2>2. Begun(worker) /\ GoesOn
      BY <1>3, LocalGoesOn, PlayersGoOn, ArchiveGoesOn, PagesGoOn
    <2> QED  BY <2>1, <2>2, GoesOnStep
  <1>4. CASE ResolveKnown \/ TakeResolution \/ Forgotten \/ Shutdown \/ Joined \/ UNCHANGED vars
    BY <1>4, OtherSteps
  <1>5. CASE Begin \/ Final
    BY <1>5, BeginStep, FinalStep
  <1> QED
    BY <1>1, <1>2, <1>3, <1>4, <1>5 DEF Next, WorkerStep

\* What resolve answers with for a URL it already works on is known and active: its lookup never
\* throws, whatever is cancelled, restarted and trimmed (IngestManager::resolve, run_resolution and
\* trim_history_unlocked).
THEOREM DeduplicationIsLive == Spec => []DedupIsLive
  <1>1. Spec => []ResolverInv
    BY ResolverInitially, ResolverNext, PTL DEF Spec
  <1>2. ResolverInv => DedupIsLive
    BY DEF ResolverInv
  <1> QED
    BY <1>1, <1>2, PTL

=============================================================================
