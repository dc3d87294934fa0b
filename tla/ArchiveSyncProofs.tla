-------------------------- MODULE ArchiveSyncProofs --------------------------
(***************************************************************************)
(* What ArchiveSync shows for any players, games, windows and limits, with *)
(* failing appends, crashes, shutdowns and any clock: a month checkpoint   *)
(* keeps the games it stands for, and a cancelled sync stays cancelled.    *)
(* The first rests on windows that end in the past, so that what a page    *)
(* shows of them no longer changes while a month is fetched and indexed;   *)
(* the second on ids that are never used twice in a process.               *)
(***************************************************************************)
EXTENDS ArchiveSync, TLAPS, SequenceTheorems, WellFoundedInduction

-----------------------------------------------------------------------------
(* The invariant.                                                          *)

SyncFields == {"status", "user", "days", "upper", "cutoff", "month", "completed", "at"}
SavedFields == {"status", "user", "days", "cutoff", "upper", "at"}
WorkerFields == {"at", "id", "sync", "month", "todo", "outcome", "handler", "profile"}
IsRecord(t, fields) == t = [f \in fields |-> t[f]]

\* A window that ended: nothing a page shows of it is still to be played.
Past(t) == t \in Nat /\ t <= now

HistoryOK ==
    /\ nextId \in Nat /\ order \in Seq(Nat) /\ ToSet(order) \subseteq DOMAIN syncs
    /\ syncs = [i \in DOMAIN syncs |-> syncs[i]]
    /\ \A id \in DOMAIN syncs : /\ id \in Nat /\ id < nextId
                                /\ IsRecord(syncs[id], SyncFields) /\ Past(syncs[id].upper)

SavedOK == IsRecord(saved, SavedFields) /\ Past(saved.upper)
CancellerOK == canceller # None => IsRecord(canceller, SavedFields) /\ Past(canceller.upper)

\* The worker's copy of its sync.
Copied(t) == t.at \notin {"idle", "begin"}
WorkerOK == /\ IsRecord(worker, WorkerFields)
            /\ Copied(worker) => IsRecord(worker.sync, SyncFields) /\ Past(worker.sync.upper)

\* What is left to do of the month, until it is checkpointed.
Due(t) == Wanted(t.sync, Page(t.sync.user, t.month))
MonthKept ==
    /\ worker.at = "import" => Due(worker) \subseteq worker.todo
    /\ worker.at = "index" => Due(worker) \subseteq (archive \cup worker.todo) \cap games
    /\ worker.at = "checkpoint" => Due(worker) \subseteq archive \cap games

SyncInv == now \in Nat /\ HistoryOK /\ SavedOK /\ CancellerOK /\ WorkerOK /\ MonthKept /\ CheckpointKeeps

-----------------------------------------------------------------------------
(* The history: what trimming keeps.                                       *)

LEMMA LeastOf ==
    ASSUME NEW T \in SUBSET Nat, T # {}
    PROVE  \E x \in T : \A y \in T : ~(y < x)
  <1>1. \E x \in T : \A y \in T : ~(<<y, x>> \in OpToRel(<, Nat))
    BY NatLessThanWellFounded, WFMin
  <1>2. \A x \in T, y \in T : y < x => <<y, x>> \in OpToRel(<, Nat)
    BY DEF OpToRel
  <1> QED
    BY <1>1, <1>2

\* The loop of trim_history_unlocked ends: at the excess, or before the first element of A.
LEMMA TrimPoint ==
    ASSUME NEW e \in Nat, NEW A
    PROVE  \E k \in 0 .. e : (\A i \in 1 .. k : i \notin A) /\ (k = e \/ k + 1 \in A)
  <1> DEFINE T == {k \in 0 .. e : k = e \/ k + 1 \in A}
  <1>1. T \in SUBSET Nat /\ e \in T
    OBVIOUS
  <1>2. PICK k \in T : \A y \in T : ~(y < k)
    BY <1>1, LeastOf
  <1>3. \A i \in 1 .. k : i \notin A
    <2> SUFFICES ASSUME NEW i \in 1 .. k, i \in A PROVE FALSE
      OBVIOUS
    <2>1. i - 1 \in 0 .. e /\ (i - 1) + 1 = i /\ i - 1 < k
      OBVIOUS
    <2> QED  BY <1>2, <2>1
  <1> QED
    BY <1>2, <1>3

LEMMA TrimmedKeeps ==
    ASSUME NEW seq \in Seq(Nat), NEW ss
    PROVE  /\ Trimmed(ss, seq).order \in Seq(Nat)
           /\ Trimmed(ss, seq).kept = ToSet(Trimmed(ss, seq).order)
           /\ Trimmed(ss, seq).kept \subseteq ToSet(seq)
  <1> DEFINE excess == IF Len(seq) > MaxHistory THEN Len(seq) - MaxHistory ELSE 0
             Fits(k) == /\ \A i \in 1 .. k : ~Active(ss[seq[i]])
                        /\ k = excess \/ Active(ss[seq[k + 1]])
             n == CHOOSE k \in 0 .. excess : Fits(k)
  <1>1. Len(seq) \in Nat /\ DOMAIN seq = 1 .. Len(seq)
    BY LenProperties
  <1>2. excess \in Nat /\ excess <= Len(seq)
    BY <1>1, SyncConstants
  <1>3. \E k \in 0 .. excess : Fits(k)
    <2> DEFINE live == {i \in 1 .. Len(seq) : Active(ss[seq[i]])}
    <2> HIDE DEF excess, live, Fits, n
    <2>0. \A B : \E k \in 0 .. excess : (\A i \in 1 .. k : i \notin B) /\ (k = excess \/ k + 1 \in B)
      BY <1>2, TrimPoint
    <2>1. \E k \in 0 .. excess : (\A i \in 1 .. k : i \notin live) /\ (k = excess \/ k + 1 \in live)
      BY <2>0
    <2>2. PICK k \in 0 .. excess : (\A i \in 1 .. k : i \notin live) /\ (k = excess \/ k + 1 \in live)
      BY <2>1
    <2> USE DEF live, Fits
    <2>3. Fits(k)
      BY <1>1, <1>2, <2>2
    <2> QED  BY <2>3
  <1> HIDE DEF Fits
  <1>4. n \in 0 .. excess
    BY <1>3
  <1>5. /\ Trimmed(ss, seq).order = SubSeq(seq, n + 1, Len(seq))
        /\ Trimmed(ss, seq).kept = {seq[i] : i \in n + 1 .. Len(seq)}
    BY DEF Trimmed, Fits
  <1> HIDE DEF excess, n
  <1>6. n \in Nat /\ n <= Len(seq)
    BY <1>1, <1>2, <1>4
  <1> DEFINE t == SubSeq(seq, n + 1, Len(seq))
             l == Len(seq)
  <1>7. /\ t \in Seq(Nat) /\ Len(t) = IF n + 1 <= l THEN l - (n + 1) + 1 ELSE 0
        /\ \A i \in 1 .. l - (n + 1) + 1 : t[i] = seq[n + 1 + i - 1]
    BY <1>1, <1>6, SubSeqProperties
  <1>8. l \in Nat /\ n <= l
    BY <1>1, <1>6
  <1> HIDE DEF t, l
  <1>9. DOMAIN t = 1 .. l - n /\ \A i \in 1 .. l - n : t[i] = seq[n + i]
    <2>1. DOMAIN t = 1 .. Len(t)
      BY <1>7, LenProperties
    <2>2. Len(t) = l - n /\ l - (n + 1) + 1 = l - n
      BY <1>6, <1>7, <1>8
    <2>3. \A i \in 1 .. l - n : n + 1 + i - 1 = n + i
      BY <1>6, <1>8
    <2> QED  BY <1>7, <2>1, <2>2, <2>3
  <1>10. ToSet(t) = {seq[i] : i \in n + 1 .. l}
    <2>1. \A i \in 1 .. l - n : n + i \in n + 1 .. l
      BY <1>6, <1>8
    <2>2. \A i \in n + 1 .. l : i - n \in 1 .. l - n /\ n + (i - n) = i
      BY <1>6, <1>8
    <2> QED  BY <1>9, <2>1, <2>2 DEF ToSet
  <1>11. {seq[i] : i \in n + 1 .. l} \subseteq ToSet(seq)
    BY <1>1, <1>6, <1>8 DEF ToSet, l
  <1> QED
    BY <1>5, <1>7, <1>10, <1>11 DEF t, l

LEMMA RememberKeeps ==
    ASSUME NEW seq \in Seq(Nat), NEW ss, NEW rt, Remember(ss, rt, seq)
    PROVE  /\ order' \in Seq(Nat) /\ DOMAIN syncs' = ToSet(order')
           /\ ToSet(order') \subseteq ToSet(seq)
           /\ syncs' = [i \in DOMAIN syncs' |-> ss[i]]
  <1>1. order' = Trimmed(ss, seq).order /\ syncs' = [i \in Trimmed(ss, seq).kept |-> ss[i]]
    BY DEF Remember
  <1> QED
    BY <1>1, TrimmedKeeps

LEMMA ToSetAppend ==
    ASSUME NEW N, NEW s \in Seq(N), NEW x \in N
    PROVE  Append(s, x) \in Seq(N) /\ ToSet(Append(s, x)) = ToSet(s) \cup {x}
  <1>1. /\ Append(s, x) \in Seq(N) /\ Len(Append(s, x)) = Len(s) + 1 /\ Len(s) \in Nat
        /\ \A i \in 1 .. Len(s) : Append(s, x)[i] = s[i]
        /\ Append(s, x)[Len(s) + 1] = x
    BY AppendProperties, LenProperties
  <1>2. DOMAIN s = 1 .. Len(s) /\ DOMAIN Append(s, x) = 1 .. Len(s) + 1
    BY <1>1, LenProperties
  <1>3. ToSet(Append(s, x)) \subseteq ToSet(s) \cup {x}
    BY <1>1, <1>2 DEF ToSet
  <1>4. ToSet(s) \subseteq ToSet(Append(s, x))
    BY <1>1, <1>2 DEF ToSet
  <1>5. x \in ToSet(Append(s, x))
    <2>1. Len(s) + 1 \in 1 .. Len(s) + 1
      BY <1>1
    <2> QED  BY <1>1, <1>2, <2>1 DEF ToSet
  <1> QED
    BY <1>1, <1>3, <1>4, <1>5

-----------------------------------------------------------------------------
(* The clock, and what it leaves alone.                                    *)

ClockRuns == now' \in Nat /\ now <= now'

LEMMA PastStays == ASSUME NEW CONSTANT t, now \in Nat, ClockRuns, Past(t) PROVE Past(t)'
  BY DEF Past, ClockRuns

\* Of a window that is over, a page shows the same games at any later time.
LEMMA WindowStays ==
    ASSUME NEW CONSTANT s, NEW CONSTANT month, now \in Nat, ClockRuns, Past(s.upper)
    PROVE  Wanted(s, Page(s.user, month))' = Wanted(s, Page(s.user, month))
  <1>1. ASSUME NEW g \in Games, PlayedAt[g] <= s.upper PROVE PlayedAt[g] <= now /\ PlayedAt[g] <= now'
    BY <1>1, SyncConstants DEF Past, ClockRuns
  <1> QED
    BY <1>1 DEF Wanted, Page, Published, InWindow

LEMMA IdleWorker == IsRecord(Idle, WorkerFields) /\ Idle.at = "idle"
  BY DEF Idle, IsRecord, WorkerFields

LEMMA SavedStates ==
    ASSUME NEW s, NEW status, NEW at
    PROVE  IsRecord(SavedState(s, status, at), SavedFields) /\ SavedState(s, status, at).upper = s.upper
  BY DEF SavedState, IsRecord, SavedFields

-----------------------------------------------------------------------------
(* What a step leaves alone stays as the invariant says.                   *)

LEMMA HistoryStays ==
    ASSUME SyncInv, ClockRuns, UNCHANGED <<syncs, order, nextId>>
    PROVE  HistoryOK'
  <1>1. now \in Nat /\ HistoryOK
    BY DEF SyncInv
  <1> QED
    BY <1>1, PastStays DEF HistoryOK

LEMMA SavedStays == ASSUME SyncInv, ClockRuns, UNCHANGED saved PROVE SavedOK'
  <1>1. now \in Nat /\ SavedOK
    BY DEF SyncInv
  <1> QED
    BY <1>1, PastStays DEF SavedOK

LEMMA CancellerStays == ASSUME SyncInv, ClockRuns, canceller' = canceller \/ canceller' = None
                        PROVE CancellerOK'
  <1>1. now \in Nat /\ CancellerOK
    BY DEF SyncInv
  <1> QED
    BY <1>1, PastStays DEF CancellerOK

WorkerInv == WorkerOK /\ MonthKept /\ CheckpointKeeps

LEMMA WorkerStays == ASSUME SyncInv, ClockRuns, UNCHANGED <<worker, archive, games, promised>> PROVE WorkerInv'
  <1>1. now \in Nat /\ WorkerOK /\ MonthKept /\ CheckpointKeeps
    BY DEF SyncInv
  <1>2. WorkerOK' /\ CheckpointKeeps'
    BY <1>1, PastStays DEF WorkerOK, Copied, CheckpointKeeps
  <1>3. Copied(worker) => Due(worker)' = Due(worker)
    BY <1>1, WindowStays DEF Due, WorkerOK
  <1>4. MonthKept'
    BY <1>1, <1>3 DEF MonthKept, Copied
  <1> QED
    BY <1>2, <1>4 DEF WorkerInv

LEMMA WorkerDropped ==
    ASSUME SyncInv, worker' = Idle, UNCHANGED <<archive, games, promised>>
    PROVE  WorkerInv'
  BY IdleWorker DEF SyncInv, WorkerInv, WorkerOK, Copied, MonthKept, CheckpointKeeps

\* The worker goes on with its sync.
LEMMA WorkerGoesOn ==
    ASSUME SyncInv, UNCHANGED <<now, archive, games, promised>>, Copied(worker),
           IsRecord(worker', WorkerFields), worker'.sync = worker.sync,
           worker'.at \notin {"import", "index", "checkpoint"}
    PROVE  WorkerInv'
  BY DEF SyncInv, WorkerInv, WorkerOK, Copied, Past, MonthKept, CheckpointKeeps

LEMMA InvFromParts ==
    ASSUME ClockRuns, HistoryOK', SavedOK', CancellerOK', WorkerInv'
    PROVE  SyncInv'
  BY DEF ClockRuns, SyncInv, WorkerInv

LEMMA SameTime == ASSUME SyncInv, now' = now PROVE ClockRuns
  BY DEF SyncInv, ClockRuns

-----------------------------------------------------------------------------
(* The steps of the worker that leave the manager alone.                   *)

LEMMA SearchStep ==
    ASSUME SyncInv, \/ TakeSync \/ Transfer \/ RequestFailed \/ Discovered \/ Pick
                    \/ Forgotten \/ FinishThrows \/ ReadProfile \/ WriteProfile
    PROVE  WorkerInv'
  <1>0. WorkerOK /\ IsRecord(worker, WorkerFields)
    BY DEF SyncInv, WorkerOK
  <1>1. UNCHANGED <<now, archive, games, promised>>
    BY DEF TakeSync, Transfer, RequestFailed, Discovered, Pick, Forgotten, Terminates, Dies, FinishThrows,
           ReadProfile, WriteProfile, Others, repository
  <1>2. CASE TakeSync
    <2>1. worker' = [Idle EXCEPT !.at = "begin", !.id = Head(queue)]
      BY <1>2 DEF TakeSync
    <2>2. IsRecord(worker', WorkerFields) /\ worker'.at = "begin"
      BY <2>1, IdleWorker DEF IsRecord, WorkerFields
    <2> QED  BY <1>1, <2>2 DEF SyncInv, WorkerInv, WorkerOK, Copied, MonthKept, CheckpointKeeps
  <1>3. CASE Transfer
    <2>1. worker' = worker
      BY <1>3 DEF Transfer
    <2> QED  BY <1>1, <2>1, SameTime, WorkerStays
  <1>4. CASE RequestFailed
    <2>1. worker.at \in {"discover", "fetch"}
          /\ \E outcome : worker' = [worker EXCEPT !.at = "finish", !.outcome = outcome, !.handler = TRUE]
      BY <1>4 DEF RequestFailed, Failing
    <2>2. IsRecord(worker', WorkerFields) /\ worker'.sync = worker.sync /\ worker'.at = "finish"
      BY <1>0, <2>1 DEF IsRecord, WorkerFields
    <2> QED  BY <1>1, <2>1, <2>2, WorkerGoesOn DEF Copied
  <1>5. CASE Discovered
    <2>1. worker.at = "discover" /\ worker' = [worker EXCEPT !.at = "pick"]
      BY <1>5 DEF Discovered
    <2>2. IsRecord(worker', WorkerFields) /\ worker'.sync = worker.sync /\ worker'.at = "pick"
      BY <1>0, <2>1 DEF IsRecord, WorkerFields
    <2> QED  BY <1>1, <2>1, <2>2, WorkerGoesOn DEF Copied
  <1>6. CASE Pick
    <2>1. /\ worker.at = "pick"
          /\ \/ worker' = [worker EXCEPT !.at = "finish", !.outcome = "succeeded"]
             \/ \E at, month : worker' = [worker EXCEPT !.at = at, !.month = month]
                               /\ at \in {"advance", "fetch"}
      <3> DEFINE month == runtime[worker.id].archives[runtime[worker.id].next]
                 skip == Skips(worker.sync, month)
      <3>1. worker.at = "pick"
        BY <1>6 DEF Pick
      <3>2. \/ worker' = [worker EXCEPT !.at = "finish", !.outcome = "succeeded"]
            \/ worker' = [worker EXCEPT !.at = IF skip THEN "advance" ELSE "fetch", !.month = month]
        BY <1>6 DEF Pick
      <3> HIDE DEF skip, month
      <3>3. (IF skip THEN "advance" ELSE "fetch") \in {"advance", "fetch"}
        OBVIOUS
      <3> QED  BY <3>1, <3>2, <3>3
    <2>2. IsRecord(worker', WorkerFields) /\ worker'.sync = worker.sync
          /\ worker'.at \in {"finish", "advance", "fetch"}
      BY <1>0, <2>1 DEF IsRecord, WorkerFields
    <2> QED  BY <1>1, <2>1, <2>2, WorkerGoesOn DEF Copied
  <1>7. CASE Forgotten
    <2>1. worker' = Idle
      BY <1>7 DEF Forgotten, Terminates, Dies
    <2> QED  BY <1>1, <2>1, WorkerDropped
  <1>8. CASE FinishThrows
    <2>1. /\ worker.at = "finishsave"
          /\ \/ worker' = Idle
             \/ worker' = [worker EXCEPT !.at = "finish", !.outcome = "failed", !.handler = TRUE]
      BY <1>8 DEF FinishThrows, Dies, Failing
    <2>2. CASE worker' # Idle
      <3>1. IsRecord(worker', WorkerFields) /\ worker'.sync = worker.sync /\ worker'.at = "finish"
        BY <1>0, <2>1, <2>2 DEF IsRecord, WorkerFields
      <3> QED  BY <1>1, <2>1, <3>1, WorkerGoesOn DEF Copied
    <2> QED  BY <1>1, <2>2, WorkerDropped
  <1>9. CASE ReadProfile
    <2>1. /\ worker.at = "readprofile"
          /\ \/ worker' = Idle
             \/ worker' = [worker EXCEPT !.at = "writeprofile", !.profile = profile]
      BY <1>9 DEF ReadProfile
    <2>2. CASE worker' # Idle
      <3>1. IsRecord(worker', WorkerFields) /\ worker'.sync = worker.sync /\ worker'.at = "writeprofile"
        BY <1>0, <2>1, <2>2 DEF IsRecord, WorkerFields
      <3> QED  BY <1>1, <2>1, <3>1, WorkerGoesOn DEF Copied
    <2> QED  BY <1>1, <2>2, WorkerDropped
  <1>10. CASE WriteProfile
    <2>1. /\ worker.at = "writeprofile"
          /\ \/ worker' = Idle
             \/ worker' = [worker EXCEPT !.at = "finish", !.outcome = "failed", !.handler = TRUE]
      BY <1>10 DEF WriteProfile, Failing
    <2>2. CASE worker' # Idle
      <3>1. IsRecord(worker', WorkerFields) /\ worker'.sync = worker.sync /\ worker'.at = "finish"
        BY <1>0, <2>1, <2>2 DEF IsRecord, WorkerFields
      <3> QED  BY <1>1, <2>1, <3>1, WorkerGoesOn DEF Copied
    <2> QED  BY <1>1, <2>2, WorkerDropped
  <1> QED
    BY <1>2, <1>3, <1>4, <1>5, <1>6, <1>7, <1>8, <1>9, <1>10

\* A month: what the page shows of the window is to do, what is to do gets into the archive,
\* and only what is in the archive is promised.
LEMMA MonthStep ==
    ASSUME SyncInv, Fetched \/ Import \/ IndexChunk \/ Checkpoint
    PROVE  WorkerInv'
  <1>0. /\ WorkerOK /\ MonthKept /\ CheckpointKeeps /\ IsRecord(worker, WorkerFields)
        /\ worker.at \in {"fetch", "import", "index", "checkpoint"} /\ Copied(worker)
    BY DEF SyncInv, WorkerOK, Fetched, Import, IndexChunk, Checkpoint, Copied
  <1>1. now' = now
    BY DEF Fetched, Import, IndexChunk, Checkpoint, Others
  <1> DEFINE Goes == /\ IsRecord(worker', WorkerFields)
                     /\ worker'.sync = worker.sync /\ worker'.month = worker.month
  <1>2. ASSUME Goes, Copied(worker') PROVE WorkerOK' /\ Due(worker)' = Due(worker)
    BY <1>0, <1>1, <1>2 DEF WorkerOK, Copied, Past, Due, Wanted, Page, Published, InWindow
  <1>3. ASSUME \E outcome : worker' = Failing(outcome), UNCHANGED <<archive, games, promised>>
        PROVE  WorkerInv'
    <2>1. IsRecord(worker', WorkerFields) /\ worker'.sync = worker.sync /\ worker'.at = "finish"
      BY <1>0, <1>3 DEF Failing, IsRecord, WorkerFields
    <2> QED  BY <1>0, <1>1, <1>3, <2>1, WorkerGoesOn
  <1>4. CASE Fetched
    <2> DEFINE todo == Wanted(worker.sync, Page(worker.sync.user, worker.month))
    <2>1. worker' = [worker EXCEPT !.at = "import", !.todo = todo] /\ UNCHANGED <<archive, games, promised>>
      BY <1>4 DEF Fetched, Others, repository
    <2>2. todo = Due(worker)
      BY DEF Due
    <2> HIDE DEF todo
    <2>3. Goes /\ worker'.at = "import" /\ worker'.todo = todo
      BY <1>0, <2>1 DEF IsRecord, WorkerFields
    <2>4. Copied(worker')
      BY <2>3 DEF Copied
    <2>5. MonthKept' /\ CheckpointKeeps'
      BY <1>0, <1>2, <2>1, <2>2, <2>3, <2>4 DEF MonthKept, CheckpointKeeps
    <2> QED  BY <1>2, <2>3, <2>4, <2>5 DEF WorkerInv
  <1>5. CASE Import
    <2>1. /\ worker.at = "import" /\ UNCHANGED <<archive, promised>> /\ games \subseteq games'
          /\ \/ worker' = [worker EXCEPT !.at = "index"] /\ games' = games \cup worker.todo
             \/ worker' = Failing("failed")
      BY <1>5 DEF Import, Others
    <2>2. CASE worker' = [worker EXCEPT !.at = "index"] /\ games' = games \cup worker.todo
      <3>1. Goes /\ worker'.at = "index" /\ worker'.todo = worker.todo
        BY <1>0, <2>2 DEF IsRecord, WorkerFields
      <3>2. Copied(worker')
        BY <3>1 DEF Copied
      <3>3. MonthKept' /\ CheckpointKeeps'
        BY <1>0, <1>2, <2>1, <2>2, <3>1, <3>2 DEF MonthKept, CheckpointKeeps
      <3> QED  BY <1>2, <3>1, <3>2, <3>3 DEF WorkerInv
    <2>3. CASE worker' = Failing("failed")
      <3>1. IsRecord(worker', WorkerFields) /\ worker'.sync = worker.sync /\ worker'.at = "finish"
        BY <1>0, <2>3 DEF Failing, IsRecord, WorkerFields
      <3>2. WorkerOK'
        BY <1>0, <1>1, <3>1 DEF WorkerOK, Copied, Past
      <3> QED  BY <1>0, <2>1, <3>1, <3>2 DEF WorkerInv, MonthKept, CheckpointKeeps
    <2> QED  BY <2>1, <2>2, <2>3
  <1>6. CASE IndexChunk
    <2>1. PICK chunk \in SUBSET worker.todo :
            \/ /\ archive' = archive \cup chunk
               /\ worker' = [worker EXCEPT !.todo = @ \ chunk,
                                           !.at = IF chunk = worker.todo THEN "checkpoint" ELSE @]
            \/ worker' = Failing("failed") /\ UNCHANGED archive
      BY <1>6 DEF IndexChunk
    <2>2. worker.at = "index" /\ UNCHANGED <<games, promised>>
      BY <1>6 DEF IndexChunk, Others
    <2>3. CASE /\ archive' = archive \cup chunk
               /\ worker' = [worker EXCEPT !.todo = @ \ chunk,
                                           !.at = IF chunk = worker.todo THEN "checkpoint" ELSE @]
      <3>1. /\ Goes /\ worker'.todo = worker.todo \ chunk
            /\ worker'.at = IF chunk = worker.todo THEN "checkpoint" ELSE worker.at
        BY <1>0, <2>3 DEF IsRecord, WorkerFields
      <3>2. Copied(worker')
        BY <2>2, <3>1 DEF Copied
      <3>3. Due(worker)' = Due(worker)
        BY <1>2, <3>1, <3>2
      <3>4. Due(worker) \subseteq (archive \cup worker.todo) \cap games
        BY <1>0, <2>2 DEF MonthKept
      <3>5. /\ archive' \cup worker'.todo = archive \cup worker.todo
            /\ worker'.at = "checkpoint" => archive' = archive \cup worker.todo
        BY <2>1, <2>2, <2>3, <3>1
      <3>6. worker'.at \in {"index", "checkpoint"}
        BY <2>2, <3>1
      <3>7. MonthKept'
        BY <2>2, <3>3, <3>4, <3>5, <3>6 DEF MonthKept
      <3>8. CheckpointKeeps'
        BY <1>0, <2>2, <2>3 DEF CheckpointKeeps
      <3> QED  BY <1>2, <3>1, <3>2, <3>7, <3>8 DEF WorkerInv
    <2> QED  BY <1>3, <2>1, <2>2, <2>3
  <1>7. CASE Checkpoint
    <2>1. /\ worker.at = "checkpoint" /\ UNCHANGED <<archive, games>>
          /\ \/ worker' = [worker EXCEPT !.at = "advance"] /\ promised' = promised \cup Due(worker)
             \/ worker' = Failing("failed") /\ UNCHANGED promised
      BY <1>7 DEF Checkpoint, Due
    <2>2. CASE worker' = [worker EXCEPT !.at = "advance"] /\ promised' = promised \cup Due(worker)
      <3>1. Goes /\ worker'.at = "advance"
        BY <1>0, <2>2 DEF IsRecord, WorkerFields
      <3>2. Copied(worker')
        BY <3>1 DEF Copied
      <3>3. MonthKept' /\ CheckpointKeeps'
        BY <1>0, <2>1, <2>2, <3>1 DEF MonthKept, CheckpointKeeps
      <3> QED  BY <1>2, <3>1, <3>2, <3>3 DEF WorkerInv
    <2> QED  BY <1>3, <2>1, <2>2
  <1> QED
    BY <1>4, <1>5, <1>6, <1>7

-----------------------------------------------------------------------------
(* The steps that change the history.                                      *)

\* The history after Remember, of syncs that are records and windows that are over.
LEMMA Remembered ==
    ASSUME now' \in Nat, nextId' \in Nat, NEW seq \in Seq(Nat), NEW ss, NEW rt, Remember(ss, rt, seq),
           \A id \in ToSet(seq) : /\ id \in Nat /\ id < nextId'
                                  /\ IsRecord(ss[id], SyncFields)
                                  /\ ss[id].upper \in Nat /\ ss[id].upper <= now'
    PROVE  HistoryOK'
  <1>1. /\ order' \in Seq(Nat) /\ DOMAIN syncs' = ToSet(order') /\ ToSet(order') \subseteq ToSet(seq)
        /\ syncs' = [i \in DOMAIN syncs' |-> ss[i]]
    BY RememberKeeps
  <1>2. \A id \in DOMAIN syncs' : id \in ToSet(seq) /\ syncs'[id] = ss[id]
    BY <1>1
  <1>3. syncs' = [i \in DOMAIN syncs' |-> syncs'[i]]
    BY <1>1
  <1> QED
    BY <1>1, <1>2, <1>3 DEF HistoryOK, Past

LEMMA StartStep ==
    ASSUME SyncInv, NEW user \in Users, NEW days \in Windows, NEW supplied \in BOOLEAN,
           StartSync(user, days, supplied)
    PROVE  SyncInv'
  <1>0. now \in Nat /\ HistoryOK /\ now' = now
    BY DEF SyncInv, StartSync
  <1> DEFINE s == [status |-> "queued", user |-> user, days |-> days, upper |-> now,
                   cutoff |-> IF days > now THEN 0 ELSE now - days,
                   month |-> 0, completed |-> 0, at |-> now]
             ss == [i \in DOMAIN syncs \cup {nextId} |-> IF i = nextId THEN s ELSE syncs[i]]
             rt == [i \in DOMAIN ss |-> IF i = nextId THEN FreshRuntime ELSE runtime[i]]
             seq == Append(order, nextId)
  <1>1. /\ Remember(ss, rt, seq) /\ nextId' = nextId + 1 /\ saved' = SavedState(s, "running", now)
        /\ UNCHANGED <<worker, canceller, archive, games, promised>>
    BY DEF StartSync, MayStart
  <1>2. IsRecord(s, SyncFields) /\ s.upper = now
    BY DEF IsRecord, SyncFields
  <1> HIDE DEF s
  <1>3. seq \in Seq(Nat) /\ ToSet(seq) = ToSet(order) \cup {nextId}
    BY <1>0, ToSetAppend DEF HistoryOK
  <1>4. \A id \in ToSet(seq) : ss[id] = IF id = nextId THEN s ELSE syncs[id]
    BY <1>0, <1>3 DEF HistoryOK
  <1> HIDE DEF ss, rt, seq
  <1>5. \A id \in ToSet(seq) : /\ id \in Nat /\ id < nextId'
                               /\ IsRecord(ss[id], SyncFields)
                               /\ ss[id].upper \in Nat /\ ss[id].upper <= now'
    <2> SUFFICES ASSUME NEW id \in ToSet(seq)
                 PROVE  /\ id \in Nat /\ id < nextId' /\ IsRecord(ss[id], SyncFields)
                        /\ ss[id].upper \in Nat /\ ss[id].upper <= now'
      OBVIOUS
    <2>1. nextId \in Nat
      BY <1>0 DEF HistoryOK
    <2>2. CASE id = nextId
      BY <1>0, <1>1, <1>2, <1>4, <2>1, <2>2
    <2>3. CASE id # nextId
      <3>1. id \in DOMAIN syncs /\ ss[id] = syncs[id]
        BY <1>0, <1>3, <1>4, <2>3 DEF HistoryOK
      <3>2. id \in Nat /\ id < nextId /\ IsRecord(syncs[id], SyncFields) /\ Past(syncs[id].upper)
        BY <1>0, <3>1 DEF HistoryOK
      <3> QED  BY <1>0, <1>1, <2>1, <3>1, <3>2 DEF Past
    <2> QED  BY <2>2, <2>3
  <1>6. HistoryOK'
    <2>1. now' \in Nat /\ nextId' \in Nat
      BY <1>0, <1>1 DEF HistoryOK
    <2> QED  BY <1>1, <1>3, <1>5, <2>1, Remembered
  <1>7. SavedOK'
    <2>1. IsRecord(saved', SavedFields) /\ saved'.upper = now
      BY <1>1, <1>2, SavedStates
    <2> QED  BY <1>0, <2>1 DEF SavedOK, Past
  <1> QED
    BY <1>0, <1>1, <1>6, <1>7, SameTime, CancellerStays, WorkerStays, InvFromParts

\* One sync changes, and stays a record of the same window or of one that is over.
LEMMA SyncChanged ==
    ASSUME SyncInv, UNCHANGED <<now, order, nextId>>, NEW id \in DOMAIN syncs, NEW s,
           syncs' = [syncs EXCEPT ![id] = s], IsRecord(s, SyncFields), Past(s.upper)
    PROVE  HistoryOK' /\ syncs'[id] = s
  <1>1. HistoryOK
    BY DEF SyncInv
  <1>2. DOMAIN syncs' = DOMAIN syncs /\ \A j \in DOMAIN syncs : syncs'[j] = IF j = id THEN s ELSE syncs[j]
    BY <1>1 DEF HistoryOK
  <1>3. syncs' = [j \in DOMAIN syncs' |-> syncs'[j]]
    BY <1>1 DEF HistoryOK
  <1>4. \A j \in DOMAIN syncs' : /\ j \in Nat /\ j < nextId
                                 /\ IsRecord(syncs'[j], SyncFields) /\ Past(syncs'[j].upper)
    BY <1>1, <1>2 DEF HistoryOK
  <1> QED
    BY <1>1, <1>2, <1>3, <1>4 DEF HistoryOK, Past

LEMMA CancelStep ==
    ASSUME SyncInv, NEW id, CancelSync(id)
    PROVE  SyncInv' /\ syncs'[id].status = "cancelled"
                    /\ \A j \in DOMAIN syncs : j # id => syncs'[j] = syncs[j]
  <1> DEFINE s == [syncs[id] EXCEPT !.status = "cancelled", !.at = now]
  <1>1. /\ id \in DOMAIN syncs /\ syncs' = [syncs EXCEPT ![id] = s]
        /\ canceller' = SavedState(syncs[id], "paused", now)
        /\ UNCHANGED <<now, order, nextId, worker, saved, archive, games, promised>>
    BY DEF CancelSync, repository
  <1>2. IsRecord(syncs[id], SyncFields) /\ Past(syncs[id].upper)
    BY <1>1 DEF SyncInv, HistoryOK
  <1>3. IsRecord(s, SyncFields) /\ s.upper = syncs[id].upper /\ s.status = "cancelled"
    BY <1>2 DEF IsRecord, SyncFields
  <1> HIDE DEF s
  <1>4. HistoryOK' /\ syncs'[id] = s
    BY <1>1, <1>2, <1>3, SyncChanged
  <1>5. CancellerOK'
    BY <1>1, <1>2, SavedStates DEF CancellerOK, Past
  <1>6. SyncInv'
    BY <1>1, <1>4, <1>5, SameTime, SavedStays, WorkerStays, InvFromParts
  <1> QED
    BY <1>1, <1>3, <1>4, <1>6 DEF SyncInv, HistoryOK

LEMMA BeginStep == ASSUME SyncInv, Begin PROVE SyncInv'
  <1>0. /\ WorkerOK /\ IsRecord(worker, WorkerFields)
        /\ UNCHANGED <<now, order, nextId, canceller, saved, archive, games, promised>>
    BY DEF SyncInv, WorkerOK, Begin, Others, repository
  <1>1. CASE worker' = Idle /\ UNCHANGED syncs
    BY <1>0, <1>1, SameTime, HistoryStays, SavedStays, CancellerStays, WorkerDropped, InvFromParts
  <1>2. CASE ~(worker.id \notin DOMAIN syncs \/ syncs[worker.id].status = "cancelled")
    <2> DEFINE id == worker.id
               s == [syncs[id] EXCEPT !.status = "running", !.at = now]
               known == runtime[id].discovered
    <2>1. /\ id \in DOMAIN syncs /\ syncs' = [syncs EXCEPT ![id] = s]
          /\ worker' = [worker EXCEPT !.at = IF known THEN "pick" ELSE "discover", !.sync = syncs'[id]]
      BY <1>2 DEF Begin
    <2>2. IsRecord(syncs[id], SyncFields) /\ Past(syncs[id].upper)
      BY <2>1 DEF SyncInv, HistoryOK
    <2>3. IsRecord(s, SyncFields) /\ s.upper = syncs[id].upper
      BY <2>2 DEF IsRecord, SyncFields
    <2> HIDE DEF s, known
    <2>4. HistoryOK' /\ syncs'[id] = s
      BY <1>0, <2>1, <2>2, <2>3, SyncChanged
    <2>5. /\ IsRecord(worker', WorkerFields) /\ worker'.sync = s
          /\ worker'.at = IF known THEN "pick" ELSE "discover"
      BY <1>0, <2>1, <2>4 DEF IsRecord, WorkerFields
    <2>6. worker'.at \in {"pick", "discover"}
      BY <2>5
    <2>7. WorkerInv'
      BY <1>0, <2>2, <2>3, <2>5, <2>6 DEF SyncInv, WorkerInv, WorkerOK, Past, MonthKept, CheckpointKeeps
    <2> QED  BY <1>0, <2>4, <2>7, SameTime, SavedStays, CancellerStays, InvFromParts
  <1> QED
    BY <1>1, <1>2 DEF Begin

LEMMA AdvanceStep == ASSUME SyncInv, Advance PROVE SyncInv'
  <1>0. /\ WorkerOK /\ IsRecord(worker, WorkerFields) /\ Copied(worker) /\ worker.id \in DOMAIN syncs
        /\ UNCHANGED <<now, order, nextId, canceller, saved, archive, games, promised>>
    BY DEF SyncInv, WorkerOK, Advance, Copied, Others, repository
  <1>1. CASE worker' = Idle /\ UNCHANGED syncs
    BY <1>0, <1>1, SameTime, HistoryStays, SavedStays, CancellerStays, WorkerDropped, InvFromParts
  <1>2. CASE syncs[worker.id].status # "cancelled"
    <2> DEFINE id == worker.id
               s == [worker.sync EXCEPT !.month = worker.month, !.completed = @ + 1, !.at = now]
    <2>1. /\ syncs' = [syncs EXCEPT ![id] = s]
          /\ worker' = [worker EXCEPT !.at = "save", !.sync = syncs'[id]]
      BY <1>2 DEF Advance
    <2>2. IsRecord(worker.sync, SyncFields) /\ Past(worker.sync.upper)
      BY <1>0 DEF WorkerOK
    <2>3. IsRecord(s, SyncFields) /\ s.upper = worker.sync.upper
      BY <2>2 DEF IsRecord, SyncFields
    <2> HIDE DEF s
    <2>4. HistoryOK' /\ syncs'[id] = s
      BY <1>0, <2>1, <2>2, <2>3, SyncChanged
    <2>5. IsRecord(worker', WorkerFields) /\ worker'.sync = s /\ worker'.at = "save"
      BY <1>0, <2>1, <2>4 DEF IsRecord, WorkerFields
    <2>6. WorkerInv'
      BY <1>0, <2>2, <2>3, <2>5 DEF SyncInv, WorkerInv, WorkerOK, Past, MonthKept, CheckpointKeeps
    <2> QED  BY <1>0, <2>4, <2>6, SameTime, SavedStays, CancellerStays, InvFromParts
  <1> QED
    BY <1>1, <1>2 DEF Advance

LEMMA FinishStep ==
    ASSUME SyncInv, Finish
    PROVE  /\ SyncInv'
           /\ \A j \in DOMAIN syncs' : /\ j \in DOMAIN syncs
                                       /\ syncs[j].status = "cancelled" => syncs'[j].status = "cancelled"
  <1>0. /\ HistoryOK /\ WorkerOK /\ IsRecord(worker, WorkerFields) /\ now \in Nat
        /\ UNCHANGED <<now, nextId, canceller, saved, archive, games, promised>>
    BY DEF SyncInv, WorkerOK, Finish, Others, repository
  <1>1. CASE worker' = Idle /\ UNCHANGED <<syncs, order>>
    BY <1>0, <1>1, SameTime, HistoryStays, SavedStays, CancellerStays, WorkerDropped, InvFromParts
  <1>2. CASE worker.id \in DOMAIN syncs
    <2> DEFINE id == worker.id
               s == [syncs[id] EXCEPT !.status = Decided(@, worker.outcome), !.at = now]
               ss == [syncs EXCEPT ![id] = s]
    <2>1. Remember(ss, runtime, order) /\ worker' = [worker EXCEPT !.at = "finishsave", !.sync = s]
      BY <1>2 DEF Finish
    <2>2. IsRecord(syncs[id], SyncFields) /\ Past(syncs[id].upper)
      BY <1>0, <1>2 DEF HistoryOK
    <2>3. /\ IsRecord(s, SyncFields) /\ s.upper = syncs[id].upper
          /\ syncs[id].status = "cancelled" => s.status = "cancelled"
      BY <2>2 DEF IsRecord, SyncFields, Decided
    <2> HIDE DEF s
    <2>4. \A j \in DOMAIN syncs : ss[j] = IF j = id THEN s ELSE syncs[j]
      BY <1>0 DEF HistoryOK
    <2> HIDE DEF ss
    <2>5. \A j \in DOMAIN syncs : /\ j \in Nat /\ j < nextId' /\ IsRecord(ss[j], SyncFields)
                                  /\ ss[j].upper \in Nat /\ ss[j].upper <= now'
      BY <1>0, <2>2, <2>3, <2>4 DEF HistoryOK, Past
    <2>6. order \in Seq(Nat) /\ ToSet(order) \subseteq DOMAIN syncs /\ nextId' \in Nat /\ now' \in Nat
      BY <1>0 DEF HistoryOK
    <2>7. HistoryOK'
      BY <2>1, <2>5, <2>6, Remembered
    <2>8. DOMAIN syncs' \subseteq DOMAIN syncs /\ \A j \in DOMAIN syncs' : syncs'[j] = ss[j]
      <3>1. DOMAIN syncs' = ToSet(order') /\ ToSet(order') \subseteq ToSet(order)
            /\ syncs' = [i \in DOMAIN syncs' |-> ss[i]]
        BY <2>1, <2>6, RememberKeeps
      <3> QED  BY <2>6, <3>1
    <2>9. IsRecord(worker', WorkerFields) /\ worker'.sync = s /\ worker'.at = "finishsave"
      BY <1>0, <2>1 DEF IsRecord, WorkerFields
    <2>10. WorkerInv'
      BY <1>0, <2>2, <2>3, <2>9 DEF SyncInv, WorkerInv, WorkerOK, Past, MonthKept, CheckpointKeeps
    <2>11. SyncInv'
      BY <1>0, <2>7, <2>10, SameTime, SavedStays, CancellerStays, InvFromParts
    <2> QED  BY <2>3, <2>4, <2>8, <2>11
  <1> QED
    BY <1>1, <1>2 DEF Finish

-----------------------------------------------------------------------------
(* The steps that save, and the process.                                   *)

LEMMA SavingStep ==
    ASSUME SyncInv, SavePaused \/ SaveProgress \/ FinishSave
    PROVE  SyncInv'
  <1>0. WorkerOK /\ SavedOK /\ CancellerOK /\ IsRecord(worker, WorkerFields) /\ now \in Nat
    BY DEF SyncInv, WorkerOK
  <1>1. UNCHANGED <<now, syncs, order, nextId, archive, games, promised>>
    BY DEF SavePaused, SaveProgress, FinishSave, Others, manager
  <1>2. CASE SavePaused
    <2>1. /\ canceller # None /\ canceller' = None /\ saved' \in {saved, canceller} /\ worker' = worker
      BY <1>2 DEF SavePaused
    <2>2. SavedOK'
      BY <1>0, <1>1, <2>1 DEF SavedOK, CancellerOK, Past
    <2> QED  BY <1>1, <2>1, <2>2, SameTime, HistoryStays, CancellerStays, WorkerStays, InvFromParts
  <1>3. CASE SaveProgress \/ FinishSave
    <2>1. Copied(worker) /\ canceller' = canceller
      BY <1>3 DEF SaveProgress, FinishSave, Copied, Others
    <2>2. saved' = saved \/ \E status : saved' = SavedState(worker.sync, status, worker.sync.at)
      BY <1>3 DEF SaveProgress, FinishSave
    <2>3. SavedOK'
      <3>1. Past(worker.sync.upper)
        BY <1>0, <2>1 DEF WorkerOK
      <3>2. CASE \E status : saved' = SavedState(worker.sync, status, worker.sync.at)
        <4>1. IsRecord(saved', SavedFields) /\ saved'.upper = worker.sync.upper
          BY <3>2, SavedStates
        <4> QED  BY <1>1, <3>1, <4>1 DEF SavedOK, Past
      <3> QED  BY <1>0, <1>1, <2>2, <3>2 DEF SavedOK, Past
    <2>4. \/ worker' = Idle \/ worker' = [worker EXCEPT !.at = "readprofile"]
          \/ worker' = [worker EXCEPT !.at = "finish", !.outcome = "failed", !.handler = TRUE]
      BY <1>3 DEF SaveProgress, FinishSave, Failing
    <2>5. WorkerInv'
      <3>1. CASE worker' # Idle
        <4>1. IsRecord(worker', WorkerFields) /\ worker'.sync = worker.sync
              /\ worker'.at \in {"finish", "readprofile"}
          BY <1>0, <2>4, <3>1 DEF IsRecord, WorkerFields
        <4> QED  BY <1>1, <2>1, <4>1, WorkerGoesOn
      <3> QED  BY <1>1, <3>1, WorkerDropped
    <2> QED  BY <1>1, <2>1, <2>3, <2>5, SameTime, HistoryStays, CancellerStays, InvFromParts
  <1> QED
    BY <1>2, <1>3

LEMMA BootStep == ASSUME SyncInv, Boot PROVE SyncInv'
  <1>0. SavedOK /\ now \in Nat
    BY DEF SyncInv
  <1>1. UNCHANGED <<now, archive, games, promised>> /\ worker' = Idle /\ canceller' = None
    BY DEF Boot
  <1>2. CASE saved.status = "running" /\ profile.user = saved.user
    <2> DEFINE s == [status |-> "queued", user |-> saved.user, days |-> saved.days,
                     cutoff |-> saved.cutoff, upper |-> saved.upper,
                     month |-> 0, completed |-> 0, at |-> now]
    <2>1. syncs' = <<s>> /\ order' = <<1>> /\ nextId' = 2 /\ saved' = saved
      BY <1>2 DEF Boot
    <2>2. IsRecord(s, SyncFields) /\ s.upper = saved.upper
      BY DEF IsRecord, SyncFields
    <2> HIDE DEF s
    <2>3. DOMAIN syncs' = {1} /\ syncs'[1] = s /\ syncs' = [i \in DOMAIN syncs' |-> syncs'[i]]
      BY <2>1
    <2>4. order' \in Seq(Nat) /\ ToSet(order') = {1}
      BY <2>1 DEF ToSet
    <2>5. HistoryOK'
      BY <1>0, <1>1, <2>1, <2>2, <2>3, <2>4 DEF HistoryOK, SavedOK, Past
    <2> QED  BY <1>1, <2>1, <2>5, SameTime, SavedStays, CancellerStays, WorkerDropped, InvFromParts
  <1>3. CASE ~(saved.status = "running" /\ profile.user = saved.user)
    <2>1. /\ syncs' = <<>> /\ order' = <<>> /\ nextId' = 1
          /\ saved' = saved \/ saved' = [saved EXCEPT !.status = "paused", !.at = now]
      BY <1>3 DEF Boot
    <2>2. DOMAIN <<>> = {} /\ <<>> \in Seq(Nat)
      BY EmptySeq
    <2>3. HistoryOK'
      <3>1. ToSet(order') = {} /\ DOMAIN syncs' = {}
        BY <2>1, <2>2 DEF ToSet
      <3>2. syncs' = [i \in DOMAIN syncs' |-> syncs'[i]]
        BY <2>1, <2>2
      <3> QED  BY <2>1, <2>2, <3>1, <3>2 DEF HistoryOK
    <2>4. IsRecord(saved', SavedFields) /\ saved'.upper = saved.upper
      BY <1>0, <2>1 DEF SavedOK, IsRecord, SavedFields
    <2>5. SavedOK'
      BY <1>0, <1>1, <2>4 DEF SavedOK, Past
    <2> QED  BY <1>1, <2>3, <2>5, SameTime, CancellerStays, WorkerDropped, InvFromParts
  <1> QED
    BY <1>2, <1>3

LEMMA OtherSteps ==
    ASSUME SyncInv, \/ \E user \in Users : ConfigureProfile(user)
                    \/ ReadPlayer \/ Tick \/ Shutdown \/ Joined \/ Crash \/ UNCHANGED vars
    PROVE  SyncInv' /\ UNCHANGED syncs
  <1>1. UNCHANGED <<syncs, order, nextId, saved, archive, games, promised>>
    BY DEF ConfigureProfile, ReadPlayer, Tick, Shutdown, Joined, Crash, Dies, vars, manager, repository
  <1>2. ClockRuns
    <2>1. now \in Nat
      BY DEF SyncInv
    <2>2. now' = now + 1 \/ now' = now
      BY DEF ConfigureProfile, ReadPlayer, Tick, Shutdown, Joined, Crash, Dies, vars
    <2> QED  BY <2>1, <2>2 DEF ClockRuns
  <1>3. canceller' = canceller \/ canceller' = None
    BY DEF ConfigureProfile, ReadPlayer, Tick, Shutdown, Joined, Crash, Dies, vars
  <1>4. worker' = worker \/ worker' = Idle
    BY DEF ConfigureProfile, ReadPlayer, Tick, Shutdown, Joined, Crash, Dies, vars
  <1>5. WorkerInv'
    BY <1>1, <1>2, <1>4, WorkerStays, WorkerDropped
  <1> QED
    BY <1>1, <1>2, <1>3, <1>5, HistoryStays, SavedStays, CancellerStays, InvFromParts

\* Of a start that fails an id is gone.
LEMMA FailedStart ==
    ASSUME SyncInv, NEW user \in Users, NEW supplied \in BOOLEAN, StartFails(user, supplied)
    PROVE  SyncInv' /\ UNCHANGED syncs
  <1>1. /\ UNCHANGED <<now, syncs, order, worker, canceller, saved, archive, games, promised>>
        /\ nextId' = nextId + 1
    BY DEF StartFails, MayStart
  <1>2. HistoryOK'
    <2>1. HistoryOK
      BY DEF SyncInv
    <2> QED  BY <1>1, <2>1 DEF HistoryOK, Past
  <1> QED
    BY <1>1, <1>2, SameTime, SavedStays, CancellerStays, WorkerStays, InvFromParts

LEMMA QuietSteps ==
    ASSUME SyncInv,
           \/ TakeSync \/ Transfer \/ RequestFailed \/ Discovered \/ Pick \/ Forgotten \/ FinishThrows
           \/ ReadProfile \/ WriteProfile \/ Fetched \/ Import \/ IndexChunk \/ Checkpoint
    PROVE  SyncInv' /\ UNCHANGED syncs
  <1>1. UNCHANGED <<now, syncs, order, nextId, saved>>
    BY DEF TakeSync, Transfer, RequestFailed, Discovered, Pick, Forgotten, Terminates, Dies, FinishThrows,
           ReadProfile, WriteProfile, Fetched, Import, IndexChunk, Checkpoint, Others, manager, repository
  <1>2. canceller' = canceller \/ canceller' = None
    BY DEF TakeSync, Transfer, RequestFailed, Discovered, Pick, Forgotten, Terminates, Dies, FinishThrows,
           ReadProfile, WriteProfile, Fetched, Import, IndexChunk, Checkpoint, Others
  <1>3. WorkerInv'
    BY SearchStep, MonthStep
  <1> QED
    BY <1>1, <1>2, <1>3, SameTime, HistoryStays, SavedStays, CancellerStays, InvFromParts

LEMMA SyncInitially == Init => SyncInv
  <1> SUFFICES ASSUME Init PROVE SyncInv
    OBVIOUS
  <1>1. /\ now = 0 /\ worker = Idle /\ canceller = None /\ syncs = <<>> /\ order = <<>> /\ nextId = 1
        /\ saved = [status |-> "idle", user |-> None, days |-> 0, cutoff |-> 0, upper |-> 0, at |-> 0]
        /\ archive = {} /\ promised = {}
    BY DEF Init
  <1>2. DOMAIN <<>> = {} /\ <<>> \in Seq(Nat)
    BY EmptySeq
  <1>3. ToSet(order) = {} /\ DOMAIN syncs = {} /\ syncs = [i \in DOMAIN syncs |-> syncs[i]]
    BY <1>1, <1>2 DEF ToSet
  <1>4. HistoryOK
    BY <1>1, <1>2, <1>3 DEF HistoryOK
  <1>5. SavedOK
    BY <1>1 DEF SavedOK, IsRecord, SavedFields, Past
  <1> QED
    BY <1>1, <1>4, <1>5, IdleWorker DEF SyncInv, CancellerOK, WorkerOK, Copied, MonthKept, CheckpointKeeps

-----------------------------------------------------------------------------
(* The theorems.                                                           *)

\* CancelledStays, of one step.
CancelledKept ==
    \A id \in DOMAIN syncs :
        (syncs[id].status = "cancelled" /\ mode # "down" /\ id \in DOMAIN syncs')
            => syncs'[id].status = "cancelled"

LEMMA CancelledAtStart ==
    ASSUME SyncInv, NEW user \in Users, NEW days \in Windows, NEW supplied \in BOOLEAN,
           StartSync(user, days, supplied)
    PROVE  CancelledKept
  <1> DEFINE s == [status |-> "queued", user |-> user, days |-> days, upper |-> now,
                   cutoff |-> IF days > now THEN 0 ELSE now - days,
                   month |-> 0, completed |-> 0, at |-> now]
             ss == [i \in DOMAIN syncs \cup {nextId} |-> IF i = nextId THEN s ELSE syncs[i]]
             rt == [i \in DOMAIN ss |-> IF i = nextId THEN FreshRuntime ELSE runtime[i]]
             seq == Append(order, nextId)
  <1>1. HistoryOK /\ Remember(ss, rt, seq)
    BY DEF SyncInv, StartSync
  <1> HIDE DEF s
  <1>2. \A id \in DOMAIN syncs : id # nextId /\ ss[id] = syncs[id]
    BY <1>1 DEF HistoryOK
  <1>3. seq \in Seq(Nat)
    BY <1>1, ToSetAppend DEF HistoryOK
  <1> HIDE DEF ss, rt, seq
  <1>4. syncs' = [i \in DOMAIN syncs' |-> ss[i]]
    BY <1>1, <1>3, RememberKeeps
  <1> QED
    BY <1>2, <1>4 DEF CancelledKept

LEMMA CancelledInTurn == ASSUME SyncInv, Begin \/ Advance PROVE CancelledKept
  <1>1. HistoryOK
    BY DEF SyncInv
  <1>2. \/ UNCHANGED syncs
        \/ /\ worker.id \in DOMAIN syncs /\ syncs[worker.id].status # "cancelled"
           /\ \E s : syncs' = [syncs EXCEPT ![worker.id] = s]
    <2>1. CASE Begin
      BY <2>1 DEF Begin
    <2>2. CASE Advance
      BY <2>2 DEF Advance
    <2> QED  BY <2>1, <2>2
  <1>3. \A id \in DOMAIN syncs : syncs[id].status = "cancelled" => syncs'[id] = syncs[id]
    BY <1>1, <1>2 DEF HistoryOK
  <1> QED
    BY <1>3 DEF CancelledKept

LEMMA SyncNext == SyncInv /\ [Next]_vars => SyncInv' /\ CancelledKept
  <1> SUFFICES ASSUME SyncInv, [Next]_vars PROVE SyncInv' /\ CancelledKept
    OBVIOUS
  <1>1. ASSUME NEW user \in Users, NEW days \in Windows, NEW supplied \in BOOLEAN,
               StartSync(user, days, supplied)
        PROVE  SyncInv' /\ CancelledKept
    BY <1>1, StartStep, CancelledAtStart
  <1>9. ASSUME NEW user \in Users, NEW supplied \in BOOLEAN, StartFails(user, supplied)
        PROVE  SyncInv' /\ CancelledKept
    BY <1>9, FailedStart DEF CancelledKept
  <1>2. ASSUME NEW id \in 1 .. MaxCalls + MaxCrashes, CancelSync(id) PROVE SyncInv' /\ CancelledKept
    <2>1. /\ SyncInv' /\ syncs'[id].status = "cancelled"
          /\ \A j \in DOMAIN syncs : j # id => syncs'[j] = syncs[j]
      BY <1>2, CancelStep
    <2> QED  BY <2>1 DEF CancelledKept
  <1>3. CASE \/ \E user \in Users : ConfigureProfile(user)
             \/ ReadPlayer \/ Tick \/ Shutdown \/ Joined \/ Crash \/ UNCHANGED vars
    BY <1>3, OtherSteps DEF CancelledKept
  <1>4. CASE SavePaused \/ SaveProgress \/ FinishSave
    <2>1. UNCHANGED syncs
      BY <1>4 DEF SavePaused, SaveProgress, FinishSave, manager
    <2> QED  BY <1>4, <2>1, SavingStep DEF CancelledKept
  <1>5. CASE Boot
    BY <1>5, BootStep DEF Boot, CancelledKept
  <1>6. CASE Begin \/ Advance
    BY <1>6, BeginStep, AdvanceStep, CancelledInTurn
  <1>7. CASE Finish
    BY <1>7, FinishStep DEF CancelledKept
  <1>8. CASE \/ TakeSync \/ Transfer \/ RequestFailed \/ Discovered \/ Pick \/ Forgotten \/ FinishThrows
             \/ ReadProfile \/ WriteProfile \/ Fetched \/ Import \/ IndexChunk \/ Checkpoint
    BY <1>8, QuietSteps DEF CancelledKept
  <1> QED
    BY <1>1, <1>2, <1>3, <1>4, <1>5, <1>6, <1>7, <1>8, <1>9 DEF Next, WorkerStep

\* Whatever fails or dies, a month that is checkpointed has its games of the window and their entries
\* (run_sync_step and persist_archive_chunks of IngestManager, lines 795 to 798).
THEOREM CheckpointsKeep == Spec => []CheckpointKeeps
  <1>1. Spec => []SyncInv
    BY SyncInitially, SyncNext, PTL DEF Spec
  <1>2. SyncInv => CheckpointKeeps
    BY DEF SyncInv
  <1> QED
    BY <1>1, <1>2, PTL

\* No step of the process revives a cancelled sync: the guards at lines 804 and 829 are enough
\* wherever the cancellation came.
THEOREM CancellationHolds == Spec => CancelledStays
  <1>1. Spec => []SyncInv
    BY SyncInitially, SyncNext, PTL DEF Spec
  <1>2. SyncInv /\ [Next]_vars => [CancelledKept]_vars
    BY SyncNext
  <1>3. Spec => [][CancelledKept]_vars
    BY <1>1, <1>2, PTL DEF Spec
  <1> QED
    BY <1>3 DEF CancelledStays, CancelledKept

=============================================================================
