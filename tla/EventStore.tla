----------------------------- MODULE EventStore -----------------------------
(***************************************************************************)
(* The local repository (EventLogRepository in src/src/app/repository.cpp) *)
(* over the event log: every call appends records to the file, changes its *)
(* projection in memory and counts the record as applied; a start rebuilds *)
(* the projection from the newest authorized snapshot and the records      *)
(* after it (variations always from all their records).                    *)
(* The repository's mutex is held through a call, so a call is one action, *)
(* which succeeds, throws after some of its appends, or dies at any byte.  *)
(* Calls that append one record of a kind of their own (ratings of players,*)
(* resources, batches, Chess.com state) add nothing that the calls below   *)
(* lack, and records that replay ignores are left out, except where an     *)
(* append between two others can fail: the ratings of the two players are  *)
(* one record, and the moves and mistakes of an analysis, which come       *)
(* before it, none.  All drills of a game are one.                         *)
(***************************************************************************)
EXTENDS EventLog

CONSTANTS Games,      \* game ids
          Statuses,   \* the job states recorded
          MaxLines,   \* bound: variations created
          MaxSnapshots,  \* bound: snapshot files written
          MaxFaults,  \* bound: calls that throw or die
          Faults,     \* what can go wrong: a subset of AllFaults
          Plans,      \* the sets of calls a history may be made of
          MaxEvents   \* bound: ids given out, and records in the file

AllCalls  == {"import", "rated", "shallow", "analysis", "job", "variation", "drill", "train",
              "snapshot", "compact"}

\* "crash": the process dies inside a call; "refused": an append throws and has
\* written nothing; "unsynced": the whole record is written, fsync fails;
\* "torn": a part of the record is written and the process goes on.
AllFaults == {"crash", "refused", "unsynced", "torn"}

ASSUME StoreConstants ==
    /\ IsFiniteSet(Games) /\ IsFiniteSet(Statuses)
    /\ Faults \subseteq AllFaults /\ Plans \subseteq SUBSET AllCalls
    /\ MaxEvents \in Nat /\ MaxLines \in Nat /\ MaxSnapshots \in Nat /\ MaxFaults \in Nat

VARIABLES
    file,        \* the cells of events.log
    snapshots,   \* the files of snapshots/: records [path, watermark, view]
    process,        \* "up" or "down"
    nextId,      \* EventLog::next_id_
    view,        \* the projection in memory: key -> value
    nextLine,    \* next_variation_id_
    applied,     \* projection_event_id_
    contiguous,  \* projection_contiguous_
    possible,    \* history: the values a restart may show, given what was acknowledged
    failed,      \* history, for the bound: the calls that threw or died
    plan         \* the calls of this history

disk   == <<file, snapshots>>
memory == <<nextId, view, nextLine, applied, contiguous>>
storeVars   == <<disk, process, memory, possible, failed, plan>>

-----------------------------------------------------------------------------
(* The projection and what the records do to it.                           *)

Lines == 1 .. MaxLines
Keys == ({"status", "drills", "job"} \X Games) \cup ({"line"} \X Lines)
IsLine(k) == k[1] = "line"

\* A drill: its attempts, and the session it is trained in (no session: since = 0).
NoDrill  == [made |-> FALSE, tries |-> <<>>, hint |-> 0, since |-> 0]
NewDrill == [NoDrill EXCEPT !.made = TRUE]

Fresh == [k \in Keys |-> IF k[1] = "drills" THEN NoDrill ELSE "absent"]

Record(type, key, value) ==
    [type |-> type, key |-> key, value |-> value, watermark |-> 0, id |-> 0]

\* An attempt adds up, a session replaces the one before.
Trained(drill, e) ==
    IF e.type = "DrillAttempted" THEN [drill EXCEPT !.tries = Append(@, e.value)]
    ELSE [drill EXCEPT !.hint = e.value.hint, !.since = e.value.since]

\* A review of a game that is not there, a first look at one that is analysed, and the
\* training on a drill that is not there.
Ignores(old, e) ==
    \/ e.type = "AnalysisCompleted" /\ old = "absent"
    \/ e.type = "ShallowAnalysisCompleted" /\ old \in {"absent", "complete"}
    \/ e.type \in {"DrillAttempted", "DrillSessionUpdated"} /\ ~old.made

\* One branch of the second loop of replay, which is also what the calls do in memory.
Effect(old, e) ==
    IF Ignores(old, e) THEN old
    ELSE IF e.type \in {"DrillAttempted", "DrillSessionUpdated"} THEN Trained(old, e)
    ELSE e.value

Touches(e, k) == e.key = k

Apply(v, e) == IF e.key \in Keys THEN [v EXCEPT ![e.key] = Effect(@, e)] ELSE v

\* Variations are not in snapshots, so their records are never skipped.
Skipped(e, watermark) == e.id <= watermark /\ ~(e.key \in Keys /\ IsLine(e.key))

\* The projection v after the first n records of es that the watermark does not cover.
Applying(v, es, watermark) ==
    LET after[n \in 0 .. Len(es)] ==
            IF n = 0 THEN v
            ELSE IF Skipped(es[n], watermark) THEN after[n - 1]
            ELSE Apply(after[n - 1], es[n])
    IN  after

-----------------------------------------------------------------------------
(* A start.                                                                *)

IsMarker(e) == e.type = "ProfileSnapshotCreated"

\* The snapshots a marker authorizes, each with the newest such marker.
Authorized(es, snaps) ==
    {p \in snaps \X {e \in ToSet(es) : IsMarker(e)} :
        /\ p[2].value = p[1].path
        /\ p[2].watermark = p[1].watermark /\ p[2].watermark < p[2].id}

\* The snapshot replay starts from: greatest watermark, then newest marker.
Selected(es, snaps) ==
    CHOOSE p \in Authorized(es, snaps) :
        \A q \in Authorized(es, snaps) :
            \/ q[1].watermark < p[1].watermark
            \/ q[1].watermark = p[1].watermark /\ q[2].id <= p[2].id

\* EventLogRepository::replay: the projection rebuilt from the disk.
StartOf(es, snaps) ==
    IF Authorized(es, snaps) = {} THEN [watermark |-> 0, view |-> Fresh]
    ELSE LET s == Selected(es, snaps)[1] IN [watermark |-> s.watermark, view |-> s.view]
Rebuild(es, snaps) ==
    LET start == StartOf(es, snaps)
    IN  Applying(start.view, es, start.watermark)[Len(es)]

LinesAfter(es) == Max({0} \cup {e.key[2] : e \in {x \in ToSet(es) : x.type = "VariationSaved"}}) + 1

Restarted == Rebuild(Events(Recovered(file)), snapshots)

\* main: recover the tail of the log, then construct the log and the repository.
Boot ==
    /\ process = "down" /\ process' = "up"
    /\ LET kept == Recovered(file)
           es   == Events(kept)
       IN  /\ file' = kept
           /\ nextId' = NextId(kept)
           /\ view' = Rebuild(es, snapshots)
           /\ nextLine' = LinesAfter(es)
           /\ applied' = IF es = <<>> THEN 0 ELSE Last(es).id
           /\ contiguous' = IsValid(kept)
    /\ possible' = [k \in Keys |-> {view'[k]}]
    /\ UNCHANGED <<snapshots, failed, plan>>

\* Between two calls the process may stop, cleanly or not.
Stop == process = "up" /\ process' = "down" /\ UNCHANGED <<disk, memory, possible, failed, plan>>

StoreInit ==
    /\ file = <<>> /\ snapshots = {}
    /\ process = "up"
    /\ nextId = 1 /\ view = Fresh /\ nextLine = 1
    /\ applied = 0 /\ contiguous = TRUE
    /\ possible = [k \in Keys |-> {Fresh[k]}] /\ failed = 0
    /\ plan \in Plans

-----------------------------------------------------------------------------
(* How a call ends.  es are the records it appends, in order; the first    *)
(* together of them change the projection and are noted only when all of   *)
(* those are in the file, and each later one at once.                      *)

Numbered(es) == [i \in DOMAIN es |-> [es[i] EXCEPT !.id = nextId + i - 1]]

Room(n) == nextId + n - 1 <= MaxEvents /\ Len(file) + RecordCells * n <= RecordCells * MaxEvents

\* The first cells of es reach the file.
Write(es, cells) == file' = file \o Written(es, cells)

\* note_applied_event for each of n records numbered from nextId on.
Note(n) ==
    IF n > 0 /\ contiguous /\ nextId = applied + 1
    THEN applied' = applied + n /\ UNCHANGED contiguous
    ELSE contiguous' = (contiguous /\ n = 0) /\ UNCHANGED applied

\* The values key k may show when the first known records of es are acknowledged
\* and the others up to left are not, but are in the file.
AfterEffect(values, e, k) == IF Touches(e, k) THEN {Effect(x, e) : x \in values} ELSE values
Acknowledged(values, es, known, k) ==
    LET after[n \in 0 .. Len(es)] ==
            IF n = 0 THEN values
            ELSE AfterEffect(after[n - 1], es[n], k) \cup (IF n <= known THEN {} ELSE after[n - 1])
    IN  after
Acknowledge(es, known, left) ==
    possible' = [k \in Keys |-> Acknowledged(possible[k], es, known, k)[left]]

Remember(es, n) == view' = Applying(view, es, 0)[n] /\ nextId' = nextId + n

Fault == failed < MaxFaults /\ failed' = failed + 1

Applied(n, together) == IF n < together THEN 0 ELSE n

Succeed(es) ==
    LET n == Len(es)
    IN  /\ Write(es, RecordCells * n)
        /\ Remember(es, n) /\ Note(n) /\ Acknowledge(es, n, n)
        /\ UNCHANGED <<process, failed>>

\* The append of record n + 1 throws: cells of that record stay in the file.
Residues == (IF "refused" \in Faults THEN {0} ELSE {})
            \cup (IF "torn" \in Faults THEN 1 .. RecordCells - 1 ELSE {})
            \cup (IF "unsynced" \in Faults THEN {RecordCells} ELSE {})

Throw(es, together) == \E n \in 0 .. Len(es) - 1, residue \in Residues :
    LET known == Applied(n, together)
    IN  /\ Fault
        /\ Write(es, RecordCells * n + residue)
        /\ view' = Applying(view, es, 0)[known]
        /\ nextId' = nextId + n
        /\ Note(known)
        /\ Acknowledge(es, known, n + residue \div RecordCells)
        /\ UNCHANGED process

\* The process dies with any part of the records written.
DieIn(es) == \E cells \in 0 .. RecordCells * Len(es) :
    /\ "crash" \in Faults /\ Fault
    /\ Write(es, cells)
    /\ process' = "down"
    /\ Acknowledge(es, 0, cells \div RecordCells)
    /\ UNCHANGED memory

Perform(es, together) ==
    /\ Room(Len(es))
    /\ LET records == Numbered(es)
       IN  Succeed(records) \/ Throw(records, together) \/ DieIn(records)
    /\ UNCHANGED plan

Ready(call) == process = "up" /\ call \in plan

-----------------------------------------------------------------------------
(* The calls.                                                              *)

\* add_unlocked: the game is known once it is imported and parsed.  A failure to
\* record the rating is swallowed: the state is that of the throw, and the caller
\* is told that the game was added.
Add(g) ==
    /\ Ready("import") /\ view[<<"status", g>>] = "absent"
    /\ \E rated \in BOOLEAN :
           /\ rated => "rated" \in plan
           /\ Perform(<<Record("GameImported", <<"status", g>>, "pending"),
                        Record("GameParsed", <<>>, "")>>
                      \o (IF rated THEN <<Record("RatingObserved", <<>>, "")>> ELSE <<>>), 2)
    /\ UNCHANGED <<snapshots, nextLine>>

SaveShallow(g) ==
    /\ Ready("shallow") /\ view[<<"status", g>>] \in {"pending", "shallow"}
    /\ Perform(<<Record("ShallowAnalysisCompleted", <<"status", g>>, "shallow")>>, 1)
    /\ UNCHANGED <<snapshots, nextLine>>

\* save_analysis: the analysis first, then the drills that are not there yet.  The
\* snapshot it takes after every tenth game, without the mutex, is CreateSnapshot.
DrillRecords(g) ==
    IF view[<<"drills", g>>].made THEN <<>>
    ELSE <<Record("DrillCreated", <<"drills", g>>, NewDrill)>>
AnalysisRecords(g) ==
    <<Record("AnalysisCompleted", <<"status", g>>, "complete")>> \o DrillRecords(g)
SaveAnalysis(g) ==
    /\ Ready("analysis") /\ view[<<"status", g>>] # "absent"
    /\ Perform(AnalysisRecords(g), 1)
    /\ UNCHANGED <<snapshots, nextLine>>

RecordJobState(g) ==
    /\ Ready("job")
    /\ \E s \in Statuses : Perform(<<Record("AnalysisJobStateChanged", <<"job", g>>, s)>>, 1)
    /\ UNCHANGED <<snapshots, nextLine>>

\* The number is used up even when the append fails.
CreateVariation ==
    /\ Ready("variation") /\ nextLine \in Lines /\ \E g \in Games : view[<<"status", g>>] # "absent"
    /\ Perform(<<Record("VariationSaved", <<"line", nextLine>>, "root")>>, 1)
    /\ nextLine' = IF process' = "up" THEN nextLine + 1 ELSE nextLine
    /\ UNCHANGED snapshots

ExtendVariation(l) ==
    /\ Ready("variation") /\ view[<<"line", l>>] # "absent"
    /\ Perform(<<Record("VariationSaved", <<"line", l>>, "moved")>>, 1)
    /\ UNCHANGED <<snapshots, nextLine>>

DeleteVariation(l) ==
    /\ Ready("variation") /\ view[<<"line", l>>] # "absent"
    /\ Perform(<<Record("VariationDeleted", <<"line", l>>, "absent")>>, 1)
    /\ UNCHANGED <<snapshots, nextLine>>

(***************************************************************************)
(* Training on a drill.  The clock of the requests is one that every       *)
(* append and every failure moves.                                         *)
(***************************************************************************)
Clock == nextId + failed

\* add_validated_drill: a drill of the corpus, refused when it is there.
AddValidatedDrill(g) ==
    /\ Ready("drill") /\ ~view[<<"drills", g>>].made
    /\ Perform(<<Record("DrillCreated", <<"drills", g>>, NewDrill)>>, 1)
    /\ UNCHANGED <<snapshots, nextLine>>

SessionRecord(g, hint, since) ==
    Record("DrillSessionUpdated", <<"drills", g>>, [hint |-> hint, since |-> since])

\* record_attempt: a correct one also ends the session, in a record of its own.
RecordAttempt(g) ==
    /\ Ready("train") /\ view[<<"drills", g>>].made
    /\ \E correct \in BOOLEAN :
           Perform(<<Record("DrillAttempted", <<"drills", g>>,
                            [at |-> Clock, correct |-> correct])>>
                     \o (IF correct THEN <<SessionRecord(g, 0, 0)>> ELSE <<>>), 1)
    /\ UNCHANGED <<snapshots, nextLine>>

\* begin_drill_session: one that is open goes on.
BeginDrillSession(g) ==
    /\ Ready("train") /\ view[<<"drills", g>>].made /\ view[<<"drills", g>>].since = 0
    /\ Perform(<<SessionRecord(g, view[<<"drills", g>>].hint, Clock)>>, 1)
    /\ UNCHANGED <<snapshots, nextLine>>

\* available_hint_level: one hint for each failure since the session began.
MaxHint == 3
Failures(drill) ==
    {i \in DOMAIN drill.tries : drill.tries[i].at >= drill.since /\ ~drill.tries[i].correct}
Available(drill) == IF drill.since = 0 THEN 0 ELSE Min({MaxHint, Cardinality(Failures(drill))})

AdvanceHint(g) ==
    /\ Ready("train") /\ view[<<"drills", g>>].made
    /\ LET drill == view[<<"drills", g>>]
       IN  /\ drill.hint < Available(drill)
           /\ Perform(<<SessionRecord(g, Min({MaxHint, drill.hint + 1}), drill.since)>>, 1)
    /\ UNCHANGED <<snapshots, nextLine>>

\* create_snapshot: refused unless the projection is that of the whole log.  The
\* file is complete before the marker that authorizes it is appended.
SnapshotView == [k \in Keys |-> IF IsLine(k) THEN Fresh[k] ELSE view[k]]
LastId(es) == IF es = <<>> THEN 0 ELSE Last(es).id
MaySnapshot == IsValid(file) /\ contiguous /\ LastId(Events(file)) = applied
CreateSnapshot ==
    /\ Ready("snapshot") /\ MaySnapshot /\ Cardinality(snapshots) < MaxSnapshots
    /\ LET path == Cardinality(snapshots) + 1
       IN  /\ snapshots' = snapshots \cup {[path |-> path, watermark |-> applied, view |-> SnapshotView]}
           /\ Perform(<<[Record("ProfileSnapshotCreated", <<>>, path) EXCEPT !.watermark = applied]>>, 1)
    /\ UNCHANGED nextLine

\* compact_storage.  The new file replaces the old one at once.  When the directory
\* cannot be synced after that, compact throws before it takes the new next id.
Noted(s, id) ==
    IF id <= s.applied THEN s
    ELSE IF s.contiguous /\ id = s.applied + 1 THEN [s EXCEPT !.applied = id]
    ELSE [s EXCEPT !.contiguous = FALSE]
NotedUpTo(start, es) ==
    LET noted[n \in 0 .. Len(es)] == IF n = 0 THEN start ELSE Noted(noted[n - 1], es[n].id)
    IN  noted
NoteUnseen(es) ==
    LET after == NotedUpTo([applied |-> applied, contiguous |-> contiguous], es)[Len(es)]
    IN  applied' = after.applied /\ contiguous' = after.contiguous
Compact ==
    /\ Ready("compact") /\ IsValid(file) /\ Room(1)
    /\ file' = Compacted(file, nextId)
    /\ \/ /\ nextId' = nextId + 1
          /\ NoteUnseen(Events(file'))
          /\ UNCHANGED <<process, view, nextLine, failed>>
       \/ "refused" \in Faults /\ Fault /\ UNCHANGED <<process, memory>>
       \/ "crash" \in Faults /\ Fault /\ process' = "down" /\ UNCHANGED memory
    /\ UNCHANGED <<snapshots, possible, plan>>

StoreNext ==
    \/ \E g \in Games : Add(g) \/ SaveShallow(g) \/ SaveAnalysis(g) \/ RecordJobState(g)
    \/ \E g \in Games :
           AddValidatedDrill(g) \/ RecordAttempt(g) \/ BeginDrillSession(g) \/ AdvanceHint(g)
    \/ CreateVariation
    \/ \E l \in Lines : ExtendVariation(l) \/ DeleteVariation(l)
    \/ CreateSnapshot \/ Compact
    \/ Stop \/ Boot

StoreSpec == StoreInit /\ [][StoreNext]_storeVars

-----------------------------------------------------------------------------
(* Properties.                                                             *)

\* Whenever the process stops, the next start shows for every key what the last
\* acknowledged call left, or what a call that was not acknowledged would have:
\* never an older value, and never a value nobody wrote.
Durable == \A k \in Keys : Restarted[k] \in possible[k]

\* Compaction does not change what a start shows, with or without the snapshots.
CompactionKeeps ==
    IsValid(file) => \A snaps \in {{}, snapshots} :
        Rebuild(Events(Compacted(file, nextId)), snaps) = Rebuild(Events(file), snaps)

\* A snapshot stands for the records up to its marker, and replay tells them from the
\* later ones by their ids: no record after the marker has an id the snapshot covers,
\* and none before it has a greater one.
WatermarkSplits ==
    LET es == Events(file)
    IN  \A i, j \in DOMAIN es : IsMarker(es[i]) =>
            /\ j > i => es[j].id > es[i].watermark
            /\ j < i => es[j].id <= es[i].watermark

=============================================================================
