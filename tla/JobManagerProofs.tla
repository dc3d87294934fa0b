-------------------------- MODULE JobManagerProofs --------------------------
(***************************************************************************)
(* Proofs about JobManager for any number of games, workers, clients and   *)
(* sources, any queue limit and any retry limit: the types; that no job is *)
(* forgotten and the counters are exact, whatever throws; and, as long as  *)
(* record_job_state does not throw, that no game is analysed by two        *)
(* workers at once, no finished game is analysed again, and the manager    *)
(* implements JobLifecycle.                                                *)
(***************************************************************************)
EXTENDS JobManager, FiniteSetTheorems, SequenceTheorems, TLAPS

\* Facts about the helpers.
LEMMA PriorityFacts ==
    /\ Interactive \in Priorities /\ Historical \in Priorities
    /\ Interactive # Historical
    /\ \A p \in Priorities : p = Interactive \/ p = Historical
    /\ BestQueue \in Priorities
BY DEF Interactive, Historical, Priorities, BestQueue

LEMMA StatusFacts ==
    /\ Statuses = {"queued", "running", "complete", "failed", "cancelled"}
    /\ Undecided \subseteq Statuses /\ Decided \subseteq Statuses
BY DEF Statuses, Undecided, Decided

LEMMA NewTaskType ==
    ASSUME NEW j \in Nat, NEW d \in BOOLEAN, NEW p \in Priorities
    PROVE  NewTask(j, d, p) \in Tasks
BY DEF NewTask, Tasks

\* What a change of one job's status does to the jobs.
LEMMA StatusChange ==
    ASSUME NEW f, \A j \in DOMAIN f : f[j] \in Jobs,
           NEW j, NEW s \in Statuses,
           NEW g, g = [f EXCEPT ![j].status = s]
    PROVE  /\ DOMAIN g = DOMAIN f
           /\ \A k \in DOMAIN g : g[k] \in Jobs
           /\ \A k \in DOMAIN g : g[k].game = f[k].game
           /\ \A k \in DOMAIN g : k # j => g[k] = f[k]
           /\ j \in DOMAIN g => g[j].status = s
BY DEF Jobs

\* Functions that change at one argument keep their type.
LEMMA PointChange ==
    ASSUME NEW S, NEW T, NEW f \in [S -> T], NEW x, NEW v \in T
    PROVE  [f EXCEPT ![x] = v] \in [S -> T]
OBVIOUS

LEMMA CounterChange ==
    ASSUME NEW f \in [Priorities -> Int], NEW p \in Priorities
    PROVE  /\ [f EXCEPT ![p] = @ + 1] \in [Priorities -> Int]
           /\ [f EXCEPT ![p] = @ - 1] \in [Priorities -> Int]
OBVIOUS

LEMMA HeadTailType ==
    ASSUME NEW S, NEW l \in Seq(S), l # <<>>
    PROVE  Head(l) \in S /\ Tail(l) \in Seq(S)
OBVIOUS

LEMMA GotoType ==
    ASSUME WorkerTypeOK, NEW w \in Workers, NEW pc \in WorkerAt, Goto(w, pc)
    PROVE  wpc' \in [Workers -> WorkerAt]
BY DEF WorkerTypeOK, Goto

LEMMA EnqueueType ==
    ASSUME QueuesTypeOK, NEW t \in Tasks, Enqueue(t)
    PROVE  queues' \in [Priorities -> Seq(Tasks)]
  <1>1. t.prio \in Priorities
    BY DEF Tasks
  <1>2. Append(queues[t.prio], t) \in Seq(Tasks)
    BY <1>1 DEF QueuesTypeOK
  <1> QED
    BY <1>1, <1>2 DEF QueuesTypeOK, Enqueue

-----------------------------------------------------------------------------
(* Facts about sequences the clients build.                                 *)

\* RemoveAt drops one element and keeps the order of the others.
LEMMA RemoveAtFacts ==
    ASSUME NEW S, NEW q \in Seq(S), NEW i \in DOMAIN q
    PROVE  /\ RemoveAt(q, i) \in Seq(S)
           /\ Len(RemoveAt(q, i)) = Len(q) - 1
           /\ \A k \in 1 .. Len(q) - 1 :
                 RemoveAt(q, i)[k] = IF k < i THEN q[k] ELSE q[k + 1]
  <1>1. i \in 1 .. Len(q) /\ Len(q) \in Nat
    OBVIOUS
  <1>2. \A k \in 1 .. Len(q) : q[k] \in S
    OBVIOUS
  <1>3. /\ SubSeq(q, 1, i - 1) \in Seq(S)
        /\ Len(SubSeq(q, 1, i - 1)) = i - 1
        /\ \A k \in 1 .. i - 1 : SubSeq(q, 1, i - 1)[k] = q[k]
    BY <1>1, <1>2, SubSeqProperties
  <1>4. /\ SubSeq(q, i + 1, Len(q)) \in Seq(S)
        /\ Len(SubSeq(q, i + 1, Len(q))) = Len(q) - i
        /\ \A k \in 1 .. Len(q) - i : SubSeq(q, i + 1, Len(q))[k] = q[i + k]
    BY <1>1, <1>2, SubSeqProperties
  <1>5. PICK a, b : a = SubSeq(q, 1, i - 1) /\ b = SubSeq(q, i + 1, Len(q))
    OBVIOUS
  <1>6. /\ a \o b \in Seq(S) /\ Len(a \o b) = Len(a) + Len(b)
        /\ \A k \in 1 .. Len(a) + Len(b) :
              (a \o b)[k] = IF k <= Len(a) THEN a[k] ELSE b[k - Len(a)]
    <2>1. a \in Seq(S) /\ b \in Seq(S)
      BY <1>3, <1>4, <1>5
    <2> QED
      BY <2>1, ConcatProperties
  <1>7. Len(a) = i - 1 /\ Len(b) = Len(q) - i
    BY <1>3, <1>4, <1>5
  <1>8. ASSUME NEW k \in 1 .. Len(q) - 1
        PROVE  (a \o b)[k] = IF k < i THEN q[k] ELSE q[k + 1]
    <2>1. CASE k < i
      <3>1. k \in 1 .. i - 1 /\ k <= Len(a) /\ k \in 1 .. Len(a) + Len(b)
        BY <1>1, <1>7, <2>1
      <3> QED
        BY <1>3, <1>5, <1>6, <2>1, <3>1
    <2>2. CASE ~(k < i)
      <3>1. PICK m : m = k - (i - 1)
        OBVIOUS
      <3>2. m \in 1 .. Len(q) - i /\ i + m = k + 1 /\ k \in 1 .. (i - 1) + (Len(q) - i)
        BY <1>1, <2>2, <3>1
      <3>3. b[m] = q[k + 1]
        BY <1>4, <1>5, <3>2
      <3>4. ~(k <= Len(a)) /\ k - Len(a) = m /\ k \in 1 .. Len(a) + Len(b)
        BY <1>1, <1>7, <2>2, <3>1, <3>2
      <3>5. (a \o b)[k] = b[m]
        BY <1>6, <3>4
      <3> QED
        BY <1>1, <2>2, <3>3, <3>5
    <2> QED
      BY <2>1, <2>2
  <1>9. RemoveAt(q, i) = a \o b
    BY <1>5 DEF RemoveAt
  <1>10. Len(a \o b) = Len(q) - 1
    BY <1>1, <1>6, <1>7
  <1> QED
    BY <1>6, <1>8, <1>9, <1>10

\* A sequence that lists a finite set once.
LEMMA SetToSeqsFacts ==
    ASSUME NEW S, IsFiniteSet(S), NEW o \in SetToSeqs(S)
    PROVE  /\ o \in Seq(S) /\ Len(o) = Cardinality(S) /\ Cardinality(S) \in Nat
           /\ \A i \in 1 .. Len(o) : o[i] \in S
           /\ \A i, k \in 1 .. Len(o) : i # k => o[i] # o[k]
  <1>1. Cardinality(S) \in Nat
    BY FS_CardinalityType
  <1> QED
    BY <1>1 DEF SetToSeqs

\* What StartNew adds for request r: todo are the games to analyse, done the games of
\* which the repository has the analysis.
LEMMA NewOrder ==
    ASSUME ConstantsOK, NEW r, r.games \subseteq Games, NEW todo \in Orders(r),
           NEW done \in SetToSeqs(NewGames(r.games) \cap r.complete)
    PROVE  /\ todo \in Seq(Games) /\ todo \o done \in Seq(Games)
           /\ UsedIds(r) = Len(todo \o done) /\ Len(todo) <= Len(todo \o done)
           /\ Len(todo) = NewTasks(r)
           /\ \A i \in 1 .. Len(todo) : (todo \o done)[i] = todo[i] /\ todo[i] \notin r.complete
           /\ \A i \in 1 .. Len(todo \o done) :
                 /\ (todo \o done)[i] \in NewGames(r.games)
                 /\ i > Len(todo) => (todo \o done)[i] \in r.complete
           /\ \A i, k \in 1 .. Len(todo \o done) : i # k => (todo \o done)[i] # (todo \o done)[k]
  <1> DEFINE N == NewGames(r.games)
  <1>1. IsFiniteSet(N) /\ N \subseteq Games
    BY FS_Subset DEF NewGames, ConstantsOK
  <1>2. IsFiniteSet(N \ r.complete) /\ IsFiniteSet(N \cap r.complete)
        /\ Cardinality(N \ r.complete) = Cardinality(N) - Cardinality(N \cap r.complete)
    BY <1>1, FS_Difference, FS_Intersection
  <1>3. /\ todo \in SetToSeqs(N \ r.complete) /\ todo \in Seq(N \ r.complete)
        /\ Len(todo) = Cardinality(N \ r.complete)
        /\ \A i \in 1 .. Len(todo) : todo[i] \in N \ r.complete
        /\ \A i, k \in 1 .. Len(todo) : i # k => todo[i] # todo[k]
    BY <1>2, SetToSeqsFacts DEF Orders
  <1>4. /\ done \in Seq(N \cap r.complete)
        /\ Len(done) = Cardinality(N \cap r.complete)
        /\ \A i \in 1 .. Len(done) : done[i] \in N \cap r.complete
        /\ \A i, k \in 1 .. Len(done) : i # k => done[i] # done[k]
    BY <1>2, SetToSeqsFacts
  <1>5. Cardinality(N) \in Nat
    BY <1>1, FS_CardinalityType
  <1>6. todo \in Seq(Games) /\ done \in Seq(Games)
    BY <1>1, <1>3, <1>4, SeqMonotonic
  <1>7. /\ todo \o done \in Seq(Games) /\ Len(todo \o done) = Len(todo) + Len(done)
        /\ \A i \in 1 .. Len(todo) + Len(done) :
              (todo \o done)[i] = IF i <= Len(todo) THEN todo[i] ELSE done[i - Len(todo)]
        /\ Len(todo) \in Nat /\ Len(done) \in Nat
    BY <1>6, ConcatProperties, LenProperties
  <1> HIDE DEF N
  <1>8. UsedIds(r) = Len(todo \o done) /\ Len(todo) = NewTasks(r)
    <2>1. Cardinality(N \cap r.complete) \in Nat
      BY <1>2, FS_CardinalityType
    <2>2. Len(todo) + Len(done) = Cardinality(N)
      <3>1. Len(todo) = Cardinality(N \ r.complete)
        BY <1>3
      <3>2. Len(done) = Cardinality(N \cap r.complete)
        BY <1>4
      <3>3. Cardinality(N \ r.complete) = Cardinality(N) - Cardinality(N \cap r.complete)
        BY <1>2
      <3> QED
        BY <1>5, <2>1, <3>1, <3>2, <3>3
    <2>3. UsedIds(r) = Cardinality(N) /\ NewTasks(r) = Cardinality(N \ r.complete)
      BY DEF UsedIds, NewTasks, N
    <2> QED
      BY <1>3, <1>7, <2>2, <2>3
  <1>9. \A i \in 1 .. Len(todo) : (todo \o done)[i] = todo[i] /\ todo[i] \notin r.complete
    BY <1>3, <1>7
  <1>10. \A i \in 1 .. Len(todo \o done) :
                 /\ (todo \o done)[i] \in N
                 /\ i > Len(todo) => (todo \o done)[i] \in r.complete
    <2> SUFFICES ASSUME NEW i \in 1 .. Len(todo \o done)
                 PROVE  /\ (todo \o done)[i] \in N
                        /\ i > Len(todo) => (todo \o done)[i] \in r.complete
      OBVIOUS
    <2>1. CASE ~(i > Len(todo))
      <3>1. i \in 1 .. Len(todo)
        BY <1>7, <2>1
      <3>2. (todo \o done)[i] = todo[i]
        BY <1>9, <3>1
      <3>3. todo[i] \in N
        BY <1>3, <3>1
      <3> QED
        BY <2>1, <3>2, <3>3
    <2>2. CASE i > Len(todo)
      <3>1. PICK a : a = i - Len(todo)
        OBVIOUS
      <3>2. a \in 1 .. Len(done)
        BY <1>7, <2>2, <3>1
      <3>3. (todo \o done)[i] = done[a]
        BY <1>7, <2>2, <3>1
      <3> QED
        BY <1>4, <2>2, <3>2, <3>3
    <2> QED
      BY <1>7, <2>1, <2>2
  <1>11. \A i, k \in 1 .. Len(todo \o done) : i # k => (todo \o done)[i] # (todo \o done)[k]
    <2> SUFFICES ASSUME NEW i \in 1 .. Len(todo \o done), NEW k \in 1 .. Len(todo \o done),
                        i # k
                 PROVE  (todo \o done)[i] # (todo \o done)[k]
      OBVIOUS
    <2>1. CASE i <= Len(todo) /\ k <= Len(todo)
      <3>1. i \in 1 .. Len(todo) /\ k \in 1 .. Len(todo)
        BY <1>7, <2>1
      <3>2. (todo \o done)[i] = todo[i] /\ (todo \o done)[k] = todo[k]
        BY <1>9, <3>1
      <3> QED
        BY <1>3, <3>1, <3>2
    <2>2. CASE i > Len(todo) /\ k > Len(todo)
      <3>1. PICK a, b : a = i - Len(todo) /\ b = k - Len(todo)
        OBVIOUS
      <3>2. a \in 1 .. Len(done) /\ b \in 1 .. Len(done) /\ a # b
        BY <1>7, <2>2, <3>1
      <3>3. (todo \o done)[i] = done[a] /\ (todo \o done)[k] = done[b]
        BY <1>7, <2>2, <3>1
      <3> QED
        BY <1>4, <3>2, <3>3
    <2>3. CASE (i <= Len(todo)) # (k <= Len(todo))
      BY <1>9, <1>10, <1>7, <2>3
    <2> QED
      BY <1>7, <2>1, <2>2, <2>3
  <1> QED
    BY <1>6, <1>7, <1>8, <1>9, <1>10, <1>11 DEF N

-----------------------------------------------------------------------------
(* Type correctness.                                                        *)

LEMMA TypeInit == ASSUME ConstantsOK PROVE Init => TypeOK
  <1> SUFFICES ASSUME Init PROVE TypeOK
    OBVIOUS
  <1>1. NoTask \in Tasks
    BY NewTaskType, PriorityFacts DEF NoTask
  <1>2. QueuesTypeOK
    BY DEF Init, QueuesTypeOK
  <1>3. JobsTypeOK /\ SourceTypeOK
    <2>1. DOMAIN jobs = {} /\ DOMAIN active = {}
      BY DEF Init
    <2> QED
      BY <2>1 DEF Init, JobsTypeOK, SourceTypeOK
  <1>4. WorkerTypeOK
    BY <1>1 DEF Init, WorkerTypeOK, WorkerAt, ExecutingAt
  <1>5. StoreTypeOK
    BY DEF Init, StoreTypeOK
  <1> QED
    BY <1>2, <1>3, <1>4, <1>5 DEF TypeOK, Init, Requests

USE ConstantsOK, PriorityFacts, StatusFacts

\* Whoever is past the take knows an existing job.
KnowsJob == \A w \in Workers : wpc[w] # "idle" => task[w].job \in DOMAIN jobs

\* Only a status that was read is recorded.
RecordsStatus == \A w \in Workers : wpc[w] = "record" => outcome[w] \in Statuses

\* A process that ended has no worker, no job and no task.
DownIsEmpty == mode = "down" => /\ \A w \in Workers : wpc[w] = "idle"
                                /\ DOMAIN jobs = {}
                                /\ queues = [p \in Priorities |-> <<>>]

TypeInv == TypeOK /\ KnowsJob /\ RecordsStatus /\ DownIsEmpty

LEMMA GameType ==
    ASSUME JobsTypeOK, KnowsJob, NEW w \in Workers, wpc[w] # "idle"
    PROVE  GameOf(w) \in Games
BY DEF JobsTypeOK, KnowsJob, GameOf, Jobs

LEMMA TypeTake ==
    ASSUME TypeOK, NEW w \in Workers, Take(w) PROVE TypeOK'
  <1> DEFINE p == BestQueue
             t == Head(queues[p])
  <1>1. /\ p \in Priorities /\ queues[p] \in Seq(Tasks) /\ queues[p] # <<>>
        /\ t \in Tasks /\ Tail(queues[p]) \in Seq(Tasks) /\ t.job \in DOMAIN jobs
    BY DEF Take, CanTake, Servable, TypeOK, QueuesTypeOK, Wanted
  <1>2. PICK s \in IF t.src = Unshared THEN FreshSources ELSE {t.src} :
           /\ task' = [task EXCEPT ![w] = [t EXCEPT !.src = s]]
           /\ active' = [j \in DOMAIN active \cup {t.job} |->
                               IF j = t.job THEN [prio |-> p, src |-> s] ELSE active[j]]
    BY DEF Take
  <1>3. s \in Sources
    BY <1>1, <1>2 DEF FreshSources, Tasks
  <1>4. [t EXCEPT !.src = s] \in Tasks
    BY <1>1, <1>3 DEF Tasks
  <1>5. /\ queues' = [queues EXCEPT ![p] = Tail(queues[p])]
        /\ activeBy' = [activeBy EXCEPT ![p] = @ + 1]
        /\ jobs' = [jobs EXCEPT ![t.job].status = "running"]
        /\ Goto(w, "announce")
        /\ UNCHANGED <<mode, bootFailed, paused, nextId, stopped, outcome, request, storeVars>>
    BY DEF Take
  <1> HIDE DEF p, t
  <1>6. QueuesTypeOK'
    BY <1>1, <1>5, PointChange, CounterChange DEF QueuesTypeOK, TypeOK
  <1>7. JobsTypeOK'
    <2>1. JobsTypeOK /\ "running" \in Statuses
      BY DEF TypeOK
    <2> QED
      <3>1. PICK j : j = t.job
        OBVIOUS
      <3>2. jobs' = [jobs EXCEPT ![j].status = "running"] /\ nextId' = nextId
        BY <1>5, <3>1
      <3>3. \A k \in DOMAIN jobs : jobs[k] \in Jobs
        BY <2>1 DEF JobsTypeOK
      <3>4. DOMAIN jobs' = DOMAIN jobs /\ \A k \in DOMAIN jobs' : jobs'[k] \in Jobs
        BY <3>2, <3>3 DEF Jobs
      <3> QED
        BY <2>1, <3>2, <3>4 DEF JobsTypeOK
  <1>8. WorkerTypeOK'
    <2>1. "announce" \in WorkerAt
      BY DEF WorkerAt, ExecutingAt
    <2> QED
      BY <1>2, <1>4, <1>5, <2>1, GotoType, PointChange DEF TypeOK, WorkerTypeOK
  <1>9. SourceTypeOK'
    BY <1>1, <1>2, <1>3, <1>5 DEF TypeOK, SourceTypeOK
  <1> QED
    BY <1>5, <1>6, <1>7, <1>8, <1>9 DEF TypeOK, StoreTypeOK, storeVars

LEMMA TypeWorker ==
    ASSUME TypeOK, KnowsJob, RecordsStatus, NEW w \in Workers, WorkerStep(w)
    PROVE  TypeOK'
  <1> USE DEF queueVars, workerVars, storeVars
  <1>0. /\ JobsTypeOK /\ QueuesTypeOK /\ SourceTypeOK /\ WorkerTypeOK /\ StoreTypeOK
        /\ WorkerAt = {"announce", "look", "found", "analyze", "commit", "catch", "idle", "requeued",
                       "release", "finish", "snapshot", "record"}
        /\ NoTask \in Tasks
    BY NewTaskType DEF TypeOK, WorkerAt, ExecutingAt, NoTask
  <1>1. CASE Take(w)
    BY <1>1, TypeTake
  <1>2. CASE Discard(w)
    <2>1. QueuesTypeOK'
      <3>1. Tail(queues[BestQueue]) \in Seq(Tasks)
        BY <1>0, <1>2 DEF Discard, CanTake, Servable, QueuesTypeOK
      <3> QED
        BY <1>0, <1>2, <3>1, PointChange DEF Discard, QueuesTypeOK
    <2> QED
      BY <1>0, <1>2, <2>1 DEF Discard, TypeOK, JobsTypeOK, SourceTypeOK, WorkerTypeOK, StoreTypeOK
  <1>3. CASE Announce(w) \/ Look(w)
    <2>1. WorkerTypeOK'
      BY <1>0, <1>3, GotoType DEF Announce, Look, WorkerTypeOK
    <2>2. StoreTypeOK'
      BY <1>0, <1>3, PointChange DEF Announce, Look, StoreTypeOK
    <2> QED
      BY <1>0, <1>3, <2>1, <2>2 DEF Announce, Look, TypeOK, JobsTypeOK, QueuesTypeOK, SourceTypeOK
  <1>4. CASE Found(w) \/ CommitDeep(w)
    <2>1. WorkerTypeOK'
      BY <1>0, <1>4, GotoType DEF Found, CommitDeep, WorkerTypeOK
    <2>2. JobsTypeOK'
      BY <1>0, <1>4, StatusChange DEF Found, CommitDeep, JobsTypeOK
    <2> QED
      BY <1>0, <1>4, <2>1, <2>2
         DEF Found, CommitDeep, TypeOK, QueuesTypeOK, SourceTypeOK, StoreTypeOK
  <1>5. CASE Analyze(w) \/ SaveThrows(w)
    <2>1. WorkerTypeOK'
      BY <1>0, <1>5, GotoType DEF Analyze, SaveThrows, Throws, WorkerTypeOK
    <2>2. GameOf(w) \in Games
      BY <1>0, <1>5, GameType DEF Analyze, SaveThrows
    <2>3. StoreTypeOK'
      BY <1>0, <1>5, <2>2 DEF Analyze, SaveThrows, Save, StoreTypeOK
    <2> QED
      BY <1>0, <1>5, <2>1, <2>3
         DEF Analyze, SaveThrows, TypeOK, JobsTypeOK, QueuesTypeOK, SourceTypeOK
  <1>6. CASE AnalyzeThrows(w) \/ RecordRequeuedThrows(w)
    <2>1. WorkerTypeOK'
      BY <1>0, <1>6, GotoType DEF AnalyzeThrows, RecordRequeuedThrows, Throws, WorkerTypeOK
    <2> QED
      BY <1>0, <1>6, <2>1 DEF AnalyzeThrows, RecordRequeuedThrows, TypeOK, JobsTypeOK,
                              QueuesTypeOK, SourceTypeOK, StoreTypeOK
  <1>7. CASE CommitShallow(w)
    <2>1. WorkerTypeOK'
      BY <1>0, <1>7, GotoType DEF CommitShallow, WorkerTypeOK
    <2>2. JobsTypeOK'
      BY <1>0, <1>7, StatusChange DEF CommitShallow, JobsTypeOK
    <2>3. NewTask(task[w].job, TRUE, task[w].prio) \in Tasks
      BY <1>0, NewTaskType DEF WorkerTypeOK, Tasks
    <2>4. QueuesTypeOK'
      BY <1>0, <1>7, <2>3, EnqueueType DEF CommitShallow, QueuesTypeOK
    <2> QED
      BY <1>0, <1>7, <2>1, <2>2, <2>4 DEF CommitShallow, TypeOK, SourceTypeOK, StoreTypeOK
  <1>8. CASE RecordRequeued(w)
    <2>1. WorkerTypeOK'
      BY <1>0, <1>8, GotoType DEF RecordRequeued, WorkerTypeOK
    <2>2. StoreTypeOK'
      BY <1>0, <1>8, PointChange DEF RecordRequeued, StoreTypeOK
    <2> QED
      BY <1>0, <1>8, <2>1, <2>2 DEF RecordRequeued, TypeOK, JobsTypeOK, QueuesTypeOK, SourceTypeOK
  <1>9. CASE Catch(w)
    <2>1. WorkerTypeOK'
      BY <1>0, <1>9, GotoType DEF Catch, WorkerTypeOK
    <2>2. JobsTypeOK'
      <3>1. CatchStatus(w) \in Statuses
        BY DEF CatchStatus
      <3> QED
        BY <1>0, <1>9, <3>1, StatusChange DEF Catch, JobsTypeOK
    <2>3. QueuesTypeOK'
      <3>1. CASE CatchStatus(w) = "queued"
        <4>1. jobs[task[w].job].prio \in Priorities
          BY <1>0, <1>9 DEF Catch, KnowsJob, JobsTypeOK, Jobs
        <4>2. task[w] \in Tasks
          BY <1>0 DEF WorkerTypeOK
        <4>3. [task[w] EXCEPT !.prio = jobs[task[w].job].prio, !.src = Unshared] \in Tasks
          BY <4>1, <4>2 DEF Tasks
        <4>4. [task[w] EXCEPT !.attempts = @ + 1] \in Tasks
          <5>1. task[w].attempts + 1 \in Nat
            BY <4>2 DEF Tasks
          <5> QED
            BY <4>2, <5>1 DEF Tasks
        <4> QED
          BY <1>0, <1>9, <3>1, <4>3, <4>4, EnqueueType DEF Catch, Requeue, QueuesTypeOK
      <3>2. CASE CatchStatus(w) # "queued"
        BY <1>0, <1>9, <3>2 DEF Catch, QueuesTypeOK
      <3> QED
        BY <3>1, <3>2
    <2> QED
      BY <1>0, <1>9, <2>1, <2>2, <2>3 DEF Catch, TypeOK, SourceTypeOK, StoreTypeOK
  <1>10. CASE Finish(w)
    <2>1. WorkerTypeOK'
      <3>1. task' \in [Workers -> Tasks]
        BY <1>0, <1>10, PointChange DEF Finish, WorkerTypeOK
      <3> QED
        BY <1>0, <1>10, <3>1, GotoType DEF Finish, WorkerTypeOK
    <2>2. QueuesTypeOK'
      <3>1. TakenWith(w) = task[w].prio /\ task[w].prio \in Priorities
        BY <1>0 DEF TakenWith, WorkerTypeOK, Tasks
      <3> QED
        BY <1>0, <1>10, <3>1, CounterChange DEF Finish, QueuesTypeOK
    <2>3. SourceTypeOK'
      BY <1>0, <1>10 DEF Finish, SourceTypeOK
    <2> QED
      BY <1>0, <1>10, <2>1, <2>2, <2>3 DEF Finish, TypeOK, JobsTypeOK, StoreTypeOK
  <1>11. CASE Snapshot(w)
    <2>1. jobs[task[w].job].status \in Statuses
      BY <1>0, <1>11 DEF Snapshot, KnowsJob, JobsTypeOK, Jobs
    <2>2. WorkerTypeOK'
      BY <1>0, <1>11, <2>1, GotoType DEF Snapshot, WorkerTypeOK
    <2> QED
      BY <1>0, <1>11, <2>2 DEF Snapshot, TypeOK, JobsTypeOK, QueuesTypeOK, SourceTypeOK,
                               StoreTypeOK
  <1>12. CASE Record(w)
    <2>1. WorkerTypeOK'
      <3>1. task' \in [Workers -> Tasks]
        BY <1>0, <1>12, PointChange DEF Record, WorkerTypeOK
      <3> QED
        BY <1>0, <1>12, <3>1, GotoType DEF Record, WorkerTypeOK
    <2>2. StoreTypeOK'
      BY <1>0, <1>12, PointChange DEF Record, StoreTypeOK, RecordsStatus
    <2> QED
      BY <1>0, <1>12, <2>1, <2>2 DEF Record, TypeOK, JobsTypeOK, QueuesTypeOK, SourceTypeOK
  <1> QED
    BY <1>1, <1>2, <1>3, <1>4, <1>5, <1>6, <1>7, <1>8, <1>9, <1>10, <1>11, <1>12
       DEF WorkerStep

\* The locals of a request thread by the kind of its call.
LEMMA RequestKinds ==
    ASSUME NEW r \in Requests
    PROVE  /\ r.kind = "start" => /\ r.games \subseteq Games /\ r.prio \in Priorities
                                  /\ r.shallow \subseteq Games /\ r.complete \subseteq Games
           /\ r.kind = "record" => /\ r.list \in Seq([game : Games, status : Statuses])
                                   /\ r = [kind |-> "record", list |-> r.list]
           /\ r.kind = "storePause" => r.value \in BOOLEAN
BY DEF Requests, NoRequest

LEMMA RecordRequest ==
    ASSUME NEW l \in Seq([game : Games, status : Statuses])
    PROVE  [kind |-> "record", list |-> l] \in Requests
BY DEF Requests

LEMMA PreemptedSourcesType == SourceTypeOK => PreemptedSources \subseteq Sources
BY DEF SourceTypeOK, PreemptedSources

LEMMA TypePromote ==
    ASSUME TypeOK, NEW j \in DOMAIN jobs, Promote(j), UNCHANGED <<nextId, activeBy>>
    PROVE  /\ JobsTypeOK' /\ QueuesTypeOK'
           /\ PromotedSources(j) \subseteq Sources
  <1>1. JobsTypeOK'
    BY DEF TypeOK, JobsTypeOK, Promote, Jobs
  <1>2. CASE UNCHANGED queues
    BY <1>1, <1>2 DEF TypeOK, QueuesTypeOK, PromotedSources, SourceTypeOK
  <1>3. CASE queues' # queues
    <2>1. PICK i \in DOMAIN queues[Historical] :
            queues' = [queues EXCEPT
                  ![Historical]  = RemoveAt(@, i),
                  ![Interactive] = Append(@, [queues[Historical][i] EXCEPT !.prio = Interactive])]
      BY <1>3 DEF Promote, MoveTask
    <2>2. queues[Historical] \in Seq(Tasks) /\ queues[Interactive] \in Seq(Tasks)
      BY DEF TypeOK, QueuesTypeOK
    <2>3. RemoveAt(queues[Historical], i) \in Seq(Tasks)
      BY <2>1, <2>2, RemoveAtFacts
    <2>4. queues[Historical][i] \in Tasks
      BY <2>1, <2>2
    <2>5. [queues[Historical][i] EXCEPT !.prio = Interactive] \in Tasks
      BY <2>4 DEF Tasks
    <2>6. Append(queues[Interactive], [queues[Historical][i] EXCEPT !.prio = Interactive])
             \in Seq(Tasks)
      BY <2>2, <2>5
    <2> QED
      BY <1>1, <2>1, <2>3, <2>6 DEF TypeOK, QueuesTypeOK, PromotedSources, SourceTypeOK
  <1> QED
    BY <1>2, <1>3

LEMMA TypeStartNew ==
    ASSUME TypeOK, NEW c \in Clients, StartNew(c) PROVE TypeOK'
  <1> DEFINE r == request[c]
  <1>1. /\ r.games \subseteq Games /\ r.prio \in Priorities
    BY RequestKinds DEF TypeOK, StartNew, Starting
  <1>2. PICK todo \in Orders(r), done \in SetToSeqs(NewGames(r.games) \cap r.complete) :
          LET new == NewJobs(r, todo \o done) IN
          /\ jobs' = [j \in DOMAIN jobs \cup DOMAIN new |->
                         IF j \in DOMAIN new THEN new[j] ELSE jobs[j]]
          /\ queues' = [queues EXCEPT ![r.prio] = @ \o TasksFor(r, todo)]
          /\ Proceed(c, [kind |-> "record", list |-> RecordsFor(r, todo \o done)])
    BY DEF StartNew
  <1> DEFINE order == todo \o done
             new == NewJobs(r, order)
  <1>3. /\ nextId' = nextId + UsedIds(r)
        /\ stopped' = stopped \cup PreemptFor(r.prio)
        /\ UNCHANGED <<mode, bootFailed, paused, activeBy, active, workerVars, storeVars>>
    BY DEF StartNew
  <1>4. /\ todo \in Seq(Games) /\ order \in Seq(Games) /\ UsedIds(r) = Len(order)
        /\ Len(order) \in Nat /\ Len(todo) \in Nat
        /\ \A i \in 1 .. Len(order) : order[i] \in Games
        /\ nextId \in Nat \ {0}
    <2>1. /\ todo \in Seq(Games) /\ order \in Seq(Games) /\ UsedIds(r) = Len(order)
      BY <1>1, <1>2, NewOrder
    <2>2. Len(order) \in Nat /\ \A i \in 1 .. Len(order) : order[i] \in Games
      <3> HIDE DEF order
      <3> QED  BY <2>1
    <2> QED
      BY <2>1, <2>2 DEF TypeOK, JobsTypeOK
  <1> HIDE DEF r, order
  <1>5. JobsTypeOK'
    <2>1. /\ DOMAIN new = nextId .. nextId + Len(order) - 1
          /\ \A j \in DOMAIN new : new[j] \in Jobs
      <3>1. \A j \in nextId .. nextId + Len(order) - 1 : j - nextId + 1 \in 1 .. Len(order)
        BY <1>4
      <3> QED
        BY <1>1, <1>4, <3>1 DEF NewJobs, Jobs
    <2>2. jobs' = [j \in DOMAIN jobs \cup DOMAIN new |->
                      IF j \in DOMAIN new THEN new[j] ELSE jobs[j]]
      BY <1>2 DEF order
    <2> HIDE DEF new
    <2>3. DOMAIN jobs' \subseteq 1 .. nextId' - 1
      <3>1. DOMAIN jobs' = DOMAIN jobs \cup (nextId .. nextId + Len(order) - 1)
        BY <2>1, <2>2
      <3>2. DOMAIN jobs \subseteq 1 .. nextId - 1 /\ nextId' = nextId + Len(order)
        BY <1>3, <1>4 DEF TypeOK, JobsTypeOK
      <3> QED
        BY <1>4, <3>1, <3>2
    <2>4. \A j \in DOMAIN jobs' : jobs'[j] \in Jobs
      BY <2>1, <2>2 DEF TypeOK, JobsTypeOK
    <2> QED
      BY <1>3, <1>4, <2>3, <2>4 DEF JobsTypeOK
  <1>6. QueuesTypeOK'
    <2>1. TasksFor(r, todo) \in Seq(Tasks)
      <3>1. \A i \in 1 .. Len(todo) :
               NewTask(nextId + i - 1, todo[i] \in r.shallow, r.prio) \in Tasks
        <4>1. SUFFICES ASSUME NEW i \in 1 .. Len(todo)
              PROVE  NewTask(nextId + i - 1, todo[i] \in r.shallow, r.prio) \in Tasks
          OBVIOUS
        <4>2. nextId + i - 1 \in Nat
          BY <1>4
        <4>3. (todo[i] \in r.shallow) \in BOOLEAN
          OBVIOUS
        <4> QED
          BY <1>1, <4>2, <4>3, NewTaskType
      <3>2. DOMAIN todo = 1 .. Len(todo)
        BY <1>4
      <3> QED
        BY <1>4, <3>1, <3>2 DEF TasksFor
    <2>2. queues[r.prio] \o TasksFor(r, todo) \in Seq(Tasks)
      BY <1>1, <2>1, ConcatProperties DEF TypeOK, QueuesTypeOK
    <2>3. queues' = [queues EXCEPT ![r.prio] = queues[r.prio] \o TasksFor(r, todo)]
      BY <1>2
    <2> QED
      BY <1>1, <1>3, <2>2, <2>3, PointChange DEF TypeOK, QueuesTypeOK
  <1>7. SourceTypeOK'
    BY <1>3, PreemptedSourcesType DEF TypeOK, SourceTypeOK, PreemptFor
  <1>8. request' \in [Clients -> Requests]
    <2>1. RecordsFor(r, order) \in Seq([game : Games, status : Statuses])
      <3>1. DOMAIN order = 1 .. Len(order)
        BY <1>4
      <3> QED
        BY <1>4, <3>1 DEF RecordsFor
    <2>2. Proceed(c, [kind |-> "record", list |-> RecordsFor(r, order)])
      BY <1>2 DEF order
    <2> QED
      BY <2>1, <2>2, RecordRequest, PointChange DEF Proceed, TypeOK
  <1> QED
    BY <1>3, <1>5, <1>6, <1>7, <1>8
       DEF TypeOK, WorkerTypeOK, StoreTypeOK, workerVars, storeVars

LEMMA TypeClient ==
    ASSUME TypeOK, NEW c \in Clients, ClientCalls(c) \/ ClientProceeds(c)
    PROVE  TypeOK'
  <1> USE DEF queueVars, workerVars, storeVars
  <1>0. /\ JobsTypeOK /\ QueuesTypeOK /\ SourceTypeOK /\ WorkerTypeOK /\ StoreTypeOK
        /\ request[c] \in Requests /\ NoRequest \in Requests /\ request \in [Clients -> Requests]
    BY DEF TypeOK, Requests
  <1>1. CASE CallStart(c) \/ CallBatch(c)
    <2>1. PICK games \in SUBSET Games, p \in Priorities : ReadGames(c, games, p)
      BY <1>1 DEF CallStart, CallBatch
    <2>2. [kind |-> "start", games |-> games, prio |-> p,
           shallow |-> games \cap shallow, complete |-> games \cap analyzed] \in Requests
      BY DEF Requests
    <2>3. request' \in [Clients -> Requests]
      BY <1>0, <2>1, <2>2, PointChange DEF ReadGames, Proceed
    <2> QED
      BY <1>0, <2>1, <2>3 DEF ReadGames, TypeOK, JobsTypeOK, QueuesTypeOK, SourceTypeOK,
                              WorkerTypeOK, StoreTypeOK
  <1>2. CASE StartNew(c)
    BY <1>2, TypeStartNew
  <1>3. CASE StartExisting(c) \/ RejectExisting(c)
    <2>1. PICK j \in DOMAIN jobs :
             Promote(j) /\ stopped' \subseteq stopped \cup PromotedSources(j) \cup PreemptedSources
      BY <1>3 DEF StartExisting, RejectExisting
    <2>2. /\ Proceed(c, NoRequest)
          /\ UNCHANGED <<mode, bootFailed, paused, nextId, activeBy, active, workerVars, storeVars>>
      BY <1>3 DEF StartExisting, RejectExisting
    <2>3. JobsTypeOK' /\ QueuesTypeOK' /\ PromotedSources(j) \subseteq Sources
      BY <2>1, <2>2, TypePromote
    <2>4. SourceTypeOK'
      BY <1>0, <2>1, <2>2, <2>3, PreemptedSourcesType DEF SourceTypeOK
    <2>5. request' \in [Clients -> Requests]
      BY <1>0, <2>2, PointChange DEF Proceed
    <2> QED
      BY <1>0, <2>2, <2>3, <2>4, <2>5 DEF TypeOK, WorkerTypeOK, StoreTypeOK
  <1>4. CASE RejectNew(c)
    <2>1. request[c].games \subseteq Games
      BY <1>0, <1>4, RequestKinds DEF RejectNew, Starting
    <2>2. UsedIds(request[c]) \in Nat
      BY <2>1, FS_Subset, FS_CardinalityType DEF UsedIds, NewGames, ConstantsOK
    <2>3. JobsTypeOK'
      BY <1>0, <1>4, <2>2 DEF RejectNew, JobsTypeOK
    <2>4. request' \in [Clients -> Requests]
      BY <1>0, <1>4, PointChange DEF RejectNew, Proceed
    <2> QED
      BY <1>0, <1>4, <2>3, <2>4 DEF RejectNew, TypeOK, QueuesTypeOK, SourceTypeOK,
                                    WorkerTypeOK, StoreTypeOK
  <1>5. CASE RecordNext(c)
    <2>1. PICK l : l = request[c].list
      OBVIOUS
    <2>2. /\ l \in Seq([game : Games, status : Statuses]) /\ l # <<>>
          /\ request[c] = [kind |-> "record", list |-> l]
      BY <1>0, <1>5, <2>1, RequestKinds DEF RecordNext, Recorded
    <2>3. Head(l) \in [game : Games, status : Statuses]
          /\ Tail(l) \in Seq([game : Games, status : Statuses])
      BY <2>2, HeadTailType
    <2>4. StoreTypeOK'
      BY <1>0, <1>5, <2>1, <2>3 DEF RecordNext, StoreTypeOK
    <2>5. [kind |-> "record", list |-> Tail(l)] \in Requests
      BY <2>3, RecordRequest
    <2>6. request' \in [Clients -> Requests]
      BY <1>0, <1>5, <2>1, <2>5, PointChange DEF RecordNext, Proceed
    <2> QED
      BY <1>0, <1>5, <2>4, <2>6 DEF RecordNext, TypeOK, JobsTypeOK, QueuesTypeOK,
                                    SourceTypeOK, WorkerTypeOK
  <1>6. CASE Return(c)
    <2>1. request' \in [Clients -> Requests]
      BY <1>0, <1>6, PointChange DEF Return, Proceed
    <2> QED
      BY <1>0, <1>6, <2>1 DEF Return, TypeOK, JobsTypeOK, QueuesTypeOK, SourceTypeOK,
                              WorkerTypeOK, StoreTypeOK
  <1>7. CASE Cancel(c)
    <2>1. PICK j \in DOMAIN jobs :
             /\ jobs' = [jobs EXCEPT ![j].stop = TRUE, ![j].status = CancelStatus(j)]
             /\ stopped' = stopped \cup {active[k].src : k \in {j} \cap DOMAIN active}
             /\ Proceed(c, [kind |-> "record",
                            list |-> <<[game |-> jobs[j].game, status |-> CancelStatus(j)]>>])
      BY <1>7 DEF Cancel
    <2>2. UNCHANGED <<mode, bootFailed, paused, nextId, queues, activeBy, active, workerVars,
                      storeVars>>
      BY <1>7 DEF Cancel
    <2>3. CancelStatus(j) \in Statuses
      BY DEF CancelStatus
    <2>4. JobsTypeOK'
      <3>1. PICK s \in Statuses : s = CancelStatus(j)
        BY <2>3
      <3>2. jobs' = [jobs EXCEPT ![j] = [@ EXCEPT !.stop = TRUE, !.status = s]]
        BY <2>1, <3>1
      <3>3. \A k \in DOMAIN jobs : jobs[k] \in Jobs
        BY <1>0 DEF JobsTypeOK
      <3>4. [jobs[j] EXCEPT !.stop = TRUE, !.status = s] \in Jobs
        BY <3>3 DEF Jobs
      <3> QED
        BY <1>0, <2>2, <3>2, <3>3, <3>4 DEF JobsTypeOK
    <2>5. SourceTypeOK'
      BY <1>0, <2>1, <2>2 DEF SourceTypeOK
    <2>6. <<[game |-> jobs[j].game, status |-> CancelStatus(j)]>>
             \in Seq([game : Games, status : Statuses])
      BY <1>0, <2>3 DEF JobsTypeOK, Jobs
    <2>7. request' \in [Clients -> Requests]
      BY <1>0, <2>1, <2>6, RecordRequest, PointChange DEF Proceed
    <2> QED
      BY <1>0, <2>2, <2>4, <2>5, <2>7 DEF TypeOK, QueuesTypeOK, WorkerTypeOK, StoreTypeOK
  <1>8. CASE SetPaused(c)
    <2>1. PICK value \in BOOLEAN :
             paused' = value /\ Proceed(c, [kind |-> "storePause", value |-> value])
      BY <1>8 DEF SetPaused
    <2>2. [kind |-> "storePause", value |-> value] \in Requests
      BY DEF Requests
    <2>3. request' \in [Clients -> Requests]
      BY <1>0, <2>1, <2>2, PointChange DEF Proceed
    <2> QED
      BY <1>0, <1>8, <2>1, <2>3 DEF SetPaused, TypeOK, JobsTypeOK, QueuesTypeOK, SourceTypeOK,
                                    WorkerTypeOK, StoreTypeOK
  <1>9. CASE StorePaused(c)
    <2>1. request[c].value \in BOOLEAN
      BY <1>0, <1>9, RequestKinds DEF StorePaused
    <2>2. request' \in [Clients -> Requests]
      BY <1>0, <1>9, PointChange DEF StorePaused, Proceed
    <2> QED
      BY <1>0, <1>9, <2>1, <2>2 DEF StorePaused, TypeOK, JobsTypeOK, QueuesTypeOK,
                                    SourceTypeOK, WorkerTypeOK, StoreTypeOK
  <1> QED
    BY <1>1, <1>2, <1>3, <1>4, <1>5, <1>6, <1>7, <1>8, <1>9 DEF ClientCalls, ClientProceeds

LEMMA TypeProcess == ASSUME TypeOK, Process PROVE TypeOK'
  <1> USE DEF queueVars, workerVars, storeVars
  <1>0. /\ JobsTypeOK /\ QueuesTypeOK /\ SourceTypeOK /\ WorkerTypeOK /\ StoreTypeOK
        /\ NoTask \in Tasks
    BY NewTaskType DEF TypeOK, NoTask
  <1>1. CASE Die
    <2>1. DOMAIN jobs' = {} /\ DOMAIN active' = {}
      BY <1>1 DEF Die
    <2>2. JobsTypeOK' /\ SourceTypeOK'
      BY <1>1, <2>1 DEF Die, JobsTypeOK, SourceTypeOK
    <2>3. QueuesTypeOK' /\ WorkerTypeOK'
      BY <1>0, <1>1 DEF Die, QueuesTypeOK, WorkerTypeOK, WorkerAt
    <2>4. request' \in [Clients -> Requests]
      BY <1>1 DEF Die, Requests
    <2> QED
      BY <1>0, <1>1, <2>2, <2>3, <2>4 DEF Die, TypeOK, StoreTypeOK
  <1>2. CASE Shutdown
    <2>1. JobsTypeOK'
      <3>1. \A j \in DOMAIN jobs :
               [jobs[j] EXCEPT !.stop = @ \/ jobs[j].status \in Undecided] \in Jobs
        <4>1. SUFFICES ASSUME NEW j \in DOMAIN jobs
              PROVE  [jobs[j] EXCEPT !.stop = @ \/ jobs[j].status \in Undecided] \in Jobs
          OBVIOUS
        <4>2. (jobs[j].stop \/ jobs[j].status \in Undecided) \in BOOLEAN
          OBVIOUS
        <4>3. jobs[j] \in Jobs
          BY <1>0 DEF JobsTypeOK
        <4> QED
          BY <4>2, <4>3 DEF Jobs
      <3> QED
        BY <1>0, <1>2, <3>1 DEF Shutdown, JobsTypeOK
    <2>2. SourceTypeOK'
      BY <1>0, <1>2 DEF Shutdown, SourceTypeOK
    <2> QED
      BY <1>0, <1>2, <2>1, <2>2 DEF Shutdown, TypeOK, QueuesTypeOK, WorkerTypeOK, StoreTypeOK
  <1>3. CASE Boot
    <2>1. PICK order \in SetToSeqs(Recoverable) :
         /\ jobs' = [j \in 1 .. Len(order) |->
                        [game |-> order[j], status |-> "queued", stop |-> FALSE,
                         prio |-> Historical]]
         /\ queues' = [queues EXCEPT ![Historical] =
                        [j \in 1 .. Len(order) |->
                            NewTask(j, order[j] \in shallow, Historical)]]
      BY <1>3 DEF Boot
    <2>2. IsFiniteSet(Recoverable) /\ Recoverable \subseteq Games
      BY FS_Subset DEF Recoverable, ConstantsOK
    <2>3. /\ Len(order) = Cardinality(Recoverable) /\ Cardinality(Recoverable) \in Nat
          /\ \A i \in 1 .. Len(order) : order[i] \in Games
      BY <2>1, <2>2, SetToSeqsFacts
    <2>4. JobsTypeOK'
      BY <1>3, <2>1, <2>3 DEF Boot, JobsTypeOK, Jobs
    <2>5. [j \in 1 .. Len(order) |-> NewTask(j, order[j] \in shallow, Historical)] \in Seq(Tasks)
      <3>1. \A j \in 1 .. Len(order) : NewTask(j, order[j] \in shallow, Historical) \in Tasks
        <4>1. SUFFICES ASSUME NEW j \in 1 .. Len(order)
              PROVE  NewTask(j, order[j] \in shallow, Historical) \in Tasks
          OBVIOUS
        <4>2. (order[j] \in shallow) \in BOOLEAN /\ j \in Nat
          BY <2>3
        <4> QED
          BY <4>2, NewTaskType
      <3> QED
        BY <2>3, <3>1
    <2>6. QueuesTypeOK'
      BY <1>0, <1>3, <2>1, <2>5, PointChange DEF Boot, QueuesTypeOK
    <2>7. StoreTypeOK'
      BY <1>0, <1>3 DEF Boot, StoreTypeOK
    <2>8. SourceTypeOK' /\ WorkerTypeOK'
      BY <1>0, <1>3 DEF Boot, SourceTypeOK, WorkerTypeOK
    <2>9. mode' = "up" /\ bootFailed' = FALSE /\ paused' \in BOOLEAN /\ request' = request
      BY <1>0, <1>3 DEF Boot, StoreTypeOK
    <2> QED
      BY <2>4, <2>6, <2>7, <2>8, <2>9 DEF TypeOK
  <1>4. CASE BootFails
    <2>1. StoreTypeOK'
      BY <1>0, <1>4 DEF BootFails, StoreTypeOK, Statuses, Undecided
    <2> QED
      BY <1>0, <1>4, <2>1 DEF BootFails, TypeOK, JobsTypeOK, QueuesTypeOK, SourceTypeOK,
         WorkerTypeOK
  <1> QED
    BY <1>1, <1>2, <1>3, <1>4 DEF Process, Crash, RecordKills, Joined

\* What Take does, with its choices named: worker w takes task t of queue p as u.
TakesTask(w, p, t, u) ==
    /\ mode = "up" /\ wpc[w] = "idle"
    /\ queues[p] # <<>> /\ t = Head(queues[p])
    /\ t.job \in DOMAIN jobs /\ jobs[t.job].status # "cancelled"
    /\ u.job = t.job /\ u.prio = t.prio
    /\ task' = [task EXCEPT ![w] = u]
    /\ queues' = [queues EXCEPT ![p] = Tail(@)]
    /\ activeBy' = [activeBy EXCEPT ![p] = @ + 1]
    /\ jobs' = [jobs EXCEPT ![t.job].status = "running"]
    /\ wpc' = [wpc EXCEPT ![w] = "announce"]
    /\ mode' = mode /\ nextId' = nextId /\ outcome' = outcome

LEMMA TakeEffect ==
    ASSUME TypeOK, NEW w \in Workers, Take(w)
    PROVE  \E p \in Priorities, t \in Tasks, u \in Tasks :
              Servable(p) /\ TakesTask(w, p, t, u)
  <1> DEFINE p == BestQueue
             t == Head(queues[p])
  <1>1. /\ p \in Priorities /\ queues[p] # <<>> /\ t \in Tasks
        /\ mode = "up" /\ wpc[w] = "idle"
        /\ t.job \in DOMAIN jobs /\ jobs[t.job].status # "cancelled"
        /\ Servable(p)
    BY DEF Take, CanTake, Servable, TypeOK, QueuesTypeOK, Wanted
  <1>2. PICK s \in IF t.src = Unshared THEN FreshSources ELSE {t.src} :
           task' = [task EXCEPT ![w] = [t EXCEPT !.src = s]]
    BY DEF Take
  <1>3. s \in Sources
    BY <1>1, <1>2 DEF FreshSources, Tasks
  <1> HIDE DEF p, t
  <1>4. PICK u : u = [t EXCEPT !.src = s]
    OBVIOUS
  <1>4a. u \in Tasks /\ u.job = t.job /\ u.prio = t.prio
    BY <1>1, <1>3, <1>4 DEF Tasks
  <1>5. /\ queues' = [queues EXCEPT ![p] = Tail(@)]
        /\ activeBy' = [activeBy EXCEPT ![p] = @ + 1]
        /\ jobs' = [jobs EXCEPT ![t.job].status = "running"]
        /\ wpc' = [wpc EXCEPT ![w] = "announce"]
        /\ mode' = mode /\ nextId' = nextId /\ outcome' = outcome
    BY DEF Take, Goto, p, t
  <1>6. task' = [task EXCEPT ![w] = u]
    BY <1>2, <1>4
  <1>7. TakesTask(w, p, t, u)
    BY <1>1, <1>4a, <1>5, <1>6 DEF t, TakesTask, Goto
  <1> QED
    BY <1>1, <1>4a, <1>7

\* A step of one worker leaves the others alone, and a job keeps its game.
LEMMA WorkerFrame ==
    ASSUME TypeInv, NEW w \in Workers, WorkerStep(w)
    PROVE  /\ mode' = mode
           /\ mode = "down" => wpc[w] # "idle"
           /\ \A v \in Workers \ {w} :
                 wpc'[v] = wpc[v] /\ task'[v] = task[v] /\ outcome'[v] = outcome[v]
           /\ DOMAIN jobs' = DOMAIN jobs
           /\ \A j \in DOMAIN jobs : jobs'[j].game = jobs[j].game
           /\ wpc'[w] # "idle" => task'[w].job \in DOMAIN jobs
           /\ wpc'[w] = "record" => outcome'[w] \in Statuses
  <1> USE DEF queueVars, workerVars, storeVars, Goto
  <1>0. /\ wpc \in [Workers -> WorkerAt] /\ task \in [Workers -> Tasks]
        /\ DOMAIN outcome = Workers
        /\ wpc[w] # "idle" => task[w].job \in DOMAIN jobs
        /\ \A j \in DOMAIN jobs : jobs[j] \in Jobs
    BY DEF TypeInv, TypeOK, WorkerTypeOK, KnowsJob, JobsTypeOK
  <1>1. CASE Take(w)
    <2>0. TypeOK
      BY DEF TypeInv
    <2>1. PICK p \in Priorities, t \in Tasks, u \in Tasks : TakesTask(w, p, t, u)
      BY <1>1, <2>0, TakeEffect
    <2> QED
      BY <1>0, <2>1 DEF Jobs, TakesTask
  <1>2. CASE Discard(w)
    BY <1>0, <1>2 DEF Discard, CanTake
  <1>3. CASE Announce(w) \/ Look(w)
    BY <1>0, <1>3 DEF Announce, Look
  <1>4. CASE Found(w) \/ CommitDeep(w) \/ CommitShallow(w)
    <2>1. PICK s \in {"queued", "complete"} : jobs' = [jobs EXCEPT ![task[w].job].status = s]
      BY <1>4 DEF Found, CommitDeep, CommitShallow
    <2>2. DOMAIN jobs' = DOMAIN jobs /\ \A j \in DOMAIN jobs : jobs'[j].game = jobs[j].game
      BY <1>0, <2>1 DEF Jobs
    <2> QED
      BY <1>0, <1>4, <2>2 DEF Found, CommitDeep, CommitShallow
  <1>5. CASE Analyze(w) \/ SaveThrows(w)
    BY <1>0, <1>5 DEF Analyze, SaveThrows, Throws
  <1>6. CASE AnalyzeThrows(w) \/ RecordRequeuedThrows(w)
    BY <1>0, <1>6 DEF AnalyzeThrows, RecordRequeuedThrows, Throws
  <1>7. CASE RecordRequeued(w)
    BY <1>0, <1>7 DEF RecordRequeued
  <1>8. CASE Catch(w)
    <2>1. PICK s : s = CatchStatus(w)
      OBVIOUS
    <2>2. jobs' = [jobs EXCEPT ![task[w].job].status = s]
      BY <1>8, <2>1 DEF Catch
    <2>3. DOMAIN jobs' = DOMAIN jobs /\ \A j \in DOMAIN jobs : jobs'[j].game = jobs[j].game
      BY <1>0, <2>2 DEF Jobs
    <2> QED
      BY <1>0, <1>8, <2>3 DEF Catch
  <1>9. CASE Finish(w)
    BY <1>0, <1>9 DEF Finish
  <1>10. CASE Snapshot(w)
    BY <1>0, <1>10 DEF Snapshot, Jobs
  <1>11. CASE Record(w)
    BY <1>0, <1>11 DEF Record
  <1> QED
    BY <1>1, <1>2, <1>3, <1>4, <1>5, <1>6, <1>7, <1>8, <1>9, <1>10, <1>11 DEF WorkerStep

\* A step of a client changes no worker and removes no job.
LEMMA ClientFrame ==
    ASSUME TypeInv, NEW c \in Clients, ClientCalls(c) \/ ClientProceeds(c)
    PROVE  mode = "up" /\ UNCHANGED <<mode, wpc, task, outcome>>
           /\ DOMAIN jobs \subseteq DOMAIN jobs'
  <1> USE DEF queueVars, workerVars
  <1>1. CASE CallStart(c) \/ CallBatch(c)
    BY <1>1 DEF CallStart, CallBatch, ReadGames, Idle
  <1>2. CASE StartNew(c)
    BY <1>2 DEF StartNew, Starting
  <1>3. CASE StartExisting(c) \/ RejectExisting(c)
    BY <1>3 DEF StartExisting, RejectExisting, Existing, Starting, Promote
  <1>4. CASE RejectNew(c)
    BY <1>4 DEF RejectNew, Starting
  <1>5. CASE RecordNext(c) \/ Return(c)
    BY <1>5 DEF RecordNext, Return, Recorded
  <1>6. CASE Cancel(c)
    BY <1>6 DEF Cancel, Idle
  <1>7. CASE SetPaused(c) \/ StorePaused(c)
    BY <1>7 DEF SetPaused, StorePaused, Idle
  <1> QED
    BY <1>1, <1>2, <1>3, <1>4, <1>5, <1>6, <1>7 DEF ClientCalls, ClientProceeds

LEMMA TypeInvNext == TypeInv /\ [Next]_vars => TypeInv'
  <1> SUFFICES ASSUME TypeInv, [Next]_vars PROVE TypeInv'
    OBVIOUS
  <1> USE DEF TypeInv
  <1>1. ASSUME NEW w \in Workers, WorkerStep(w) PROVE TypeInv'
    <2>1. TypeOK'
      BY <1>1, TypeWorker
    <2>2. /\ mode' = mode /\ (mode = "down" => wpc[w] # "idle")
          /\ \A v \in Workers \ {w} :
                wpc'[v] = wpc[v] /\ task'[v] = task[v] /\ outcome'[v] = outcome[v]
          /\ DOMAIN jobs' = DOMAIN jobs
          /\ wpc'[w] # "idle" => task'[w].job \in DOMAIN jobs
          /\ wpc'[w] = "record" => outcome'[w] \in Statuses
      BY <1>1, WorkerFrame
    <2>3. KnowsJob'
      BY <2>2 DEF KnowsJob
    <2>4. RecordsStatus'
      BY <2>2 DEF RecordsStatus
    <2>5. DownIsEmpty'
      BY <2>2 DEF DownIsEmpty
    <2> QED
      BY <2>1, <2>3, <2>4, <2>5
  <1>2. ASSUME NEW c \in Clients, ClientCalls(c) \/ ClientProceeds(c) PROVE TypeInv'
    BY <1>2, TypeClient, ClientFrame DEF KnowsJob, RecordsStatus, DownIsEmpty
  <1>3. CASE Process
    <2>1. TypeOK'
      BY <1>3, TypeProcess
    <2>2. CASE Die
      BY <2>1, <2>2 DEF Die, KnowsJob, RecordsStatus, DownIsEmpty
    <2>3. CASE Shutdown
      BY <2>1, <2>3 DEF Shutdown, KnowsJob, RecordsStatus, DownIsEmpty, workerVars
    <2>4. CASE Boot
      BY <2>1, <2>4 DEF Boot, KnowsJob, RecordsStatus, DownIsEmpty, workerVars
    <2>5. CASE BootFails
      BY <2>1, <2>5 DEF BootFails, KnowsJob, RecordsStatus, DownIsEmpty, workerVars, queueVars
    <2> QED
      BY <1>3, <2>2, <2>3, <2>4, <2>5 DEF Process, Crash, RecordKills, Joined
  <1>4. CASE UNCHANGED vars
    BY <1>4 DEF vars, queueVars, workerVars, storeVars, TypeOK, JobsTypeOK, QueuesTypeOK,
                SourceTypeOK, WorkerTypeOK, StoreTypeOK, KnowsJob, RecordsStatus, DownIsEmpty
  <1> QED
    BY <1>1, <1>2, <1>3, <1>4 DEF Next

LEMMA TypeInvInit == Init => TypeInv
BY TypeInit DEF Init, TypeInv, KnowsJob, RecordsStatus, DownIsEmpty

\* Every variable keeps the type its declaration in job_manager.hpp gives it, in every
\* process life and across crashes, shutdowns and restarts.
THEOREM TypeCorrect == Spec => []TypeOK
  <1>1. TypeInv => TypeOK
    BY DEF TypeInv
  <1> QED
    BY <1>1, TypeInvInit, TypeInvNext, PTL DEF Spec

-----------------------------------------------------------------------------
(* Exclusion.  Two workers analyse the same game only if they execute the   *)
(* same job or two live jobs of that game, so the proof follows the         *)
(* executions, the queued tasks and the live jobs together.                 *)

\* Job j has a task in the queues q.
InQueue(q, j) == \E p \in Priorities : \E i \in DOMAIN q[p] : q[p][i].job = j

\* No job has two tasks in the queues q.
OneTaskIn(q) ==
    \A p, r \in Priorities : \A i \in DOMAIN q[p], k \in DOMAIN q[r] :
        q[p][i].job = q[r][k].job => p = r /\ i = k

Queues == [Priorities -> Seq(Tasks)]

-----------------------------------------------------------------------------
(* What the changes of the queues do to the jobs in them.                   *)

\* Taking the first task of a queue removes its job from the queues.
LEMMA TailOnce ==
    ASSUME NEW q \in Queues, OneTaskIn(q), NEW p \in Priorities, q[p] # <<>>,
           NEW r, r[p] = Tail(q[p]), \A x \in Priorities \ {p} : r[x] = q[x]
    PROVE  /\ OneTaskIn(r) /\ ~InQueue(r, Head(q[p]).job) /\ InQueue(q, Head(q[p]).job)
           /\ \A j : InQueue(r, j) => InQueue(q, j)
  <1> DEFINE old(x, i) == IF x = p THEN i + 1 ELSE i
  <1>1. q[p] \in Seq(Tasks) /\ \A x \in Priorities : q[x] \in Seq(Tasks)
    BY DEF Queues
  <1>2. ASSUME NEW x \in Priorities, NEW i \in DOMAIN r[x]
        PROVE  /\ old(x, i) \in DOMAIN q[x] /\ r[x][i] = q[x][old(x, i)]
               /\ i \in Nat /\ (x = p => old(x, i) # 1)
    <2>1. CASE x = p
      <3>1. PICK b : b = Tail(q[p]) /\ r[x] = b
        BY <2>1
      <3>2. /\ Len(b) = Len(q[p]) - 1 /\ b \in Seq(Tasks)
            /\ \A k \in 1 .. Len(b) : b[k] = q[p][k + 1]
        BY <1>1, <3>1, HeadTailProperties
      <3>3. i \in 1 .. Len(b) /\ Len(q[p]) \in Nat
        <4>1. i \in DOMAIN b
          BY <3>1
        <4>2. DOMAIN b = 1 .. Len(b)
          BY <3>2
        <4> QED
          BY <1>1, <4>1, <4>2
      <3>4. i + 1 \in 1 .. Len(q[p]) /\ i + 1 # 1 /\ i \in Nat
        BY <3>2, <3>3
      <3>5. i + 1 \in DOMAIN q[p]
        BY <1>1, <3>4
      <3> QED
        BY <2>1, <3>1, <3>2, <3>3, <3>4, <3>5
    <2>2. CASE x # p
      <3>1. r[x] = q[x] /\ r[x] \in Seq(Tasks)
        BY <1>1, <2>2
      <3> QED
        BY <2>2, <3>1
    <2> QED
      BY <2>1, <2>2
  <1>3. /\ 1 \in DOMAIN q[p] /\ Head(q[p]) = q[p][1]
    BY <1>1
  <1>4. OneTaskIn(r)
    <2> SUFFICES ASSUME NEW x \in Priorities, NEW y \in Priorities,
                        NEW i \in DOMAIN r[x], NEW k \in DOMAIN r[y],
                        r[x][i].job = r[y][k].job
                 PROVE  x = y /\ i = k
      BY DEF OneTaskIn
    <2>1. /\ old(x, i) \in DOMAIN q[x] /\ r[x][i] = q[x][old(x, i)] /\ i \in Nat
          /\ old(y, k) \in DOMAIN q[y] /\ r[y][k] = q[y][old(y, k)] /\ k \in Nat
      BY <1>2
    <2>2. x = y /\ old(x, i) = old(y, k)
      <3> HIDE DEF old
      <3> QED  BY <2>1 DEF OneTaskIn
    <2> QED
      BY <2>1, <2>2
  <1>5. ASSUME NEW j, InQueue(r, j) PROVE InQueue(q, j) /\ j # Head(q[p]).job
    <2>1. PICK x \in Priorities : \E i \in DOMAIN r[x] : r[x][i].job = j
      BY <1>5 DEF InQueue
    <2>2. PICK i \in DOMAIN r[x] : r[x][i].job = j
      BY <2>1
    <2>3. /\ old(x, i) \in DOMAIN q[x] /\ q[x][old(x, i)].job = j
          /\ (x = p => old(x, i) # 1)
      <3>1. /\ old(x, i) \in DOMAIN q[x] /\ r[x][i] = q[x][old(x, i)]
            /\ (x = p => old(x, i) # 1)
        BY <1>2, <2>2
      <3> QED
        BY <2>2, <3>1
    <2>4. InQueue(q, j)
      BY <2>3 DEF InQueue
    <2>5. j # q[p][1].job
      <3> HIDE DEF old
      <3> QED  BY <1>3, <2>3 DEF OneTaskIn
    <2> QED
      BY <1>3, <2>4, <2>5
  <1> QED
    BY <1>3, <1>4, <1>5 DEF InQueue

\* Adding a task whose job has none keeps the jobs apart.
LEMMA AppendOnce ==
    ASSUME NEW q \in Queues, OneTaskIn(q), NEW t \in Tasks, ~InQueue(q, t.job),
           NEW r, r[t.prio] = Append(q[t.prio], t),
           \A x \in Priorities \ {t.prio} : r[x] = q[x]
    PROVE  /\ OneTaskIn(r)
           /\ \A j : InQueue(r, j) => InQueue(q, j) \/ j = t.job
  <1>1. t.prio \in Priorities /\ \A x \in Priorities : q[x] \in Seq(Tasks)
    BY DEF Tasks, Queues
  <1>2. ASSUME NEW x \in Priorities, NEW i \in DOMAIN r[x]
        PROVE  \/ i \in DOMAIN q[x] /\ r[x][i] = q[x][i]
               \/ x = t.prio /\ i = Len(q[x]) + 1 /\ r[x][i] = t
    <2>1. CASE x = t.prio
      <3>1. r[x] = Append(q[x], t)
        BY <1>1, <2>1 DEF Queues
      <3>2. /\ Append(q[x], t) \in Seq(Tasks) /\ Len(Append(q[x], t)) = Len(q[x]) + 1
            /\ \A k \in 1 .. Len(q[x]) : Append(q[x], t)[k] = q[x][k]
            /\ Append(q[x], t)[Len(q[x]) + 1] = t
            /\ Len(q[x]) \in Nat
        BY <1>1, AppendProperties
      <3>3. i \in 1 .. Len(q[x]) + 1
        BY <3>1, <3>2
      <3>4. i \in 1 .. Len(q[x]) \/ i = Len(q[x]) + 1
        BY <3>2, <3>3
      <3> QED
        BY <1>1, <2>1, <3>1, <3>2, <3>4
    <2>2. CASE x # t.prio
      BY <1>1, <2>2 DEF Queues
    <2> QED
      BY <2>1, <2>2
  <1>3. OneTaskIn(r)
    <2> SUFFICES ASSUME NEW x \in Priorities, NEW y \in Priorities,
                        NEW i \in DOMAIN r[x], NEW k \in DOMAIN r[y],
                        r[x][i].job = r[y][k].job
                 PROVE  x = y /\ i = k
      BY DEF OneTaskIn
    <2>1. /\ \/ i \in DOMAIN q[x] /\ r[x][i] = q[x][i]
             \/ x = t.prio /\ i = Len(q[x]) + 1 /\ r[x][i] = t
          /\ \/ k \in DOMAIN q[y] /\ r[y][k] = q[y][k]
             \/ y = t.prio /\ k = Len(q[y]) + 1 /\ r[y][k] = t
      BY <1>2
    <2> QED
      BY <2>1 DEF OneTaskIn, InQueue
  <1>4. ASSUME NEW j, InQueue(r, j) PROVE InQueue(q, j) \/ j = t.job
    BY <1>2, <1>4 DEF InQueue
  <1> QED
    BY <1>3, <1>4

\* Moving a task to the interactive queue keeps the jobs apart.
LEMMA MoveOnce ==
    ASSUME NEW q \in Queues, OneTaskIn(q), NEW m \in DOMAIN q[Historical],
           NEW u \in Tasks, u.job = q[Historical][m].job,
           NEW r, r[Historical] = RemoveAt(q[Historical], m),
           r[Interactive] = Append(q[Interactive], u)
    PROVE  /\ OneTaskIn(r)
           /\ \A j : InQueue(r, j) => InQueue(q, j)
  <1> DEFINE h == q[Historical]
             a == q[Interactive]
  <1>1. /\ h \in Seq(Tasks) /\ a \in Seq(Tasks) /\ Len(h) \in Nat /\ Len(a) \in Nat
        /\ r[Historical] = RemoveAt(h, m) /\ r[Interactive] = Append(a, u)
        /\ m \in 1 .. Len(h) /\ DOMAIN h = 1 .. Len(h) /\ DOMAIN a = 1 .. Len(a)
    BY DEF Queues
  <1> HIDE DEF h, a
  <1>2. ASSUME NEW i \in DOMAIN r[Historical]
        PROVE  LET k == IF i < m THEN i ELSE i + 1
               IN  /\ i \in Nat /\ k \in DOMAIN h /\ k # m /\ r[Historical][i] = h[k]
    <2>1. /\ RemoveAt(h, m) \in Seq(Tasks) /\ Len(RemoveAt(h, m)) = Len(h) - 1
          /\ \A k \in 1 .. Len(h) - 1 : RemoveAt(h, m)[k] = IF k < m THEN h[k] ELSE h[k + 1]
      BY <1>1, RemoveAtFacts
    <2>2. i \in 1 .. Len(h) - 1
      BY <1>1, <2>1
    <2>3. CASE i < m
      BY <1>1, <2>1, <2>2, <2>3
    <2>4. CASE ~(i < m)
      <3>1. i + 1 \in 1 .. Len(h) /\ i + 1 # m /\ i \in Nat
        BY <1>1, <2>2, <2>4
      <3>2. r[Historical][i] = h[i + 1]
        BY <1>1, <2>1, <2>2, <2>4
      <3> QED
        BY <1>1, <2>4, <3>1, <3>2
    <2> QED
      BY <2>3, <2>4
  <1>3. ASSUME NEW i \in DOMAIN r[Interactive]
        PROVE  \/ i \in DOMAIN a /\ r[Interactive][i] = a[i]
               \/ i = Len(a) + 1 /\ r[Interactive][i] = u
    <2>1. /\ Append(a, u) \in Seq(Tasks) /\ Len(Append(a, u)) = Len(a) + 1
          /\ \A k \in 1 .. Len(a) : Append(a, u)[k] = a[k]
          /\ Append(a, u)[Len(a) + 1] = u
      BY <1>1, AppendProperties
    <2>2. i \in 1 .. Len(a) \/ i = Len(a) + 1
      BY <1>1, <2>1
    <2> QED
      BY <1>1, <2>1, <2>2
  <1>4. \A j : InQueue(r, j) => InQueue(q, j)
    <2> SUFFICES ASSUME NEW j, NEW x \in Priorities, NEW i \in DOMAIN r[x], r[x][i].job = j
                 PROVE  InQueue(q, j)
      BY DEF InQueue
    <2>1. CASE x = Historical
      BY <1>2, <2>1 DEF InQueue, h
    <2>2. CASE x = Interactive
      BY <1>3, <2>2 DEF InQueue, a
    <2> QED
      BY <2>1, <2>2
  <1>5. OneTaskIn(r)
    <2> SUFFICES ASSUME NEW x \in Priorities, NEW y \in Priorities,
                        NEW i \in DOMAIN r[x], NEW k \in DOMAIN r[y],
                        r[x][i].job = r[y][k].job
                 PROVE  x = y /\ i = k
      BY DEF OneTaskIn
    <2>1. \A n, l \in DOMAIN h : h[n].job = h[l].job => n = l
      BY DEF OneTaskIn, h
    <2>2. \A n, l \in DOMAIN a : a[n].job = a[l].job => n = l
      BY DEF OneTaskIn, a
    <2>3. \A n \in DOMAIN a, l \in DOMAIN h : a[n].job # h[l].job
      BY DEF OneTaskIn, a, h
    <2>4. u.job = h[m].job /\ m \in DOMAIN h
      BY DEF h
    <2>5. CASE x = Historical /\ y = Historical
      <3>1. PICK b : b = IF i < m THEN i ELSE i + 1
        OBVIOUS
      <3>2. PICK d : d = IF k < m THEN k ELSE k + 1
        OBVIOUS
      <3>3. /\ i \in Nat /\ b \in DOMAIN h /\ r[x][i] = h[b]
            /\ k \in Nat /\ d \in DOMAIN h /\ r[y][k] = h[d]
        BY <1>2, <2>5, <3>1, <3>2
      <3>4. b = d
        BY <2>1, <3>3
      <3> QED
        BY <1>1, <2>5, <3>1, <3>2, <3>3, <3>4
    <2>6. CASE x = Interactive /\ y = Interactive
      <3>1. /\ \/ i \in DOMAIN a /\ r[x][i] = a[i]
               \/ i = Len(a) + 1 /\ r[x][i] = u
            /\ \/ k \in DOMAIN a /\ r[y][k] = a[k]
               \/ k = Len(a) + 1 /\ r[y][k] = u
        BY <1>3, <2>6
      <3> QED
        BY <2>2, <2>3, <2>4, <2>6, <3>1
    <2>7. ASSUME NEW n \in DOMAIN r[Historical], NEW l \in DOMAIN r[Interactive]
          PROVE  r[Historical][n].job # r[Interactive][l].job
      <3>1. PICK b \in DOMAIN h : b # m /\ r[Historical][n] = h[b]
        BY <1>2
      <3>2. \/ l \in DOMAIN a /\ r[Interactive][l] = a[l]
            \/ r[Interactive][l] = u
        BY <1>3
      <3> QED
        BY <2>1, <2>3, <2>4, <3>1, <3>2
    <2> QED
      BY <2>5, <2>6, <2>7
  <1> QED
    BY <1>4, <1>5

\* Adding tasks of jobs that have none keeps the jobs apart.
JobsOnce(l) == \A i, k \in DOMAIN l : l[i].job = l[k].job => i = k
JobsOf(l) == {l[i].job : i \in DOMAIN l}

LEMMA ConcatOnce ==
    ASSUME NEW q \in Queues, OneTaskIn(q), NEW p \in Priorities, NEW l \in Seq(Tasks),
           \A j \in JobsOf(l) : ~InQueue(q, j), JobsOnce(l),
           NEW r, r[p] = q[p] \o l, \A x \in Priorities \ {p} : r[x] = q[x]
    PROVE  /\ OneTaskIn(r)
           /\ \A j : InQueue(r, j) => InQueue(q, j) \/ j \in JobsOf(l)
  <1> USE DEF JobsOf, JobsOnce
  <1>1. \A x \in Priorities : q[x] \in Seq(Tasks)
    BY DEF Queues
  <1>2. ASSUME NEW x \in Priorities, NEW i \in DOMAIN r[x]
        PROVE  \/ i \in DOMAIN q[x] /\ r[x][i] = q[x][i]
               \/ /\ x = p /\ i - Len(q[p]) \in DOMAIN l /\ r[x][i] = l[i - Len(q[p])]
                  /\ i \in Nat
    <2>1. CASE x = p
      <3>1. PICK s \in Seq(Tasks) : s = q[p]
        BY <1>1
      <3>2. PICK c : c = s \o l /\ r[x] = c
        BY <2>1, <3>1 DEF Queues
      <3>3. /\ c \in Seq(Tasks) /\ Len(c) = Len(s) + Len(l)
            /\ \A k \in 1 .. Len(s) + Len(l) :
                  c[k] = IF k <= Len(s) THEN s[k] ELSE l[k - Len(s)]
            /\ Len(s) \in Nat /\ Len(l) \in Nat
            /\ DOMAIN s = 1 .. Len(s) /\ DOMAIN l = 1 .. Len(l)
        BY <3>2, ConcatProperties
      <3>4. i \in 1 .. Len(s) + Len(l)
        <4>1. i \in DOMAIN c
          BY <3>2
        <4>2. DOMAIN c = 1 .. Len(c)
          BY <3>3
        <4> QED
          BY <3>3, <4>1, <4>2
      <3>5. CASE i <= Len(s)
        BY <2>1, <3>1, <3>2, <3>3, <3>4, <3>5
      <3>6. CASE ~(i <= Len(s))
        <4>1. i - Len(s) \in 1 .. Len(l) /\ i \in Nat
          BY <3>3, <3>4, <3>6
        <4> QED
          BY <2>1, <3>1, <3>2, <3>3, <3>4, <3>6, <4>1
      <3> QED
        BY <3>5, <3>6
    <2>2. CASE x # p
      BY <1>1, <2>2 DEF Queues
    <2> QED
      BY <2>1, <2>2
  <1>3. OneTaskIn(r)
    <2> SUFFICES ASSUME NEW x \in Priorities, NEW y \in Priorities,
                        NEW i \in DOMAIN r[x], NEW k \in DOMAIN r[y],
                        r[x][i].job = r[y][k].job
                 PROVE  x = y /\ i = k
      BY DEF OneTaskIn
    <2>1. PICK n \in Nat : n = Len(q[p])
      BY <1>1, LenProperties
    <2>2. /\ \/ i \in DOMAIN q[x] /\ r[x][i] = q[x][i]
             \/ x = p /\ i - n \in DOMAIN l /\ r[x][i] = l[i - n] /\ i \in Nat
          /\ \/ k \in DOMAIN q[y] /\ r[y][k] = q[y][k]
             \/ y = p /\ k - n \in DOMAIN l /\ r[y][k] = l[k - n] /\ k \in Nat
      BY <1>2, <2>1
    <2>3. CASE i \in DOMAIN q[x] /\ r[x][i] = q[x][i] /\ k \in DOMAIN q[y] /\ r[y][k] = q[y][k]
      BY <2>3 DEF OneTaskIn
    <2>4. CASE /\ x = p /\ i - n \in DOMAIN l /\ r[x][i] = l[i - n] /\ i \in Nat
               /\ y = p /\ k - n \in DOMAIN l /\ r[y][k] = l[k - n] /\ k \in Nat
      <3>1. i - n = k - n
        BY <2>4
      <3> QED
        BY <2>1, <2>4, <3>1
    <2>5. CASE /\ i \in DOMAIN q[x] /\ r[x][i] = q[x][i]
               /\ k - n \in DOMAIN l /\ r[y][k] = l[k - n]
      <3>1. l[k - n].job \in JobsOf(l) /\ InQueue(q, q[x][i].job)
        BY <2>5 DEF InQueue
      <3> HIDE DEF JobsOf
      <3> QED  BY <2>5, <3>1
    <2>6. CASE /\ k \in DOMAIN q[y] /\ r[y][k] = q[y][k]
               /\ i - n \in DOMAIN l /\ r[x][i] = l[i - n]
      <3>1. l[i - n].job \in JobsOf(l) /\ InQueue(q, q[y][k].job)
        BY <2>6 DEF InQueue
      <3> HIDE DEF JobsOf
      <3> QED  BY <2>6, <3>1
    <2> QED
      BY <2>2, <2>3, <2>4, <2>5, <2>6
  <1>4. ASSUME NEW j, InQueue(r, j)
        PROVE  InQueue(q, j) \/ j \in JobsOf(l)
    <2>1. PICK x \in Priorities : \E i \in DOMAIN r[x] : r[x][i].job = j
      BY <1>4 DEF InQueue
    <2>2. PICK i \in DOMAIN r[x] : r[x][i].job = j
      BY <2>1
    <2>3. CASE i \in DOMAIN q[x] /\ r[x][i] = q[x][i]
      BY <2>2, <2>3 DEF InQueue
    <2>4. CASE i - Len(q[p]) \in DOMAIN l /\ r[x][i] = l[i - Len(q[p])]
      BY <2>2, <2>4
    <2> QED
      BY <1>2, <2>3, <2>4
  <1> QED
    BY <1>3, <1>4

-----------------------------------------------------------------------------
(* The inductive invariant.                                                 *)

\* What a worker executes is running, and is executed by nobody else.
ExecutesRunning == \A w \in Workers : Executing(w) => jobs[task[w].job].status = "running"
OneExecutor == \A v, w \in Workers :
                   v # w /\ Executing(v) /\ Executing(w) => task[v].job # task[w].job

\* A task in a queue belongs to a job that waits, or was cancelled while it waited.
QueuedWaits == \A j : InQueue(queues, j) =>
                   j \in DOMAIN jobs /\ jobs[j].status \in {"queued", "cancelled"}

\* A game has at most one job that is not failed or cancelled.
OneLiveJob == \A j, k \in DOMAIN jobs :
                  jobs[j].game = jobs[k].game /\ IsLive(j) /\ IsLive(k) => j = k

ExecInv == ExecutesRunning /\ OneExecutor /\ QueuedWaits /\ OneTaskIn(queues) /\ OneLiveJob

Inv == TypeInv /\ ExecInv

LEMMA ExecInit == Init => ExecInv
  <1> SUFFICES ASSUME Init PROVE ExecInv
    OBVIOUS
  <1>1. \A w \in Workers : ~Executing(w)
    BY DEF Init, Executing, ExecutingAt
  <1>2. DOMAIN jobs = {} /\ \A p \in Priorities : DOMAIN queues[p] = {}
    BY DEF Init
  <1> QED
    BY <1>1, <1>2 DEF ExecInv, ExecutesRunning, OneExecutor, QueuedWaits, OneTaskIn, OneLiveJob,
                      InQueue

\* A step that moves no job and no task, and begins no execution, keeps the invariant.
LEMMA QuietStep ==
    ASSUME ExecInv, UNCHANGED queues,
           DOMAIN jobs' = DOMAIN jobs,
           \A j \in DOMAIN jobs : /\ jobs'[j].status = jobs[j].status
                                  /\ jobs'[j].game = jobs[j].game,
           KnowsJob,
           \A w \in Workers : Executing(w)' => Executing(w) /\ task'[w] = task[w]
    PROVE  ExecInv'
  <1>1. \A w \in Workers : Executing(w) => task[w].job \in DOMAIN jobs
    BY DEF Executing, ExecutingAt, KnowsJob
  <1>2. ExecutesRunning' /\ OneExecutor'
    BY <1>1 DEF ExecInv, ExecutesRunning, OneExecutor
  <1>3. QueuedWaits' /\ OneTaskIn(queues')
    BY DEF ExecInv, QueuedWaits
  <1>4. OneLiveJob'
    BY DEF ExecInv, OneLiveJob, IsLive
  <1> QED
    BY <1>2, <1>3, <1>4 DEF ExecInv

\* The end of an execution: the job of w leaves "running"; if it waits again, its task is
\* put in a queue.
LEMMA ExecutionEnds ==
    ASSUME TypeInv, ExecInv, NEW w \in Workers, Executing(w), ~Executing(w)',
           \A v \in Workers \ {w} : wpc'[v] = wpc[v] /\ task'[v] = task[v],
           NEW s \in Statuses, jobs' = [jobs EXCEPT ![task[w].job].status = s],
           \/ UNCHANGED queues
           \/ /\ s = "queued"
              /\ \E t \in Tasks : t.job = task[w].job /\ Enqueue(t)
    PROVE  ExecInv'
  <1> DEFINE j == task[w].job
  <1>1. /\ j \in DOMAIN jobs /\ jobs[j].status = "running"
        /\ \A k \in DOMAIN jobs : jobs[k] \in Jobs
        /\ queues \in Queues
    BY DEF TypeInv, TypeOK, JobsTypeOK, QueuesTypeOK, Queues, KnowsJob, ExecInv, ExecutesRunning,
           Executing, ExecutingAt
  <1> HIDE DEF j
  <1>2. /\ DOMAIN jobs' = DOMAIN jobs
        /\ \A k \in DOMAIN jobs : jobs'[k].game = jobs[k].game
        /\ \A k \in DOMAIN jobs \ {j} : jobs'[k] = jobs[k]
        /\ jobs'[j].status = s
    BY <1>1 DEF Jobs, j
  <1>3. /\ \A v \in Workers : Executing(v)' => v # w /\ Executing(v) /\ task'[v] = task[v]
        /\ \A v \in Workers : Executing(v) => task[v].job \in DOMAIN jobs
        /\ \A v \in Workers : v # w /\ Executing(v) => task[v].job # j
    BY DEF Executing, ExecutingAt, TypeInv, KnowsJob, ExecInv, OneExecutor, j
  <1>4. ExecutesRunning'
    <2> SUFFICES ASSUME NEW v \in Workers, Executing(v)'
                 PROVE  jobs'[task'[v].job].status = "running"
      BY DEF ExecutesRunning
    <2>1. /\ Executing(v) /\ task'[v] = task[v]
          /\ task[v].job \in DOMAIN jobs /\ task[v].job # j
      BY <1>3
    <2>2. jobs[task[v].job].status = "running"
      BY <2>1 DEF ExecInv, ExecutesRunning
    <2> QED
      BY <1>2, <2>1, <2>2
  <1>5. OneExecutor'
    BY <1>3 DEF ExecInv, OneExecutor
  <1>6. ~InQueue(queues, j)
    BY <1>1 DEF ExecInv, QueuedWaits
  <1>7. QueuedWaits' /\ OneTaskIn(queues')
    <2>1. CASE UNCHANGED queues
      BY <1>2, <1>6, <2>1 DEF ExecInv, QueuedWaits
    <2>2. CASE s = "queued" /\ \E t \in Tasks : t.job = task[w].job /\ Enqueue(t)
      <3>1. PICK t \in Tasks : t.job = j /\ queues' = [queues EXCEPT ![t.prio] = Append(@, t)]
        BY <2>2 DEF Enqueue, j
      <3>2. OneTaskIn(queues) /\ ~InQueue(queues, t.job)
        BY <1>6, <3>1 DEF ExecInv
      <3>3. t.prio \in Priorities
        BY DEF Tasks
      <3>4. /\ queues'[t.prio] = Append(queues[t.prio], t)
            /\ \A x \in Priorities \ {t.prio} : queues'[x] = queues[x]
        BY <1>1, <3>1, <3>3 DEF Queues
      <3>5. /\ OneTaskIn(queues')
            /\ \A k : InQueue(queues', k) => InQueue(queues, k) \/ k = t.job
        BY <1>1, <3>2, <3>4, AppendOnce
      <3> QED
        BY <1>1, <1>2, <1>6, <2>2, <3>1, <3>5 DEF ExecInv, QueuedWaits
    <2> QED
      BY <2>1, <2>2
  <1>8. OneLiveJob'
    <2>1. \A k \in DOMAIN jobs : IsLive(k)' => IsLive(k)
      BY <1>1, <1>2 DEF IsLive, Undecided
    <2> QED
      BY <1>2, <2>1 DEF ExecInv, OneLiveJob
  <1> QED
    BY <1>4, <1>5, <1>7, <1>8 DEF ExecInv

LEMMA ExecTake == ASSUME TypeInv, ExecInv, NEW w \in Workers, Take(w) PROVE ExecInv'
  <1>1. TypeOK
    BY DEF TypeInv
  <1>2. PICK p \in Priorities, t \in Tasks, u \in Tasks : TakesTask(w, p, t, u)
    BY <1>1, TakeEffect
  <1> DEFINE j == t.job
  <1>3. /\ OneTaskIn(queues') /\ ~InQueue(queues', j) /\ InQueue(queues, j)
        /\ \A k : InQueue(queues', k) => InQueue(queues, k)
    <2>1. queues \in Queues /\ OneTaskIn(queues)
      BY <1>1 DEF TypeOK, QueuesTypeOK, Queues, ExecInv
    <2>2. queues[p] # <<>> /\ t = Head(queues[p]) /\ queues' = [queues EXCEPT ![p] = Tail(@)]
      BY <1>2 DEF TakesTask
    <2>3. queues'[p] = Tail(queues[p]) /\ \A x \in Priorities \ {p} : queues'[x] = queues[x]
      BY <2>1, <2>2 DEF Queues
    <2>4. PICK r : r = queues'
      OBVIOUS
    <2>5. /\ OneTaskIn(r) /\ ~InQueue(r, Head(queues[p]).job)
          /\ InQueue(queues, Head(queues[p]).job)
          /\ \A k : InQueue(r, k) => InQueue(queues, k)
      <3>1. r[p] = Tail(queues[p]) /\ \A x \in Priorities \ {p} : r[x] = queues[x]
        BY <2>3, <2>4
      <3>2. queues[p] # <<>>
        BY <2>2
      <3> QED
        BY <2>1, <3>1, <3>2, TailOnce
    <2> QED
      BY <2>2, <2>4, <2>5
  <1>4. /\ j \in DOMAIN jobs /\ jobs[j].status = "queued" /\ u.job = j
        /\ \A k \in DOMAIN jobs : jobs[k] \in Jobs
    BY <1>1, <1>2, <1>3 DEF TakesTask, ExecInv, QueuedWaits, TypeOK, JobsTypeOK
  <1> HIDE DEF j
  <1>5. /\ DOMAIN jobs' = DOMAIN jobs
        /\ \A k \in DOMAIN jobs : jobs'[k].game = jobs[k].game
        /\ \A k \in DOMAIN jobs \ {j} : jobs'[k] = jobs[k]
        /\ jobs'[j].status = "running"
    BY <1>2, <1>4 DEF Jobs, TakesTask, j
  <1>6. /\ \A v \in Workers \ {w} : (Executing(v)' <=> Executing(v)) /\ task'[v] = task[v]
        /\ task'[w] = u
        /\ \A v \in Workers : Executing(v) => /\ task[v].job \in DOMAIN jobs
                                              /\ jobs[task[v].job].status = "running"
    BY <1>1, <1>2 DEF TakesTask, Executing, ExecutingAt, TypeInv, TypeOK, WorkerTypeOK, KnowsJob,
                      ExecInv, ExecutesRunning
  <1>7. ExecutesRunning'
    BY <1>4, <1>5, <1>6 DEF ExecutesRunning
  <1>8. OneExecutor'
    BY <1>4, <1>6 DEF OneExecutor, ExecInv
  <1>9. QueuedWaits'
    BY <1>3, <1>5 DEF QueuedWaits, ExecInv
  <1>10. OneLiveJob'
    <2>1. \A k \in DOMAIN jobs : IsLive(k)' => IsLive(k)
      BY <1>4, <1>5 DEF IsLive, Undecided
    <2> QED
      BY <1>5, <2>1 DEF ExecInv, OneLiveJob
  <1> QED
    BY <1>3, <1>7, <1>8, <1>9, <1>10 DEF ExecInv

LEMMA ExecWorker ==
    ASSUME TypeInv, ExecInv, "record" \notin Faults, NEW w \in Workers, WorkerStep(w)
    PROVE  ExecInv'
  <1>0. /\ wpc \in [Workers -> WorkerAt] /\ task \in [Workers -> Tasks]
        /\ KnowsJob /\ queues \in Queues /\ OneTaskIn(queues)
        /\ \A j \in DOMAIN jobs : jobs[j] \in Jobs
    BY DEF TypeInv, TypeOK, WorkerTypeOK, QueuesTypeOK, Queues, JobsTypeOK, ExecInv
  <1>1. CASE Take(w)
    BY <1>1, ExecTake
  <1>2. CASE Discard(w)
    <2>1. /\ queues' = [queues EXCEPT ![BestQueue] = Tail(@)] /\ queues[BestQueue] # <<>>
          /\ UNCHANGED <<jobs, wpc, task>>
      BY <1>2 DEF Discard, CanTake, Servable, workerVars
    <2>2. OneTaskIn(queues') /\ \A j : InQueue(queues', j) => InQueue(queues, j)
      <3>1. PICK p \in Priorities : p = BestQueue
        OBVIOUS
      <3>2. /\ queues'[p] = Tail(queues[p]) /\ queues[p] # <<>>
            /\ \A x \in Priorities \ {p} : queues'[x] = queues[x]
        BY <1>0, <2>1, <3>1 DEF Queues
      <3> QED
        BY <1>0, <3>2, TailOnce
    <2> QED
      BY <2>1, <2>2 DEF ExecInv, ExecutesRunning, OneExecutor, QueuedWaits, OneLiveJob, IsLive,
                        Executing
  <1>3. CASE Announce(w) \/ Look(w) \/ Analyze(w) \/ AnalyzeThrows(w) \/ RecordRequeued(w) \/ Snapshot(w)
    <2>1. UNCHANGED <<jobs, queues, task>>
          /\ \A v \in Workers : Executing(v)' => Executing(v)
      BY <1>0, <1>3 DEF Announce, Look, Analyze, AnalyzeThrows, RecordRequeued, Snapshot, Throws, Goto,
                        Executing, ExecutingAt, queueVars
    <2> QED
      BY <1>0, <2>1, QuietStep
  <1>4. CASE Finish(w) \/ Record(w)
    <2>1. UNCHANGED <<jobs, queues>>
          /\ \A v \in Workers : Executing(v)' => Executing(v) /\ task'[v] = task[v]
      BY <1>0, <1>4 DEF Finish, Record, Goto, Executing, ExecutingAt, queueVars
    <2> QED
      BY <1>0, <2>1, QuietStep
  <1>5. CASE Found(w) \/ CommitDeep(w)
    <2>1. /\ Executing(w) /\ ~Executing(w)' /\ UNCHANGED queues
          /\ \A v \in Workers \ {w} : wpc'[v] = wpc[v] /\ task'[v] = task[v]
          /\ jobs' = [jobs EXCEPT ![task[w].job].status = "complete"]
      BY <1>0, <1>5 DEF Found, CommitDeep, Goto, Executing, ExecutingAt
    <2> QED
      BY <2>1, ExecutionEnds
  <1>6. CASE CommitShallow(w)
    <2>1. /\ Executing(w) /\ ~Executing(w)'
          /\ \A v \in Workers \ {w} : wpc'[v] = wpc[v] /\ task'[v] = task[v]
          /\ jobs' = [jobs EXCEPT ![task[w].job].status = "queued"]
          /\ Enqueue(NewTask(task[w].job, TRUE, task[w].prio))
      BY <1>0, <1>6 DEF CommitShallow, Goto, Executing, ExecutingAt
    <2>2. PICK t \in Tasks : t.job = task[w].job /\ Enqueue(t)
      <3>1. NewTask(task[w].job, TRUE, task[w].prio) \in Tasks
        BY <1>0, NewTaskType DEF Tasks
      <3> QED
        BY <2>1, <3>1 DEF NewTask
    <2> QED
      BY <2>1, <2>2, ExecutionEnds
  <1>7. CASE RecordRequeuedThrows(w) \/ SaveThrows(w)
    BY <1>7 DEF RecordRequeuedThrows, SaveThrows
  <1>8. CASE Catch(w)
    <2>1. /\ Executing(w) /\ ~Executing(w)'
          /\ \A v \in Workers \ {w} : wpc'[v] = wpc[v] /\ task'[v] = task[v]
          /\ jobs' = [jobs EXCEPT ![task[w].job].status = CatchStatus(w)]
          /\ IF CatchStatus(w) = "queued" THEN Requeue(w) ELSE UNCHANGED queues
          /\ task[w].job \in DOMAIN jobs /\ task[w] \in Tasks
      BY <1>0, <1>8 DEF Catch, Goto, Executing, ExecutingAt, KnowsJob
    <2>2. CatchStatus(w) \in Statuses
      BY DEF CatchStatus
    <2>3. CASE CatchStatus(w) = "queued"
      <3>1. [task[w] EXCEPT !.prio = jobs[task[w].job].prio, !.src = Unshared] \in Tasks
        BY <1>0, <2>1 DEF Tasks, Jobs
      <3>2. [task[w] EXCEPT !.attempts = @ + 1] \in Tasks
        <4>1. task[w].attempts + 1 \in Nat
          BY <2>1 DEF Tasks
        <4> QED
          BY <2>1, <4>1 DEF Tasks
      <3>3. PICK t \in Tasks : t.job = task[w].job /\ Enqueue(t)
        <4>1. CASE Preempted(w)
          BY <2>1, <2>3, <3>1, <4>1 DEF Requeue, Tasks
        <4>2. CASE ~Preempted(w)
          BY <2>1, <2>3, <3>2, <4>2 DEF Requeue, Tasks
        <4> QED
          BY <4>1, <4>2
      <3>4. PICK s \in Statuses : s = CatchStatus(w)
        BY <2>2
      <3>5. s = "queued" /\ jobs' = [jobs EXCEPT ![task[w].job].status = s]
        BY <2>1, <2>3, <3>4
      <3> QED
        BY <2>1, <3>3, <3>5, ExecutionEnds
    <2>4. CASE CatchStatus(w) # "queued"
      <3>1. PICK s \in Statuses : s = CatchStatus(w)
        BY <2>2
      <3>2. UNCHANGED queues /\ jobs' = [jobs EXCEPT ![task[w].job].status = s]
        BY <2>1, <2>4, <3>1
      <3> QED
        BY <2>1, <3>2, ExecutionEnds
    <2> QED
      BY <2>3, <2>4
  <1> QED
    BY <1>1, <1>2, <1>3, <1>4, <1>5, <1>6, <1>7, <1>8 DEF WorkerStep

\* A promotion moves a task and changes a priority, nothing else.
LEMMA ExecPromote ==
    ASSUME TypeInv, ExecInv, NEW j \in DOMAIN jobs, Promote(j), UNCHANGED <<wpc, task>>
    PROVE  ExecInv'
  <1>1. /\ queues \in Queues /\ OneTaskIn(queues) /\ KnowsJob
        /\ \A k \in DOMAIN jobs : jobs[k] \in Jobs
    BY DEF TypeInv, TypeOK, QueuesTypeOK, Queues, ExecInv, JobsTypeOK
  <1>2. /\ DOMAIN jobs' = DOMAIN jobs
        /\ \A k \in DOMAIN jobs : /\ jobs'[k].status = jobs[k].status
                                 /\ jobs'[k].game = jobs[k].game
    BY <1>1 DEF Promote, Jobs
  <1>3. OneTaskIn(queues') /\ \A k : InQueue(queues', k) => InQueue(queues, k)
    <2>1. CASE UNCHANGED queues
      BY <1>1, <2>1
    <2>2. CASE queues' # queues
      <3>1. PICK i, u :
               /\ i \in DOMAIN queues[Historical]
               /\ u = [queues[Historical][i] EXCEPT !.prio = Interactive]
               /\ queues' = [queues EXCEPT ![Historical]  = RemoveAt(@, i),
                                           ![Interactive] = Append(@, u)]
        BY <2>2 DEF Promote, MoveTask
      <3>2. u \in Tasks /\ u.job = queues[Historical][i].job
        <4>1. queues[Historical][i] \in Tasks
          BY <1>1, <3>1 DEF Queues
        <4> QED
          BY <3>1, <4>1 DEF Tasks
      <3>3. /\ queues'[Historical] = RemoveAt(queues[Historical], i)
            /\ queues'[Interactive] = Append(queues[Interactive], u)
            /\ i \in DOMAIN queues[Historical]
        BY <1>1, <3>1 DEF Queues
      <3>4. PICK r : r = queues'
        OBVIOUS
      <3>5. OneTaskIn(r) /\ \A k : InQueue(r, k) => InQueue(queues, k)
        BY <1>1, <3>2, <3>3, <3>4, MoveOnce
      <3> QED
        BY <3>4, <3>5
    <2> QED
      BY <2>1, <2>2
  <1>4. \A w \in Workers : Executing(w)' = Executing(w) /\ task'[w] = task[w]
    BY DEF Executing
  <1>5. \A w \in Workers : Executing(w) => task[w].job \in DOMAIN jobs
    BY <1>1 DEF KnowsJob, Executing, ExecutingAt
  <1>6. ExecutesRunning' /\ OneExecutor'
    BY <1>2, <1>4, <1>5 DEF ExecInv, ExecutesRunning, OneExecutor
  <1>7. QueuedWaits'
    BY <1>2, <1>3 DEF ExecInv, QueuedWaits
  <1>8. OneLiveJob'
    BY <1>2 DEF ExecInv, OneLiveJob, IsLive
  <1> QED
    BY <1>3, <1>6, <1>7, <1>8 DEF ExecInv

\* A cancelled job keeps the task it has in a queue, or the worker that executes it.
LEMMA ExecCancel ==
    ASSUME TypeInv, ExecInv, NEW c \in Clients, Cancel(c) PROVE ExecInv'
  <1>1. PICK j \in DOMAIN jobs :
           /\ jobs[j].status \in Undecided
           /\ jobs' = [jobs EXCEPT ![j].stop = TRUE, ![j].status = CancelStatus(j)]
    BY DEF Cancel
  <1>2. UNCHANGED <<queues, wpc, task>> /\ KnowsJob
    BY DEF Cancel, workerVars, TypeInv
  <1>3. PICK s : s = CancelStatus(j)
    OBVIOUS
  <1>4. /\ jobs' = [jobs EXCEPT ![j] = [@ EXCEPT !.stop = TRUE, !.status = s]]
        /\ \A k \in DOMAIN jobs : jobs[k] \in Jobs
    BY <1>1, <1>3 DEF TypeInv, TypeOK, JobsTypeOK
  <1>5. /\ DOMAIN jobs' = DOMAIN jobs
        /\ \A k \in DOMAIN jobs : jobs'[k].game = jobs[k].game
        /\ \A k \in DOMAIN jobs \ {j} : jobs'[k] = jobs[k]
        /\ jobs'[j].status = s
    BY <1>4 DEF Jobs
  <1>6. \/ jobs[j].status = "queued" /\ s = "cancelled"
        \/ jobs[j].status = "running" /\ s = "running"
    BY <1>1, <1>3 DEF CancelStatus, Undecided
  <1>7. \A w \in Workers : Executing(w) => task[w].job \in DOMAIN jobs
    BY <1>2 DEF KnowsJob, Executing, ExecutingAt
  <1>8. ExecutesRunning'
    <2> SUFFICES ASSUME NEW w \in Workers, Executing(w)
                 PROVE  jobs'[task[w].job].status = "running"
      BY <1>2 DEF ExecutesRunning, Executing
    <2>1. task[w].job \in DOMAIN jobs /\ jobs[task[w].job].status = "running"
      BY <1>7 DEF ExecInv, ExecutesRunning
    <2> QED
      BY <1>5, <1>6, <2>1
  <1>9. OneExecutor' /\ OneTaskIn(queues')
    BY <1>2 DEF ExecInv, OneExecutor, Executing
  <1>10. QueuedWaits'
    BY <1>2, <1>5, <1>6 DEF ExecInv, QueuedWaits
  <1>11. OneLiveJob'
    <2>1. \A k \in DOMAIN jobs : IsLive(k)' => IsLive(k)
      BY <1>1, <1>5 DEF IsLive
    <2> QED
      BY <1>5, <2>1 DEF ExecInv, OneLiveJob
  <1> QED
    BY <1>8, <1>9, <1>10, <1>11 DEF ExecInv

\* New jobs have new identifiers, and their games have no live job.
LEMMA ExecStartNew ==
    ASSUME TypeInv, ExecInv, NEW c \in Clients, StartNew(c) PROVE ExecInv'
  <1> DEFINE r == request[c]
  <1>0. /\ TypeOK /\ KnowsJob /\ JobsTypeOK /\ queues \in Queues /\ OneTaskIn(queues)
        /\ r.games \subseteq Games /\ r.prio \in Priorities
        /\ UNCHANGED <<wpc, task>>
    BY RequestKinds DEF TypeInv, TypeOK, QueuesTypeOK, Queues, ExecInv, StartNew, Starting,
                        workerVars
  <1>1. PICK todo \in Orders(r), done \in SetToSeqs(NewGames(r.games) \cap r.complete) :
          LET new == NewJobs(r, todo \o done) IN
          /\ jobs' = [j \in DOMAIN jobs \cup DOMAIN new |->
                         IF j \in DOMAIN new THEN new[j] ELSE jobs[j]]
          /\ queues' = [queues EXCEPT ![r.prio] = @ \o TasksFor(r, todo)]
    BY DEF StartNew
  <1> DEFINE order == todo \o done
             new == NewJobs(r, order)
             l == TasksFor(r, todo)
             last == nextId + Len(order) - 1
  <1>2. /\ todo \in Seq(Games) /\ order \in Seq(Games)
        /\ Len(todo) <= Len(order)
        /\ \A i \in 1 .. Len(todo) : order[i] = todo[i] /\ todo[i] \notin r.complete
        /\ \A i \in 1 .. Len(order) : order[i] \in NewGames(r.games)
        /\ \A i, k \in 1 .. Len(order) : i # k => order[i] # order[k]
    BY <1>0, <1>1, NewOrder
  <1>3. /\ Len(order) \in Nat /\ Len(todo) \in Nat /\ nextId \in Nat \ {0}
        /\ DOMAIN todo = 1 .. Len(todo)
        /\ DOMAIN jobs \subseteq 1 .. nextId - 1
        /\ \A j \in DOMAIN jobs : jobs[j] \in Jobs
    <2> HIDE DEF order
    <2> QED  BY <1>0, <1>2, LenProperties DEF JobsTypeOK
  <1> HIDE DEF r, order
  <1>4. /\ DOMAIN new = nextId .. last
        /\ \A j \in nextId .. last :
              LET i == j - nextId + 1 IN
              /\ i \in 1 .. Len(order)
              /\ new[j].game = order[i]
              /\ new[j].status = IF order[i] \in r.complete THEN "complete" ELSE "queued"
    BY <1>3 DEF NewJobs
  <1>5. /\ l \in Seq(Tasks) /\ DOMAIN l = 1 .. Len(todo)
        /\ \A i \in DOMAIN l : l[i].job = nextId + i - 1
    <2>1. \A i \in 1 .. Len(todo) :
               NewTask(nextId + i - 1, todo[i] \in r.shallow, r.prio) \in Tasks
      <3>1. SUFFICES ASSUME NEW i \in 1 .. Len(todo)
            PROVE  NewTask(nextId + i - 1, todo[i] \in r.shallow, r.prio) \in Tasks
        OBVIOUS
      <3>2. nextId + i - 1 \in Nat /\ (todo[i] \in r.shallow) \in BOOLEAN
        BY <1>3
      <3> QED
        BY <1>0, <3>2, NewTaskType
    <2>2. l \in Seq(Tasks) /\ DOMAIN l = 1 .. Len(todo)
      BY <1>3, <2>1 DEF TasksFor
    <2> QED
      BY <1>3, <2>2 DEF TasksFor, NewTask
  <1>6. /\ DOMAIN jobs' = DOMAIN jobs \cup (nextId .. last)
        /\ \A j \in DOMAIN jobs : jobs'[j] = jobs[j] /\ j \notin nextId .. last
        /\ \A j \in nextId .. last : jobs'[j] = new[j] /\ j \notin DOMAIN jobs
    <2>1. \A j \in DOMAIN jobs : j \notin nextId .. last
      BY <1>3
    <2>2. jobs' = [j \in DOMAIN jobs \cup DOMAIN new |->
                      IF j \in DOMAIN new THEN new[j] ELSE jobs[j]]
      BY <1>1 DEF order
    <2> HIDE DEF new, last
    <2> QED
      BY <1>4, <2>1, <2>2
  <1> HIDE DEF new, l, last
  <1>7. \A w \in Workers : (Executing(w)' <=> Executing(w))
                         /\ (Executing(w) => task[w].job \in DOMAIN jobs)
    BY <1>0 DEF Executing, ExecutingAt, KnowsJob
  <1>8. ExecutesRunning' /\ OneExecutor'
    BY <1>0, <1>6, <1>7 DEF ExecInv, ExecutesRunning, OneExecutor
  <1>9. /\ OneTaskIn(queues')
        /\ \A j : InQueue(queues', j) => InQueue(queues, j) \/ j \in JobsOf(l)
    <2>1. \A j \in JobsOf(l) : ~InQueue(queues, j)
      <3>1. \A i \in DOMAIN l : l[i].job \notin DOMAIN jobs
        BY <1>3, <1>5
      <3> QED
        BY <3>1 DEF ExecInv, QueuedWaits, JobsOf
    <2>2. JobsOnce(l)
      BY <1>3, <1>5 DEF JobsOnce
    <2>3. PICK q, p : q = queues' /\ p = r.prio
      OBVIOUS
    <2>4. p \in Priorities /\ q[p] = queues[p] \o l /\ \A x \in Priorities \ {p} : q[x] = queues[x]
      <3>1. queues' = [queues EXCEPT ![r.prio] = queues[r.prio] \o TasksFor(r, todo)]
        BY <1>1
      <3>2. q = [queues EXCEPT ![p] = queues[p] \o l]
        BY <2>3, <3>1 DEF l
      <3> QED
        BY <1>0, <2>3, <3>2 DEF Queues
    <2>5. /\ OneTaskIn(q)
          /\ \A j : InQueue(q, j) => InQueue(queues, j) \/ j \in JobsOf(l)
      <3>1. queues \in Queues /\ OneTaskIn(queues) /\ l \in Seq(Tasks)
        BY <1>0, <1>5
      <3> QED
        BY <2>1, <2>2, <2>4, <3>1, ConcatOnce
    <2> QED
      BY <2>3, <2>5
  <1>10. QueuedWaits'
    <2> SUFFICES ASSUME NEW j, InQueue(queues', j)
                 PROVE  j \in DOMAIN jobs' /\ jobs'[j].status \in {"queued", "cancelled"}
      BY DEF QueuedWaits
    <2>1. CASE InQueue(queues, j)
      BY <1>6, <2>1 DEF ExecInv, QueuedWaits
    <2>2. CASE j \in JobsOf(l)
      <3>1. PICK i \in 1 .. Len(todo) : j = nextId + i - 1
        BY <1>5, <2>2 DEF JobsOf
      <3>2. j \in nextId .. last /\ j - nextId + 1 = i /\ i \in 1 .. Len(order)
        BY <1>2, <1>3, <3>1 DEF last
      <3>3. order[i] \notin r.complete
        BY <1>2, <3>1
      <3>4. new[j].status = "queued"
        BY <1>4, <3>2, <3>3
      <3> QED
        BY <1>6, <3>2, <3>4
    <2> QED
      BY <1>9, <2>1, <2>2
  <1>11. OneLiveJob'
    <2> SUFFICES ASSUME NEW j \in DOMAIN jobs', NEW k \in DOMAIN jobs',
                        jobs'[j].game = jobs'[k].game, IsLive(j)', IsLive(k)'
                 PROVE  j = k
      BY DEF OneLiveJob
    <2>1. \A i \in DOMAIN jobs : (IsLive(i)' <=> IsLive(i)) /\ jobs'[i].game = jobs[i].game
      BY <1>6 DEF IsLive
    <2>2. ASSUME NEW a \in DOMAIN jobs, IsLive(a), NEW b \in nextId .. last
          PROVE  jobs'[a].game # jobs'[b].game
      <3>1. PICK i \in 1 .. Len(order) : jobs'[b].game = order[i]
        BY <1>4, <1>6
      <3>2. LiveJobs(order[i]) = {}
        BY <1>2 DEF NewGames
      <3> QED
        BY <2>1, <2>2, <3>1, <3>2 DEF LiveJobs
    <2>3. CASE j \in DOMAIN jobs /\ k \in DOMAIN jobs
      BY <2>1, <2>3 DEF ExecInv, OneLiveJob
    <2>4. CASE j \in nextId .. last /\ k \in nextId .. last
      <3>1. PICK a, b : a = j - nextId + 1 /\ b = k - nextId + 1
        OBVIOUS
      <3>2. /\ a \in 1 .. Len(order) /\ b \in 1 .. Len(order)
            /\ jobs'[j].game = order[a] /\ jobs'[k].game = order[b]
        BY <1>4, <1>6, <2>4, <3>1
      <3>3. a = b
        BY <1>2, <3>2
      <3> QED
        BY <1>3, <2>4, <3>1, <3>3 DEF last
    <2> QED
      BY <1>6, <2>1, <2>2, <2>3, <2>4
  <1> QED
    BY <1>8, <1>9, <1>10, <1>11 DEF ExecInv

LEMMA ExecClient ==
    ASSUME TypeInv, ExecInv, NEW c \in Clients, ClientCalls(c) \/ ClientProceeds(c)
    PROVE  ExecInv'
  <1>0. KnowsJob
    BY DEF TypeInv
  <1>1. CASE \/ CallStart(c) \/ CallBatch(c) \/ RejectNew(c) \/ RecordNext(c) \/ Return(c)
             \/ SetPaused(c) \/ StorePaused(c)
    <2>1. UNCHANGED <<jobs, queues, wpc, task>>
      BY <1>1 DEF CallStart, CallBatch, ReadGames, RejectNew, RecordNext, Return, SetPaused,
                  StorePaused, queueVars, workerVars
    <2>2. \A w \in Workers : Executing(w)' => Executing(w)
      BY <2>1 DEF Executing
    <2> QED
      BY <1>0, <2>1, <2>2, QuietStep
  <1>2. CASE StartNew(c)
    BY <1>2, ExecStartNew
  <1>3. CASE StartExisting(c) \/ RejectExisting(c)
    <2>1. PICK j \in DOMAIN jobs : Promote(j)
      BY <1>3 DEF StartExisting, RejectExisting
    <2>2. UNCHANGED <<wpc, task>>
      BY <1>3 DEF StartExisting, RejectExisting, workerVars
    <2> QED
      BY <2>1, <2>2, ExecPromote
  <1>4. CASE Cancel(c)
    BY <1>4, ExecCancel
  <1> QED
    BY <1>1, <1>2, <1>3, <1>4 DEF ClientCalls, ClientProceeds

LEMMA ExecProcess == ASSUME TypeInv, ExecInv, Process PROVE ExecInv'
  <1>1. CASE Die
    <2>1. /\ \A w \in Workers : ~Executing(w)'
          /\ DOMAIN jobs' = {} /\ \A p \in Priorities : DOMAIN queues'[p] = {}
      BY <1>1 DEF Die, Executing, ExecutingAt
    <2> QED
      BY <2>1 DEF ExecInv, ExecutesRunning, OneExecutor, QueuedWaits, OneTaskIn, OneLiveJob,
                  InQueue
  <1>2. CASE Shutdown
    <2>1. /\ UNCHANGED <<queues, wpc, task>> /\ KnowsJob /\ DOMAIN jobs' = DOMAIN jobs
          /\ \A j \in DOMAIN jobs : /\ jobs'[j].status = jobs[j].status
                                  /\ jobs'[j].game = jobs[j].game
      BY <1>2 DEF Shutdown, workerVars, TypeInv, TypeOK, JobsTypeOK, Jobs
    <2>2. \A w \in Workers : Executing(w)' => Executing(w)
      BY <2>1 DEF Executing
    <2> QED
      BY <2>1, <2>2, QuietStep
  <1>3. CASE Boot
    <2>1. PICK order \in SetToSeqs(Recoverable) :
         /\ jobs' = [j \in 1 .. Len(order) |->
                        [game |-> order[j], status |-> "queued", stop |-> FALSE,
                         prio |-> Historical]]
         /\ queues' = [queues EXCEPT ![Historical] =
                        [j \in 1 .. Len(order) |->
                            NewTask(j, order[j] \in shallow, Historical)]]
      BY <1>3 DEF Boot
    <2>2. IsFiniteSet(Recoverable)
      BY FS_Subset DEF Recoverable
    <2>3. /\ Len(order) \in Nat
          /\ \A i, k \in 1 .. Len(order) : i # k => order[i] # order[k]
      BY <2>1, <2>2, SetToSeqsFacts
    <2>4. /\ DOMAIN queues'[Interactive] = {} /\ DOMAIN queues'[Historical] = 1 .. Len(order)
          /\ \A i \in 1 .. Len(order) : queues'[Historical][i].job = i
      BY <1>3, <2>1 DEF Boot, TypeInv, DownIsEmpty, NewTask
    <2>5. \A w \in Workers : ~Executing(w)'
      BY <1>3 DEF Boot, TypeInv, DownIsEmpty, Executing, ExecutingAt, workerVars
    <2>6. ExecutesRunning' /\ OneExecutor'
      BY <2>5 DEF ExecutesRunning, OneExecutor
    <2>7. \A j : InQueue(queues', j) => j \in 1 .. Len(order)
      BY <2>4 DEF InQueue
    <2>8. QueuedWaits'
      BY <2>1, <2>7 DEF QueuedWaits
    <2>9. OneTaskIn(queues')
      BY <2>4 DEF OneTaskIn
    <2>10. OneLiveJob'
      BY <2>1, <2>3 DEF OneLiveJob
    <2> QED
      BY <2>6, <2>8, <2>9, <2>10 DEF ExecInv
  <1>4. CASE BootFails
    <2>1. UNCHANGED <<jobs, queues, wpc, task>> /\ KnowsJob
      BY <1>4 DEF BootFails, queueVars, workerVars, TypeInv
    <2>2. \A w \in Workers : Executing(w)' => Executing(w)
      BY <2>1 DEF Executing
    <2> QED
      BY <2>1, <2>2, QuietStep
  <1> QED
    BY <1>1, <1>2, <1>3, <1>4 DEF Process, Crash, RecordKills, Joined

LEMMA InvNext == ASSUME "record" \notin Faults PROVE Inv /\ [Next]_vars => Inv'
  <1> SUFFICES ASSUME Inv, [Next]_vars PROVE Inv'
    OBVIOUS
  <1>1. TypeInv /\ ExecInv /\ TypeInv'
    BY TypeInvNext DEF Inv
  <1>2. CASE Next
    BY <1>1, <1>2, ExecWorker, ExecClient, ExecProcess DEF Next, Inv
  <1>3. CASE UNCHANGED vars
    <2>1. UNCHANGED <<jobs, queues, wpc, task>> /\ KnowsJob
      BY <1>1, <1>3 DEF vars, queueVars, workerVars, TypeInv
    <2>2. \A w \in Workers : Executing(w)' => Executing(w)
      BY <2>1 DEF Executing
    <2> QED
      BY <1>1, <2>1, <2>2, QuietStep DEF Inv
  <1> QED
    BY <1>2, <1>3

\* However start, promotion, preemption, cancellation, retries, crashes and restarts
\* interleave, no game is analysed by two workers at once.
THEOREM Exclusion ==
    ASSUME "record" \notin Faults PROVE Spec => []ExclusiveAnalysis
  <1>1. Init => Inv
    BY TypeInvInit, ExecInit DEF Inv
  <1>2. Inv => ExclusiveAnalysis
    <2> SUFFICES ASSUME Inv, NEW v \in Workers, NEW w \in Workers, v # w,
                        Executing(v), Executing(w)
                 PROVE  GameOf(v) # GameOf(w)
      BY DEF ExclusiveAnalysis
    <2>1. /\ task[v].job \in DOMAIN jobs /\ task[w].job \in DOMAIN jobs
          /\ task[v].job # task[w].job
          /\ IsLive(task[v].job) /\ IsLive(task[w].job)
      BY DEF Inv, TypeInv, KnowsJob, ExecInv, ExecutesRunning, OneExecutor, Executing,
             ExecutingAt, IsLive, Undecided
    <2> QED
      BY <2>1 DEF Inv, ExecInv, OneLiveJob, GameOf
  <1>3. Inv /\ [Next]_vars => Inv'
    BY InvNext
  <1> QED
    BY <1>1, <1>2, <1>3, PTL DEF Spec

-----------------------------------------------------------------------------
(* Jobs that stay in the queues.                                            *)

\* Taking the first task of a queue leaves the other jobs there.
LEMMA TailKeeps ==
    ASSUME NEW q \in Queues, NEW p \in Priorities, q[p] # <<>>,
           NEW r, r[p] = Tail(q[p]), \A x \in Priorities \ {p} : r[x] = q[x],
           NEW j, j # Head(q[p]).job, InQueue(q, j)
    PROVE  InQueue(r, j)
  <1>1. PICK x \in Priorities : \E i \in DOMAIN q[x] : q[x][i].job = j
    BY DEF InQueue
  <1>2. PICK i \in DOMAIN q[x] : q[x][i].job = j
    BY <1>1
  <1>3. CASE x = p
    <2>1. PICK s, t : s = q[p] /\ t = Tail(s)
      OBVIOUS
    <2>2. s \in Seq(Tasks) /\ s # <<>>
      BY <2>1 DEF Queues
    <2>3. /\ Len(t) = Len(s) - 1 /\ t \in Seq(Tasks) /\ Len(s) \in Nat
          /\ \A k \in 1 .. Len(t) : t[k] = s[k + 1]
          /\ Head(s) = s[1]
      BY <2>1, <2>2, HeadTailProperties
    <2>4. i \in 1 .. Len(s) /\ i # 1
      BY <1>2, <1>3, <2>1, <2>2, <2>3
    <2>5. i - 1 \in 1 .. Len(t) /\ (i - 1) + 1 = i
      BY <2>3, <2>4
    <2>6. i - 1 \in DOMAIN t /\ t[i - 1] = s[i]
      BY <2>3, <2>5
    <2> QED  BY <1>2, <1>3, <2>1, <2>6 DEF InQueue
  <1>4. CASE x # p
    BY <1>2, <1>4 DEF InQueue
  <1> QED
    BY <1>3, <1>4

\* Adding a task keeps every job there, and adds its own.
LEMMA AppendKeeps ==
    ASSUME NEW q \in Queues, NEW t \in Tasks, NEW r, r[t.prio] = Append(q[t.prio], t),
           \A x \in Priorities \ {t.prio} : r[x] = q[x]
    PROVE  InQueue(r, t.job) /\ \A j : InQueue(q, j) => InQueue(r, j)
  <1>1. t.prio \in Priorities /\ \A x \in Priorities : q[x] \in Seq(Tasks)
    BY DEF Tasks, Queues
  <1>2. PICK p \in Priorities, s \in Seq(Tasks) : p = t.prio /\ s = q[p]
    BY <1>1
  <1>3. /\ Append(s, t) \in Seq(Tasks) /\ Len(Append(s, t)) = Len(s) + 1
        /\ \A k \in 1 .. Len(s) : Append(s, t)[k] = s[k]
        /\ Append(s, t)[Len(s) + 1] = t
        /\ Len(s) \in Nat /\ DOMAIN s = 1 .. Len(s)
    BY AppendProperties
  <1>4. r[p] = Append(s, t) /\ DOMAIN r[p] = 1 .. Len(s) + 1
    BY <1>2, <1>3
  <1>5. InQueue(r, t.job)
    <2>1. Len(s) + 1 \in DOMAIN r[p] /\ r[p][Len(s) + 1].job = t.job
      BY <1>3, <1>4
    <2> QED  BY <2>1 DEF InQueue
  <1>6. ASSUME NEW j, InQueue(q, j) PROVE InQueue(r, j)
    <2>1. PICK x \in Priorities : \E i \in DOMAIN q[x] : q[x][i].job = j
      BY <1>6 DEF InQueue
    <2>2. PICK i \in DOMAIN q[x] : q[x][i].job = j
      BY <2>1
    <2>3. i \in DOMAIN r[x] /\ r[x][i] = q[x][i]
      <3>1. CASE x = p
        <4>1. i \in 1 .. Len(s) /\ q[x][i] = s[i]
          BY <1>2, <1>3, <2>2, <3>1
        <4>2. i \in 1 .. Len(s) + 1
          BY <1>3, <4>1
        <4> QED  BY <1>3, <1>4, <3>1, <4>1, <4>2
      <3>2. CASE x # p
        BY <1>2, <2>2, <3>2
      <3> QED  BY <3>1, <3>2
    <2> QED  BY <2>2, <2>3 DEF InQueue
  <1> QED
    BY <1>5, <1>6

\* Moving a task to the interactive queue keeps every job there.
LEMMA MoveKeeps ==
    ASSUME NEW q \in Queues, NEW m \in DOMAIN q[Historical],
           NEW u \in Tasks, u.job = q[Historical][m].job,
           NEW r, r[Historical] = RemoveAt(q[Historical], m),
           r[Interactive] = Append(q[Interactive], u),
           NEW j, InQueue(q, j)
    PROVE  InQueue(r, j)
  <1>0. Interactive \in Priorities /\ Historical \in Priorities
        /\ \A p \in Priorities : p = Interactive \/ p = Historical
    BY PriorityFacts
  <1>1. PICK h \in Seq(Tasks), a \in Seq(Tasks) : h = q[Historical] /\ a = q[Interactive]
    BY <1>0 DEF Queues
  <1>2. /\ Len(Append(a, u)) = Len(a) + 1 /\ Len(a) \in Nat /\ DOMAIN a = 1 .. Len(a)
        /\ \A k \in 1 .. Len(a) : Append(a, u)[k] = a[k]
        /\ Append(a, u)[Len(a) + 1] = u /\ Append(a, u) \in Seq(Tasks)
    BY AppendProperties
  <1>3. r[Interactive] = Append(a, u) /\ DOMAIN r[Interactive] = 1 .. Len(a) + 1
    BY <1>1, <1>2
  <1>4. /\ RemoveAt(h, m) \in Seq(Tasks) /\ Len(RemoveAt(h, m)) = Len(h) - 1
        /\ \A k \in 1 .. Len(h) - 1 : RemoveAt(h, m)[k] = IF k < m THEN h[k] ELSE h[k + 1]
        /\ Len(h) \in Nat /\ DOMAIN h = 1 .. Len(h) /\ m \in 1 .. Len(h)
    BY <1>1, RemoveAtFacts
  <1>5. r[Historical] = RemoveAt(h, m) /\ DOMAIN r[Historical] = 1 .. Len(h) - 1
    BY <1>1, <1>4
  <1>6. PICK x \in Priorities : \E i \in DOMAIN q[x] : q[x][i].job = j
    BY DEF InQueue
  <1>7. PICK i \in DOMAIN q[x] : q[x][i].job = j
    BY <1>6
  <1>8. CASE x = Interactive
    <2>1. i \in DOMAIN r[x] /\ r[x][i] = q[x][i]
      BY <1>1, <1>2, <1>3, <1>7, <1>8
    <2> QED  BY <1>7, <2>1 DEF InQueue
  <1>9. CASE x = Historical
    <2>1. i \in 1 .. Len(h) /\ h[i].job = j
      BY <1>1, <1>4, <1>7, <1>9
    <2>2. CASE i < m
      <3>1. i \in 1 .. Len(h) - 1 /\ r[x][i] = h[i]
        BY <1>4, <1>5, <1>9, <2>1, <2>2
      <3> QED  BY <1>5, <1>9, <2>1, <3>1 DEF InQueue
    <2>3. CASE i = m
      <3>1. Len(a) + 1 \in DOMAIN r[Interactive] /\ r[Interactive][Len(a) + 1] = u
        BY <1>2, <1>3
      <3> QED  BY <1>0, <1>1, <2>1, <2>3, <3>1 DEF InQueue
    <2>4. CASE i > m
      <3>1. i - 1 \in 1 .. Len(h) - 1 /\ ~(i - 1 < m) /\ (i - 1) + 1 = i
        BY <1>4, <2>1, <2>4
      <3>2. r[x][i - 1] = h[i]
        BY <1>4, <1>5, <1>9, <3>1
      <3> QED  BY <1>5, <1>9, <2>1, <3>1, <3>2 DEF InQueue
    <2> QED  BY <1>4, <2>1, <2>2, <2>3, <2>4
  <1> QED
    BY <1>0, <1>8, <1>9

\* Adding tasks keeps every job there, and adds theirs.
LEMMA ConcatKeeps ==
    ASSUME NEW q \in Queues, NEW p \in Priorities, NEW l \in Seq(Tasks),
           NEW r, r[p] = q[p] \o l, \A x \in Priorities \ {p} : r[x] = q[x]
    PROVE  \A j : InQueue(q, j) \/ j \in JobsOf(l) => InQueue(r, j)
  <1>1. PICK s \in Seq(Tasks) : s = q[p]
    BY DEF Queues
  <1>2. /\ s \o l \in Seq(Tasks) /\ Len(s \o l) = Len(s) + Len(l)
        /\ \A k \in 1 .. Len(s) + Len(l) : (s \o l)[k] = IF k <= Len(s) THEN s[k] ELSE l[k - Len(s)]
        /\ Len(s) \in Nat /\ Len(l) \in Nat /\ DOMAIN s = 1 .. Len(s) /\ DOMAIN l = 1 .. Len(l)
    BY ConcatProperties
  <1>3. r[p] = s \o l /\ DOMAIN r[p] = 1 .. Len(s) + Len(l)
    BY <1>1, <1>2
  <1>4. ASSUME NEW j, InQueue(q, j) PROVE InQueue(r, j)
    <2>1. PICK x \in Priorities : \E i \in DOMAIN q[x] : q[x][i].job = j
      BY <1>4 DEF InQueue
    <2>2. PICK i \in DOMAIN q[x] : q[x][i].job = j
      BY <2>1
    <2>3. i \in DOMAIN r[x] /\ r[x][i] = q[x][i]
      <3>1. CASE x = p
        <4>1. i \in 1 .. Len(s) /\ q[x][i] = s[i]
          BY <1>1, <1>2, <2>2, <3>1
        <4>2. i \in 1 .. Len(s) + Len(l) /\ i <= Len(s)
          BY <1>2, <4>1
        <4> QED  BY <1>2, <1>3, <3>1, <4>1, <4>2
      <3>2. CASE x # p
        BY <2>2, <3>2
      <3> QED  BY <3>1, <3>2
    <2> QED  BY <2>2, <2>3 DEF InQueue
  <1>5. ASSUME NEW j \in JobsOf(l) PROVE InQueue(r, j)
    <2>1. PICK i \in 1 .. Len(l) : l[i].job = j
      BY <1>2, <1>5 DEF JobsOf
    <2>2. Len(s) + i \in 1 .. Len(s) + Len(l) /\ ~(Len(s) + i <= Len(s)) /\ (Len(s) + i) - Len(s) = i
      BY <1>2
    <2>3. Len(s) + i \in DOMAIN r[p] /\ r[p][Len(s) + i] = l[i]
      BY <1>2, <1>3, <2>2
    <2> QED  BY <2>1, <2>3 DEF InQueue
  <1> QED
    BY <1>4, <1>5

-----------------------------------------------------------------------------
(* What StartNew adds.                                                      *)

\* New jobs have the identifiers from nextId on and other games than the live jobs; each
\* waits with a task of its own, or is complete because its game was found analysed.
LEMMA StartNewAdds ==
    ASSUME TypeInv, NEW c \in Clients, StartNew(c)
    PROVE  \E new \in SUBSET Nat, l \in Seq(Tasks) :
             /\ DOMAIN jobs' = DOMAIN jobs \cup new
             /\ \A j \in DOMAIN jobs : jobs'[j] = jobs[j] /\ j \notin new
             /\ \A j \in new : /\ jobs'[j].game \in NewGames(request[c].games)
                               /\ \/ jobs'[j].status = "queued" /\ j \in JobsOf(l)
                                  \/ /\ jobs'[j].status = "complete"
                                     /\ jobs'[j].game \in request[c].complete
             /\ queues' = [queues EXCEPT ![request[c].prio] = queues[request[c].prio] \o l]
             /\ Len(l) = NewTasks(request[c]) /\ \A i \in DOMAIN l : l[i].prio = request[c].prio
  <1> DEFINE r == request[c]
  <1>0. /\ TypeOK /\ JobsTypeOK /\ r.games \subseteq Games /\ r.prio \in Priorities
    BY RequestKinds DEF TypeInv, TypeOK, StartNew, Starting
  <1>1. PICK todo \in Orders(r), done \in SetToSeqs(NewGames(r.games) \cap r.complete) :
          LET new == NewJobs(r, todo \o done) IN
          /\ jobs' = [j \in DOMAIN jobs \cup DOMAIN new |->
                         IF j \in DOMAIN new THEN new[j] ELSE jobs[j]]
          /\ queues' = [queues EXCEPT ![r.prio] = @ \o TasksFor(r, todo)]
    BY DEF StartNew
  <1> DEFINE order == todo \o done
             made == NewJobs(r, order)
             l == TasksFor(r, todo)
             last == nextId + Len(order) - 1
  <1>2. /\ todo \in Seq(Games) /\ order \in Seq(Games)
        /\ Len(todo) <= Len(order) /\ Len(todo) = NewTasks(r)
        /\ \A i \in 1 .. Len(order) : order[i] \in NewGames(r.games)
                                      /\ (i > Len(todo) => order[i] \in r.complete)
    BY <1>0, <1>1, NewOrder, ConstantsOK
  <1>3. /\ Len(order) \in Nat /\ Len(todo) \in Nat /\ nextId \in Nat \ {0}
        /\ DOMAIN todo = 1 .. Len(todo)
        /\ DOMAIN jobs \subseteq 1 .. nextId - 1
    <2> HIDE DEF order
    <2> QED  BY <1>0, <1>2, LenProperties DEF JobsTypeOK
  <1> HIDE DEF r, order
  <1>4. /\ DOMAIN made = nextId .. last
        /\ \A j \in nextId .. last :
              LET i == j - nextId + 1 IN
              /\ i \in 1 .. Len(order) /\ made[j].game = order[i]
              /\ made[j].status = IF order[i] \in r.complete THEN "complete" ELSE "queued"
    BY <1>3 DEF NewJobs
  <1>5. /\ l \in Seq(Tasks) /\ DOMAIN l = 1 .. Len(todo) /\ Len(l) = Len(todo)
        /\ \A i \in DOMAIN l : l[i].job = nextId + i - 1 /\ l[i].prio = r.prio
    <2>1. ASSUME NEW i \in 1 .. Len(todo)
          PROVE  NewTask(nextId + i - 1, todo[i] \in r.shallow, r.prio) \in Tasks
      <3>1. nextId + i - 1 \in Nat /\ (todo[i] \in r.shallow) \in BOOLEAN
        BY <1>3
      <3> QED  BY <1>0, <3>1, NewTaskType
    <2>2. l \in Seq(Tasks) /\ DOMAIN l = 1 .. Len(todo)
      BY <1>3, <2>1 DEF TasksFor
    <2>3. Len(l) = Len(todo)
      BY <1>3, <2>2, LenProperties
    <2>4. \A i \in DOMAIN l : l[i].job = nextId + i - 1 /\ l[i].prio = r.prio
      BY <1>3, <2>2 DEF TasksFor, NewTask
    <2> QED  BY <2>2, <2>3, <2>4
  <1>6. /\ DOMAIN jobs' = DOMAIN jobs \cup (nextId .. last)
        /\ \A j \in DOMAIN jobs : jobs'[j] = jobs[j] /\ j \notin nextId .. last
        /\ \A j \in nextId .. last : jobs'[j] = made[j]
    <2>1. \A j \in DOMAIN jobs : j \notin nextId .. last
      BY <1>3
    <2>2. jobs' = [j \in DOMAIN jobs \cup DOMAIN made |-> IF j \in DOMAIN made THEN made[j] ELSE jobs[j]]
      BY <1>1 DEF order
    <2> HIDE DEF made, last
    <2> QED  BY <1>4, <2>1, <2>2
  <1>7. queues' = [queues EXCEPT ![r.prio] = queues[r.prio] \o l]
    BY <1>1
  <1>8. ASSUME NEW j \in nextId .. last
        PROVE  /\ jobs'[j].game \in NewGames(r.games)
               /\ \/ jobs'[j].status = "queued" /\ j \in JobsOf(l)
                  \/ jobs'[j].status = "complete" /\ jobs'[j].game \in r.complete
    <2> DEFINE i == j - nextId + 1
    <2>1. /\ i \in 1 .. Len(order) /\ jobs'[j].game = order[i]
          /\ jobs'[j].status = IF order[i] \in r.complete THEN "complete" ELSE "queued"
      <3> HIDE DEF made
      <3> QED  BY <1>4, <1>6
    <2>2. jobs'[j].game \in NewGames(r.games)
      <3> HIDE DEF i
      <3> QED  BY <1>2, <2>1
    <2>3. CASE order[i] \in r.complete
      BY <2>1, <2>2, <2>3
    <2>4. CASE order[i] \notin r.complete
      <3>1. i \in 1 .. Len(todo)
        BY <1>2, <1>3, <2>1, <2>4
      <3>2. l[i].job = j /\ i \in DOMAIN l
        <4> HIDE DEF l
        <4> QED  BY <1>3, <1>5, <3>1
      <3>3. j \in JobsOf(l)
        BY <3>2 DEF JobsOf
      <3> QED  BY <2>1, <2>2, <2>4, <3>3
    <2> QED  BY <2>3, <2>4
  <1>9. nextId .. last \in SUBSET Nat
    BY <1>3
  <1> HIDE DEF l, last, made
  <1>10. PICK new, tasks : new = nextId .. last /\ tasks = l
    OBVIOUS
  <1>11. new \in SUBSET Nat /\ tasks \in Seq(Tasks)
    BY <1>5, <1>9, <1>10
  <1>12. /\ DOMAIN jobs' = DOMAIN jobs \cup new
         /\ \A j \in DOMAIN jobs : jobs'[j] = jobs[j] /\ j \notin new
    BY <1>6, <1>10
  <1>13. \A j \in new : /\ jobs'[j].game \in NewGames(request[c].games)
                        /\ \/ jobs'[j].status = "queued" /\ j \in JobsOf(tasks)
                           \/ /\ jobs'[j].status = "complete"
                              /\ jobs'[j].game \in request[c].complete
    BY <1>8, <1>10 DEF r
  <1>14. /\ queues' = [queues EXCEPT ![request[c].prio] = queues[request[c].prio] \o tasks]
         /\ Len(tasks) = NewTasks(request[c])
         /\ \A i \in DOMAIN tasks : tasks[i].prio = request[c].prio
    BY <1>2, <1>5, <1>7, <1>10 DEF r
  <1> QED
    BY <1>11, <1>12, <1>13, <1>14

-----------------------------------------------------------------------------
(* No job is forgotten.                                                     *)

\* A step that ends no execution, drops no job from the queues and leaves every status.
LEMMA StillThere ==
    ASSUME NoStrandedJob, DOMAIN jobs' = DOMAIN jobs,
           \A j \in DOMAIN jobs : jobs'[j].status = jobs[j].status,
           \A j : InQueue(queues, j) => InQueue(queues', j),
           \A w \in Workers : Executing(w) => Executing(w)' /\ task'[w] = task[w]
    PROVE  NoStrandedJob'
  <1>1. \A j \in DOMAIN jobs : jobs[j].status = "queued" => InQueue(queues, j)
    BY DEF NoStrandedJob, Waiting, InQueue
  <1>2. \A j \in DOMAIN jobs' : jobs'[j].status = "queued" => Waiting(j)'
    BY <1>1 DEF Waiting, InQueue
  <1> QED
    BY <1>2 DEF NoStrandedJob

\* The worker that ends an execution decides the job, or queues it again.
LEMMA EndsDecided ==
    ASSUME TypeInv, NoStrandedJob, NEW w \in Workers, Executing(w),
           \A v \in Workers \ {w} : wpc'[v] = wpc[v] /\ task'[v] = task[v],
           NEW s \in Statuses \ {"running"}, jobs' = [jobs EXCEPT ![task[w].job].status = s],
           IF s = "queued" THEN \E t \in Tasks : t.job = task[w].job /\ Enqueue(t)
           ELSE UNCHANGED queues
    PROVE  NoStrandedJob'
  <1> DEFINE j == task[w].job
  <1>1. /\ j \in DOMAIN jobs /\ queues \in Queues
        /\ \A k \in DOMAIN jobs : jobs[k] \in Jobs
        /\ \A k \in DOMAIN jobs : jobs[k].status = "queued" => InQueue(queues, k)
    <2>1. /\ j \in DOMAIN jobs /\ queues \in Queues
          /\ \A k \in DOMAIN jobs : jobs[k] \in Jobs
      BY DEF TypeInv, TypeOK, JobsTypeOK, QueuesTypeOK, Queues, KnowsJob, Executing, ExecutingAt
    <2>2. \A k \in DOMAIN jobs : jobs[k].status = "queued" => InQueue(queues, k)
      BY DEF NoStrandedJob, Waiting, InQueue
    <2> QED  BY <2>1, <2>2
  <1>2. /\ DOMAIN jobs' = DOMAIN jobs /\ jobs'[j].status = s
        /\ \A k \in DOMAIN jobs \ {j} : jobs'[k] = jobs[k]
    BY <1>1 DEF Jobs
  <1> HIDE DEF j
  <1>3. /\ \A k : InQueue(queues, k) => InQueue(queues', k)
        /\ s = "queued" => InQueue(queues', j)
    <2>1. CASE s = "queued"
      <3>1. PICK t \in Tasks : t.job = j /\ queues' = [queues EXCEPT ![t.prio] = Append(@, t)]
        BY <2>1 DEF Enqueue, j
      <3>2. t.prio \in Priorities
        BY DEF Tasks
      <3>3. PICK r : r = queues'
        OBVIOUS
      <3>4. r[t.prio] = Append(queues[t.prio], t) /\ \A x \in Priorities \ {t.prio} : r[x] = queues[x]
        BY <1>1, <3>1, <3>2, <3>3 DEF Queues
      <3>5. InQueue(r, t.job) /\ \A k : InQueue(queues, k) => InQueue(r, k)
        BY <1>1, <3>4, AppendKeeps
      <3> QED  BY <3>1, <3>3, <3>5
    <2>2. CASE s # "queued"
      BY <2>2
    <2> QED  BY <2>1, <2>2
  <1>4. \A k \in DOMAIN jobs' : jobs'[k].status = "queued" => Waiting(k)'
    <2>1. \A k \in DOMAIN jobs' : jobs'[k].status = "queued" => InQueue(queues', k)
      BY <1>1, <1>2, <1>3
    <2> QED  BY <2>1 DEF Waiting, InQueue
  <1>5. ASSUME NEW k \in DOMAIN jobs', jobs'[k].status = "running"
        PROVE  \E v \in Workers : Executing(v)' /\ task'[v].job = k
    <2>1. k # j /\ jobs[k].status = "running" /\ k \in DOMAIN jobs
      BY <1>2, <1>5
    <2>2. PICK v \in Workers : Executing(v) /\ task[v].job = k
      BY <2>1 DEF NoStrandedJob
    <2>3. v # w
      BY <2>1, <2>2 DEF j
    <2> QED  BY <2>2, <2>3 DEF Executing
  <1> QED
    BY <1>4, <1>5 DEF NoStrandedJob

LEMMA StrandWorker ==
    ASSUME TypeInv, NoStrandedJob, NEW w \in Workers, WorkerStep(w) PROVE NoStrandedJob'
  <1>0. /\ wpc \in [Workers -> WorkerAt] /\ task \in [Workers -> Tasks]
        /\ KnowsJob /\ queues \in Queues
        /\ \A j \in DOMAIN jobs : jobs[j] \in Jobs
    BY DEF TypeInv, TypeOK, WorkerTypeOK, QueuesTypeOK, Queues, JobsTypeOK
  <1>1. CASE Take(w)
    <2>1. TypeOK
      BY DEF TypeInv
    <2>2. PICK p \in Priorities, t \in Tasks, u \in Tasks : TakesTask(w, p, t, u)
      BY <1>1, <2>1, TakeEffect
    <2>3. /\ queues[p] # <<>> /\ t = Head(queues[p])
          /\ queues'[p] = Tail(queues[p]) /\ \A x \in Priorities \ {p} : queues'[x] = queues[x]
      BY <1>0, <2>2 DEF TakesTask, Queues
    <2>4. ASSUME NEW k, k # t.job, InQueue(queues, k) PROVE InQueue(queues', k)
      <3>1. PICK r : r = queues'
        OBVIOUS
      <3>2. r[p] = Tail(queues[p]) /\ \A x \in Priorities \ {p} : r[x] = queues[x]
        BY <2>3, <3>1
      <3>3. InQueue(r, k)
        BY <1>0, <2>3, <2>4, <3>2, TailKeeps
      <3> QED  BY <3>1, <3>3
    <2>5. /\ t.job \in DOMAIN jobs /\ DOMAIN jobs' = DOMAIN jobs
          /\ \A k \in DOMAIN jobs \ {t.job} : jobs'[k] = jobs[k]
          /\ jobs'[t.job].status = "running"
      BY <1>0, <2>2 DEF TakesTask, Jobs
    <2>6. /\ wpc[w] = "idle" /\ wpc'[w] = "announce" /\ task'[w].job = t.job
          /\ \A v \in Workers \ {w} : wpc'[v] = wpc[v] /\ task'[v] = task[v]
      BY <1>0, <2>2 DEF TakesTask
    <2>7. Executing(w)' /\ \A v \in Workers : Executing(v) => Executing(v)' /\ task'[v] = task[v]
      BY <2>6 DEF Executing, ExecutingAt
    <2>8. \A k \in DOMAIN jobs' : jobs'[k].status = "queued" => Waiting(k)'
      <3>1. \A k \in DOMAIN jobs : jobs[k].status = "queued" => InQueue(queues, k)
        BY DEF NoStrandedJob, Waiting, InQueue
      <3>2. \A k \in DOMAIN jobs' : jobs'[k].status = "queued" => InQueue(queues', k)
        BY <2>4, <2>5, <3>1
      <3> QED  BY <3>2 DEF Waiting, InQueue
    <2>9. \A k \in DOMAIN jobs' : jobs'[k].status = "running" =>
              \E v \in Workers : Executing(v)' /\ task'[v].job = k
      BY <2>5, <2>6, <2>7 DEF NoStrandedJob
    <2> QED  BY <2>8, <2>9 DEF NoStrandedJob
  <1>2. CASE Discard(w)
    <2> DEFINE p == BestQueue
               t == Head(queues[p])
    <2>1. /\ queues' = [queues EXCEPT ![p] = Tail(@)] /\ queues[p] # <<>> /\ ~Wanted(t)
          /\ UNCHANGED <<jobs, wpc, task>> /\ p \in Priorities
      BY <1>2, PriorityFacts DEF Discard, CanTake, Servable, workerVars
    <2> HIDE DEF p
    <2>2. queues'[p] = Tail(queues[p]) /\ \A x \in Priorities \ {p} : queues'[x] = queues[x]
      BY <1>0, <2>1 DEF Queues
    <2>3. ASSUME NEW k, k # t.job, InQueue(queues, k) PROVE InQueue(queues', k)
      <3>1. PICK r : r = queues'
        OBVIOUS
      <3>2. r[p] = Tail(queues[p]) /\ \A x \in Priorities \ {p} : r[x] = queues[x]
        BY <2>2, <3>1
      <3>3. InQueue(r, k)
        BY <1>0, <2>1, <2>3, <3>2, TailKeeps
      <3> QED  BY <3>1, <3>3
    <2>4. \A k \in DOMAIN jobs : jobs[k].status = "queued" => InQueue(queues', k)
      <3>1. \A k \in DOMAIN jobs : jobs[k].status = "queued" => InQueue(queues, k)
        BY DEF NoStrandedJob, Waiting, InQueue
      <3>2. \A k \in DOMAIN jobs : jobs[k].status = "queued" => k # t.job
        BY <2>1 DEF Wanted
      <3> HIDE DEF t
      <3> QED  BY <2>3, <3>1, <3>2
    <2>5. \A k \in DOMAIN jobs' : jobs'[k].status = "queued" => Waiting(k)'
      BY <2>1, <2>4 DEF Waiting, InQueue
    <2> QED  BY <2>1, <2>5 DEF NoStrandedJob, Executing
  <1>3. CASE \/ Announce(w) \/ Look(w) \/ Analyze(w) \/ AnalyzeThrows(w) \/ SaveThrows(w) \/ RecordRequeued(w)
             \/ RecordRequeuedThrows(w) \/ Snapshot(w)
    <2>1. UNCHANGED <<jobs, queues, task>>
      BY <1>3 DEF Announce, Look, Analyze, AnalyzeThrows, SaveThrows, RecordRequeued, RecordRequeuedThrows,
                  Snapshot, queueVars
    <2>2. \A v \in Workers : Executing(v) => Executing(v)'
      BY <1>0, <1>3 DEF Announce, Look, Analyze, AnalyzeThrows, SaveThrows, RecordRequeued,
                  RecordRequeuedThrows, Snapshot, Throws, Goto, Executing, ExecutingAt
    <2> QED  BY <2>1, <2>2, StillThere
  <1>4. CASE Finish(w) \/ Record(w)
    <2>1. UNCHANGED <<jobs, queues>>
      BY <1>4 DEF Finish, Record, queueVars
    <2>2. \A v \in Workers : Executing(v) => Executing(v)' /\ task'[v] = task[v]
      BY <1>0, <1>4 DEF Finish, Record, Goto, Executing, ExecutingAt
    <2> QED  BY <2>1, <2>2, StillThere
  <1>5. CASE Found(w) \/ CommitDeep(w) \/ CommitShallow(w) \/ Catch(w)
    <2>1. Executing(w) /\ \A v \in Workers \ {w} : wpc'[v] = wpc[v] /\ task'[v] = task[v]
      BY <1>0, <1>5 DEF Found, CommitDeep, CommitShallow, Catch, Goto, Executing, ExecutingAt
    <2>2. task[w].job \in DOMAIN jobs /\ task[w] \in Tasks
      BY <1>0, <2>1 DEF KnowsJob, Executing, ExecutingAt
    <2>3. CASE Found(w) \/ CommitDeep(w)
      <3>1. UNCHANGED queues /\ jobs' = [jobs EXCEPT ![task[w].job].status = "complete"]
        BY <2>3 DEF Found, CommitDeep
      <3>2. "complete" \in Statuses \ {"running"}
        BY StatusFacts
      <3> QED  BY <2>1, <3>1, <3>2, EndsDecided
    <2>4. CASE CommitShallow(w)
      <3>1. /\ jobs' = [jobs EXCEPT ![task[w].job].status = "queued"]
            /\ Enqueue(NewTask(task[w].job, TRUE, task[w].prio))
        BY <2>4 DEF CommitShallow
      <3>2. NewTask(task[w].job, TRUE, task[w].prio) \in Tasks
        BY <2>2, NewTaskType DEF Tasks
      <3>3. \E t \in Tasks : t.job = task[w].job /\ Enqueue(t)
        BY <3>1, <3>2 DEF NewTask
      <3>4. "queued" \in Statuses \ {"running"}
        BY StatusFacts
      <3> QED  BY <2>1, <3>1, <3>3, <3>4, EndsDecided
    <2>5. CASE Catch(w)
      <3>1. PICK s : s = CatchStatus(w)
        OBVIOUS
      <3>2. s \in Statuses \ {"running"}
        BY <3>1, StatusFacts DEF CatchStatus
      <3>3. /\ jobs' = [jobs EXCEPT ![task[w].job].status = s]
            /\ IF s = "queued" THEN Requeue(w) ELSE UNCHANGED queues
        BY <2>5, <3>1 DEF Catch
      <3>4. Requeue(w) => \E t \in Tasks : t.job = task[w].job /\ Enqueue(t)
        <4>1. [task[w] EXCEPT !.prio = jobs[task[w].job].prio, !.src = Unshared] \in Tasks
          BY <1>0, <2>2 DEF Tasks, Jobs
        <4>2. task[w].attempts + 1 \in Nat
          BY <2>2 DEF Tasks
        <4>3. [task[w] EXCEPT !.attempts = @ + 1] \in Tasks
          BY <2>2, <4>2 DEF Tasks
        <4>4. CASE Preempted(w)
          BY <2>2, <4>1, <4>4 DEF Requeue, Tasks
        <4>5. CASE ~Preempted(w)
          BY <2>2, <4>3, <4>5 DEF Requeue, Tasks
        <4> QED  BY <4>4, <4>5
      <3> QED  BY <2>1, <3>2, <3>3, <3>4, EndsDecided
    <2> QED  BY <1>5, <2>3, <2>4, <2>5
  <1> QED
    BY <1>1, <1>2, <1>3, <1>4, <1>5 DEF WorkerStep

LEMMA StrandClient ==
    ASSUME TypeInv, NoStrandedJob, NEW c \in Clients, ClientCalls(c) \/ ClientProceeds(c)
    PROVE  NoStrandedJob'
  <1>0. /\ queues \in Queues /\ \A j \in DOMAIN jobs : jobs[j] \in Jobs
        /\ UNCHANGED <<wpc, task>>
    BY ClientFrame DEF TypeInv, TypeOK, QueuesTypeOK, Queues, JobsTypeOK
  <1>1. \A w \in Workers : (Executing(w)' <=> Executing(w)) /\ task'[w] = task[w]
    BY <1>0 DEF Executing
  <1>2. \A k \in DOMAIN jobs : jobs[k].status = "queued" => InQueue(queues, k)
    BY DEF NoStrandedJob, Waiting, InQueue
  <1>3. CASE \/ CallStart(c) \/ CallBatch(c) \/ RejectNew(c) \/ RecordNext(c) \/ Return(c)
             \/ SetPaused(c) \/ StorePaused(c)
    <2>1. UNCHANGED <<jobs, queues>>
      BY <1>3 DEF CallStart, CallBatch, ReadGames, RejectNew, RecordNext, Return, SetPaused,
                  StorePaused, queueVars
    <2> QED  BY <1>1, <2>1, StillThere
  <1>4. CASE StartNew(c)
    <2>1. PICK new \in SUBSET Nat, l \in Seq(Tasks) :
             /\ DOMAIN jobs' = DOMAIN jobs \cup new
             /\ \A j \in DOMAIN jobs : jobs'[j] = jobs[j] /\ j \notin new
             /\ \A j \in new : /\ jobs'[j].game \in NewGames(request[c].games)
                               /\ \/ jobs'[j].status = "queued" /\ j \in JobsOf(l)
                                  \/ /\ jobs'[j].status = "complete"
                                     /\ jobs'[j].game \in request[c].complete
             /\ queues' = [queues EXCEPT ![request[c].prio] = queues[request[c].prio] \o l]
             /\ Len(l) = NewTasks(request[c]) /\ \A i \in DOMAIN l : l[i].prio = request[c].prio
      BY <1>4, StartNewAdds
    <2>2. PICK p \in Priorities : p = request[c].prio
      BY <1>4, RequestKinds DEF TypeInv, TypeOK, StartNew, Starting
    <2>8. PICK r : r = queues'
      OBVIOUS
    <2>3. r[p] = queues[p] \o l /\ \A x \in Priorities \ {p} : r[x] = queues[x]
      BY <1>0, <2>1, <2>2, <2>8 DEF Queues
    <2>4. \A j : InQueue(queues, j) \/ j \in JobsOf(l) => InQueue(r, j)
      BY <1>0, <2>3, ConcatKeeps
    <2>5. \A k \in DOMAIN jobs' : jobs'[k].status = "queued" => InQueue(queues', k)
      BY <1>2, <2>1, <2>2, <2>4, <2>8
    <2>6. \A k \in DOMAIN jobs' : jobs'[k].status = "queued" => Waiting(k)'
      BY <2>5 DEF Waiting, InQueue
    <2>7. \A k \in DOMAIN jobs' : jobs'[k].status = "running" =>
              k \in DOMAIN jobs /\ jobs[k].status = "running"
      BY <2>1
    <2> QED  BY <1>1, <2>6, <2>7 DEF NoStrandedJob
  <1>5. CASE StartExisting(c) \/ RejectExisting(c)
    <2>1. PICK j \in DOMAIN jobs : Promote(j)
      BY <1>5 DEF StartExisting, RejectExisting
    <2>2. /\ DOMAIN jobs' = DOMAIN jobs
          /\ \A k \in DOMAIN jobs : jobs'[k].status = jobs[k].status
      BY <1>0, <2>1 DEF Promote, Jobs
    <2>3. \A k : InQueue(queues, k) => InQueue(queues', k)
      <3>1. CASE queues' # queues
        <4>1. PICK i, u :
                 /\ i \in DOMAIN queues[Historical]
                 /\ u = [queues[Historical][i] EXCEPT !.prio = Interactive]
                 /\ queues' = [queues EXCEPT ![Historical]  = RemoveAt(@, i),
                                             ![Interactive] = Append(@, u)]
          BY <2>1, <3>1 DEF Promote, MoveTask
        <4>2. u \in Tasks /\ u.job = queues[Historical][i].job
          <5>1. queues[Historical][i] \in Tasks
            BY <1>0, <4>1, PriorityFacts DEF Queues
          <5> QED  BY <4>1, <5>1, PriorityFacts DEF Tasks
        <4>3. PICK r : r = queues'
          OBVIOUS
        <4>4. /\ r[Historical] = RemoveAt(queues[Historical], i)
              /\ r[Interactive] = Append(queues[Interactive], u)
          BY <1>0, <4>1, <4>3, PriorityFacts DEF Queues
        <4>5. ASSUME NEW k, InQueue(queues, k) PROVE InQueue(r, k)
          BY <1>0, <4>1, <4>2, <4>4, <4>5, MoveKeeps
        <4> QED  BY <4>3, <4>5
      <3> QED  BY <3>1
    <2> QED  BY <1>1, <2>2, <2>3, StillThere
  <1>6. CASE Cancel(c)
    <2>1. PICK j \in DOMAIN jobs :
             jobs' = [jobs EXCEPT ![j].stop = TRUE, ![j].status = CancelStatus(j)]
             /\ jobs[j].status \in Undecided
      BY <1>6 DEF Cancel
    <2>2. PICK s : s = CancelStatus(j)
      OBVIOUS
    <2>3. jobs' = [jobs EXCEPT ![j] = [@ EXCEPT !.stop = TRUE, !.status = s]]
      BY <1>0, <2>1, <2>2
    <2>4. /\ DOMAIN jobs' = DOMAIN jobs /\ \A k \in DOMAIN jobs \ {j} : jobs'[k] = jobs[k]
          /\ jobs'[j].status = s
      BY <1>0, <2>3 DEF Jobs
    <2>5. s = "cancelled" \/ (s = "running" /\ jobs[j].status = "running")
      BY <2>1, <2>2 DEF CancelStatus, Undecided
    <2>6. \A k \in DOMAIN jobs' : /\ jobs'[k].status = "queued" => InQueue(queues', k)
                                  /\ jobs'[k].status = "running" => jobs[k].status = "running"
      BY <1>2, <1>6, <2>4, <2>5 DEF Cancel
    <2>7. \A k \in DOMAIN jobs' : jobs'[k].status = "queued" => Waiting(k)'
      BY <2>6 DEF Waiting, InQueue
    <2> QED  BY <1>1, <2>4, <2>6, <2>7 DEF NoStrandedJob
  <1> QED
    BY <1>3, <1>4, <1>5, <1>6 DEF ClientCalls, ClientProceeds

LEMMA StrandProcess == ASSUME TypeInv, NoStrandedJob, Process PROVE NoStrandedJob'
  <1>1. CASE Die
    <2>1. DOMAIN jobs' = {}
      BY <1>1 DEF Die
    <2> QED  BY <2>1 DEF NoStrandedJob
  <1>2. CASE Shutdown
    <2>1. /\ UNCHANGED <<queues, wpc, task>> /\ DOMAIN jobs' = DOMAIN jobs
          /\ \A j \in DOMAIN jobs : jobs'[j].status = jobs[j].status
      BY <1>2 DEF Shutdown, workerVars, TypeInv, TypeOK, JobsTypeOK, Jobs
    <2>2. \A w \in Workers : Executing(w) => Executing(w)'
      BY <2>1 DEF Executing
    <2> QED  BY <2>1, <2>2, StillThere
  <1>3. CASE Boot
    <2>1. PICK order \in SetToSeqs(Recoverable) :
         /\ jobs' = [j \in 1 .. Len(order) |->
                        [game |-> order[j], status |-> "queued", stop |-> FALSE,
                         prio |-> Historical]]
         /\ queues' = [queues EXCEPT ![Historical] =
                        [j \in 1 .. Len(order) |->
                            NewTask(j, order[j] \in shallow, Historical)]]
      BY <1>3 DEF Boot
    <2>2. queues \in [Priorities -> Seq(Tasks)]
      BY DEF TypeInv, TypeOK, QueuesTypeOK
    <2>3. /\ DOMAIN queues'[Historical] = 1 .. Len(order)
          /\ \A i \in 1 .. Len(order) : queues'[Historical][i].job = i
      BY <2>1, <2>2, PriorityFacts DEF NewTask
    <2>4. DOMAIN jobs' = 1 .. Len(order) /\ \A j \in DOMAIN jobs' : jobs'[j].status = "queued"
      BY <2>1
    <2>5. \A j \in DOMAIN jobs' : InQueue(queues', j)
      BY <2>3, <2>4, PriorityFacts DEF InQueue
    <2>6. \A j \in DOMAIN jobs' : Waiting(j)'
      BY <2>5 DEF Waiting, InQueue
    <2> QED  BY <2>4, <2>6 DEF NoStrandedJob
  <1>4. CASE BootFails
    <2>1. UNCHANGED <<jobs, queues, wpc, task>>
      BY <1>4 DEF BootFails, queueVars, workerVars
    <2>2. \A w \in Workers : Executing(w) => Executing(w)'
      BY <2>1 DEF Executing
    <2> QED  BY <2>1, <2>2, StillThere
  <1> QED
    BY <1>1, <1>2, <1>3, <1>4 DEF Process, Crash, RecordKills, Joined

LEMMA StrandedNext == TypeInv /\ NoStrandedJob /\ [Next]_vars => NoStrandedJob'
  <1> SUFFICES ASSUME TypeInv, NoStrandedJob, [Next]_vars PROVE NoStrandedJob'
    OBVIOUS
  <1>1. CASE UNCHANGED vars
    BY <1>1 DEF vars, queueVars, workerVars, NoStrandedJob, Waiting, Executing
  <1> QED
    BY <1>1, StrandWorker, StrandClient, StrandProcess DEF Next

\* Whatever is started, promoted, preempted, cancelled or retried, and whichever write fails:
\* a queued job has its task, and a running job the worker that will settle it (work and
\* take_unlocked, with start, cancel and promote_unlocked between their critical sections).
THEOREM NothingStranded == Spec => []NoStrandedJob
  <1>1. Init => TypeInv /\ NoStrandedJob
    <2>1. Init => NoStrandedJob
      BY DEF Init, NoStrandedJob
    <2> QED  BY <2>1, TypeInvInit
  <1>2. TypeInv /\ NoStrandedJob /\ [Next]_vars => (TypeInv /\ NoStrandedJob)'
    BY TypeInvNext, StrandedNext
  <1> QED
    BY <1>1, <1>2, PTL DEF Spec

-----------------------------------------------------------------------------
(* The counters of active work.                                             *)

TasksOf(p) == {t \in Tasks : t.prio = p}

\* Each queue holds tasks of its own priority, so that take_unlocked and finish_task, which
\* read the priority of a task, mean the queue it came from.
QueuesSorted == \A p \in Priorities : queues[p] \in Seq(TasksOf(p))

LEMMA EnqueueSorted ==
    ASSUME TypeInv, QueuesSorted, NEW t \in Tasks, Enqueue(t) PROVE QueuesSorted'
  <1>1. t.prio \in Priorities /\ t \in TasksOf(t.prio) /\ queues \in [Priorities -> Seq(Tasks)]
    BY DEF TypeInv, TypeOK, QueuesTypeOK, Tasks, TasksOf
  <1>2. PICK p \in Priorities : p = t.prio
    BY <1>1
  <1>3. Append(queues[p], t) \in Seq(TasksOf(p))
    BY <1>1, <1>2 DEF QueuesSorted
  <1>4. queues' = [queues EXCEPT ![p] = Append(queues[p], t)]
    BY <1>2 DEF Enqueue
  <1> QED
    BY <1>1, <1>3, <1>4 DEF QueuesSorted

LEMMA TailSorted ==
    ASSUME TypeInv, QueuesSorted, NEW p \in Priorities, queues[p] # <<>>,
           queues' = [queues EXCEPT ![p] = Tail(@)]
    PROVE  QueuesSorted'
  <1>1. queues \in [Priorities -> Seq(Tasks)]
    BY DEF TypeInv, TypeOK, QueuesTypeOK
  <1>2. Tail(queues[p]) \in Seq(TasksOf(p))
    BY HeadTailType DEF QueuesSorted
  <1> QED
    BY <1>1, <1>2 DEF QueuesSorted

LEMMA SortedWorker ==
    ASSUME TypeInv, QueuesSorted, NEW w \in Workers, WorkerStep(w) PROVE QueuesSorted'
  <1>0. task \in [Workers -> Tasks] /\ KnowsJob /\ \A j \in DOMAIN jobs : jobs[j] \in Jobs
    BY DEF TypeInv, TypeOK, WorkerTypeOK, JobsTypeOK
  <1>1. CASE Take(w) \/ Discard(w)
    <2>1. PICK p \in Priorities : queues[p] # <<>> /\ queues' = [queues EXCEPT ![p] = Tail(@)]
      BY <1>1, PriorityFacts DEF Take, Discard, CanTake, Servable
    <2> QED  BY <2>1, TailSorted
  <1>2. CASE CommitShallow(w)
    <2>1. PICK t : t = NewTask(task[w].job, TRUE, task[w].prio)
      OBVIOUS
    <2>2. t \in Tasks
      BY <1>0, <2>1, NewTaskType DEF Tasks
    <2>3. Enqueue(t)
      BY <1>2, <2>1 DEF CommitShallow
    <2> QED  BY <2>2, <2>3, EnqueueSorted
  <1>3. CASE Catch(w)
    <2>1. task[w] \in Tasks /\ task[w].job \in DOMAIN jobs /\ task[w].attempts + 1 \in Nat
      BY <1>0, <1>3 DEF Catch, KnowsJob, Tasks
    <2>2. PICK t, u : /\ t = [task[w] EXCEPT !.prio = jobs[task[w].job].prio, !.src = Unshared]
                      /\ u = [task[w] EXCEPT !.attempts = @ + 1]
      OBVIOUS
    <2>3. t \in Tasks /\ u \in Tasks
      BY <1>0, <2>1, <2>2 DEF Tasks, Jobs
    <2>4. Enqueue(t) \/ Enqueue(u) \/ UNCHANGED queues
      BY <1>3, <2>2 DEF Catch, Requeue
    <2> QED  BY <2>3, <2>4, EnqueueSorted DEF QueuesSorted
  <1>4. CASE UNCHANGED queues
    BY <1>4 DEF QueuesSorted
  <1> QED
    BY <1>1, <1>2, <1>3, <1>4 DEF WorkerStep, Announce, Look, Found, Analyze, AnalyzeThrows, SaveThrows,
       CommitDeep, RecordRequeued, RecordRequeuedThrows, Finish, Snapshot, Record, queueVars

LEMMA SortedPromote ==
    ASSUME TypeInv, QueuesSorted, NEW j \in DOMAIN jobs, Promote(j) PROVE QueuesSorted'
  <1>1. queues \in [Priorities -> Seq(Tasks)]
    BY DEF TypeInv, TypeOK, QueuesTypeOK
  <1>2. CASE UNCHANGED queues
    BY <1>2 DEF QueuesSorted
  <1>3. CASE queues' # queues
    <2>1. PICK i, u : /\ i \in DOMAIN queues[Historical]
                      /\ u = [queues[Historical][i] EXCEPT !.prio = Interactive]
                      /\ queues' = [queues EXCEPT ![Historical]  = RemoveAt(@, i),
                                                  ![Interactive] = Append(@, u)]
      BY <1>3 DEF Promote, MoveTask
    <2>2. queues[Historical] \in Seq(TasksOf(Historical))
          /\ queues[Interactive] \in Seq(TasksOf(Interactive))
      BY PriorityFacts DEF QueuesSorted
    <2>3. u \in TasksOf(Interactive)
      <3>1. queues[Historical][i] \in Tasks
        BY <2>1, <2>2 DEF TasksOf
      <3> QED  BY <2>1, <3>1, PriorityFacts DEF Tasks, TasksOf
    <2>4. PICK h, a : h = RemoveAt(queues[Historical], i) /\ a = Append(queues[Interactive], u)
      OBVIOUS
    <2>5. h \in Seq(TasksOf(Historical))
      BY <2>1, <2>2, <2>4, RemoveAtFacts
    <2>6. a \in Seq(TasksOf(Interactive))
      BY <2>2, <2>3, <2>4
    <2>7. queues'[Historical] = h /\ queues'[Interactive] = a
      BY <1>1, <2>1, <2>4, PriorityFacts
    <2> QED  BY <2>5, <2>6, <2>7, PriorityFacts DEF QueuesSorted
  <1> QED
    BY <1>2, <1>3

LEMMA SortedNext == TypeInv /\ QueuesSorted /\ [Next]_vars => QueuesSorted'
  <1> SUFFICES ASSUME TypeInv, QueuesSorted, [Next]_vars PROVE QueuesSorted'
    OBVIOUS
  <1>0. queues \in [Priorities -> Seq(Tasks)]
    BY DEF TypeInv, TypeOK, QueuesTypeOK
  <1>1. ASSUME NEW w \in Workers, WorkerStep(w) PROVE QueuesSorted'
    BY <1>1, SortedWorker
  <1>2. ASSUME NEW c \in Clients, StartNew(c) PROVE QueuesSorted'
    <2>1. PICK new \in SUBSET Nat, l \in Seq(Tasks) :
             /\ DOMAIN jobs' = DOMAIN jobs \cup new
             /\ \A j \in DOMAIN jobs : jobs'[j] = jobs[j] /\ j \notin new
             /\ \A j \in new : /\ jobs'[j].game \in NewGames(request[c].games)
                               /\ \/ jobs'[j].status = "queued" /\ j \in JobsOf(l)
                                  \/ /\ jobs'[j].status = "complete"
                                     /\ jobs'[j].game \in request[c].complete
             /\ queues' = [queues EXCEPT ![request[c].prio] = queues[request[c].prio] \o l]
             /\ Len(l) = NewTasks(request[c]) /\ \A i \in DOMAIN l : l[i].prio = request[c].prio
      BY <1>2, StartNewAdds
    <2>2. PICK p \in Priorities : p = request[c].prio
      BY <1>2, RequestKinds DEF TypeInv, TypeOK, StartNew, Starting
    <2>3. l \in Seq(TasksOf(p))
      <3>1. /\ Len(l) \in Nat /\ l = [i \in 1 .. Len(l) |-> l[i]]
            /\ \A i \in 1 .. Len(l) : l[i] \in Tasks /\ i \in DOMAIN l
        OBVIOUS
      <3>2. \A i \in 1 .. Len(l) : l[i] \in TasksOf(p)
        BY <2>1, <2>2, <3>1 DEF TasksOf
      <3> QED  BY <3>1, <3>2
    <2>4. queues[p] \o l \in Seq(TasksOf(p))
      BY <2>3 DEF QueuesSorted
    <2>5. queues' = [queues EXCEPT ![p] = queues[p] \o l]
      BY <2>1, <2>2
    <2> QED  BY <1>0, <2>4, <2>5 DEF QueuesSorted
  <1>3. ASSUME NEW c \in Clients, StartExisting(c) \/ RejectExisting(c) PROVE QueuesSorted'
    BY <1>3, SortedPromote DEF StartExisting, RejectExisting
  <1>4. CASE UNCHANGED queues
    BY <1>4 DEF QueuesSorted
  <1>5. CASE Die
    BY <1>5 DEF Die, QueuesSorted
  <1>6. CASE Boot
    <2>1. PICK order \in SetToSeqs(Recoverable) :
             queues' = [queues EXCEPT ![Historical] =
                          [j \in 1 .. Len(order) |->
                              NewTask(j, order[j] \in shallow, Historical)]]
      BY <1>6 DEF Boot
    <2>2. Len(order) \in Nat
      BY SetToSeqsFacts, FS_Subset DEF Recoverable
    <2>3. ASSUME NEW j \in 1 .. Len(order)
          PROVE  NewTask(j, order[j] \in shallow, Historical) \in TasksOf(Historical)
      <3>1. (order[j] \in shallow) \in BOOLEAN /\ j \in Nat
        BY <2>2
      <3> QED  BY <3>1, NewTaskType, PriorityFacts DEF TasksOf, NewTask
    <2>4. [j \in 1 .. Len(order) |-> NewTask(j, order[j] \in shallow, Historical)]
             \in Seq(TasksOf(Historical))
      BY <2>2, <2>3
    <2> QED  BY <1>0, <2>1, <2>4 DEF QueuesSorted
  <1>7. ASSUME NEW c \in Clients,
               \/ CallStart(c) \/ CallBatch(c) \/ RejectNew(c) \/ RecordNext(c) \/ Return(c)
               \/ SetPaused(c) \/ StorePaused(c) \/ Cancel(c)
        PROVE  UNCHANGED queues
    BY <1>7 DEF CallStart, CallBatch, ReadGames, RejectNew, RecordNext, Return, SetPaused,
                StorePaused, Cancel, queueVars
  <1>8. Shutdown \/ BootFails \/ UNCHANGED vars => UNCHANGED queues
    BY DEF Shutdown, BootFails, vars, queueVars
  <1> QED
    BY <1>1, <1>2, <1>3, <1>4, <1>5, <1>6, <1>7, <1>8 DEF Next, ClientCalls, ClientProceeds,
       Process, Crash, RecordKills, Joined

CountedWith(p) == {w \in Workers : Counted(w) /\ task[w].prio = p}

\* A step that counts no worker and discounts none.
LEMMA CountKept ==
    ASSUME CountersExact, UNCHANGED activeBy,
           \A w \in Workers : /\ Counted(w)' <=> Counted(w)
                              /\ Counted(w) => task'[w].prio = task[w].prio
    PROVE  CountersExact'
  <1>1. \A p \in Priorities : CountedWith(p)' = CountedWith(p)
    BY DEF CountedWith
  <1> QED
    BY <1>1 DEF CountersExact, CountedWith

LEMMA CountWorker ==
    ASSUME TypeInv, QueuesSorted, CountersExact, NEW w \in Workers, WorkerStep(w)
    PROVE  CountersExact'
  <1>0. /\ wpc \in [Workers -> WorkerAt] /\ task \in [Workers -> Tasks]
        /\ activeBy \in [Priorities -> Int]
        /\ \A p \in Priorities : IsFiniteSet(CountedWith(p))
        /\ \A p \in Priorities : activeBy[p] = Cardinality(CountedWith(p))
    BY FS_Subset, ConstantsOK DEF TypeInv, TypeOK, WorkerTypeOK, QueuesTypeOK, CountedWith,
       CountersExact
  <1>1. CASE Take(w)
    <2>1. TypeOK
      BY DEF TypeInv
    <2>2. PICK p \in Priorities, t \in Tasks, u \in Tasks : TakesTask(w, p, t, u)
      BY <1>1, <2>1, TakeEffect
    <2>3. u.prio = p
      <3>1. queues[p] \in Seq(TasksOf(p)) /\ queues[p] # <<>>
        BY <2>2 DEF QueuesSorted, TakesTask
      <3>2. Head(queues[p]) \in TasksOf(p)
        BY <3>1, HeadTailType
      <3> QED  BY <2>2, <3>2 DEF TakesTask, TasksOf
    <2>4. /\ ~Counted(w) /\ Counted(w)' /\ task'[w] = u
          /\ \A v \in Workers \ {w} : (Counted(v)' <=> Counted(v)) /\ task'[v] = task[v]
      BY <1>0, <2>2 DEF TakesTask, Counted, Executing, ExecutingAt
    <2>5. /\ CountedWith(p)' = CountedWith(p) \cup {w} /\ w \notin CountedWith(p)
          /\ \A x \in Priorities \ {p} : CountedWith(x)' = CountedWith(x)
      BY <2>3, <2>4 DEF CountedWith
    <2>6. activeBy'[p] = activeBy[p] + 1 /\ \A x \in Priorities \ {p} : activeBy'[x] = activeBy[x]
      BY <1>0, <2>2 DEF TakesTask
    <2>7. Cardinality(CountedWith(p) \cup {w}) = Cardinality(CountedWith(p)) + 1
      BY <1>0, <2>5, FS_AddElement
    <2>8. \A x \in Priorities : activeBy'[x] = Cardinality(CountedWith(x)')
      BY <1>0, <2>5, <2>6, <2>7
    <2> QED  BY <2>8 DEF CountersExact, CountedWith
  <1>2. CASE Finish(w)
    <2>0. PICK p \in Priorities : p = task[w].prio
      BY <1>0 DEF Tasks
    <2>1. /\ Counted(w) /\ ~Counted(w)'
          /\ \A v \in Workers \ {w} : (Counted(v)' <=> Counted(v)) /\ task'[v] = task[v]
      BY <1>0, <1>2 DEF Finish, Goto, Counted, Executing, ExecutingAt
    <2>2. /\ CountedWith(p)' = CountedWith(p) \ {w} /\ w \in CountedWith(p)
          /\ \A x \in Priorities \ {p} : CountedWith(x)' = CountedWith(x)
      BY <2>0, <2>1 DEF CountedWith
    <2>3. activeBy'[p] = activeBy[p] - 1 /\ \A x \in Priorities \ {p} : activeBy'[x] = activeBy[x]
      BY <1>0, <1>2, <2>0 DEF Finish, TakenWith
    <2>4. Cardinality(CountedWith(p) \ {w}) = Cardinality(CountedWith(p)) - 1
      BY <1>0, <2>1, <2>2, FS_RemoveElement
    <2>5. \A x \in Priorities : activeBy'[x] = Cardinality(CountedWith(x)')
      <3>1. activeBy'[p] = Cardinality(CountedWith(p) \ {w})
        BY <1>0, <2>1, <2>3, <2>4
      <3>2. \A x \in Priorities : x = p => activeBy'[x] = Cardinality(CountedWith(x)')
        BY <2>1, <2>2, <3>1
      <3>3. \A x \in Priorities : x # p => activeBy'[x] = Cardinality(CountedWith(x)')
        BY <1>0, <2>2, <2>3
      <3> QED  BY <3>2, <3>3
    <2> QED  BY <2>5 DEF CountersExact, CountedWith
  <1>3. CASE Discard(w) \/ Announce(w) \/ Look(w) \/ Found(w) \/ Analyze(w) \/ AnalyzeThrows(w) \/ SaveThrows(w)
    <2>1. UNCHANGED <<activeBy, task>> /\ \A v \in Workers : Counted(v)' <=> Counted(v)
      BY <1>0, <1>3 DEF Discard, Announce, Look, Found, Analyze, AnalyzeThrows, SaveThrows, Throws, Goto,
                  Counted, Executing, ExecutingAt, queueVars, workerVars
    <2> QED  BY <2>1, CountKept
  <1>4. CASE CommitDeep(w) \/ CommitShallow(w) \/ RecordRequeued(w) \/ RecordRequeuedThrows(w)
             \/ Catch(w) \/ Snapshot(w)
    <2>1. UNCHANGED <<activeBy, task>> /\ \A v \in Workers : Counted(v)' <=> Counted(v)
      BY <1>0, <1>4 DEF CommitDeep, CommitShallow, RecordRequeued, RecordRequeuedThrows, Catch,
                  Snapshot, Throws, Goto, Counted, Executing, ExecutingAt, queueVars
    <2> QED  BY <2>1, CountKept
  <1>5. CASE Record(w)
    <2>1. /\ UNCHANGED activeBy /\ ~Counted(w) /\ ~Counted(w)'
          /\ \A v \in Workers \ {w} : (Counted(v)' <=> Counted(v)) /\ task'[v] = task[v]
      BY <1>0, <1>5 DEF Record, Goto, Counted, Executing, ExecutingAt, queueVars
    <2> QED  BY <2>1, CountKept
  <1> QED
    BY <1>1, <1>2, <1>3, <1>4, <1>5 DEF WorkerStep

LEMMA CountNext == TypeInv /\ QueuesSorted /\ CountersExact /\ [Next]_vars => CountersExact'
  <1> SUFFICES ASSUME TypeInv, QueuesSorted, CountersExact, [Next]_vars PROVE CountersExact'
    OBVIOUS
  <1>1. ASSUME NEW w \in Workers, WorkerStep(w) PROVE CountersExact'
    BY <1>1, CountWorker
  <1>2. ASSUME NEW c \in Clients, ClientCalls(c) \/ ClientProceeds(c) PROVE CountersExact'
    <2>1. UNCHANGED <<wpc, task>>
      BY <1>2, ClientFrame
    <2>2. UNCHANGED activeBy
      BY <1>2 DEF ClientCalls, ClientProceeds, CallStart, CallBatch, ReadGames, Cancel, SetPaused,
                  StartNew, StartExisting, RejectNew, RejectExisting, RecordNext, Return,
                  StorePaused, queueVars
    <2>3. \A w \in Workers : Counted(w)' <=> Counted(w)
      BY <2>1 DEF Counted, Executing
    <2> QED  BY <2>1, <2>2, <2>3, CountKept
  <1>3. CASE Die
    <2>1. \A p \in Priorities : CountedWith(p)' = {} /\ activeBy'[p] = 0
      BY <1>3 DEF Die, CountedWith, Counted, Executing, ExecutingAt
    <2> QED  BY <2>1, FS_EmptySet DEF CountersExact, CountedWith
  <1>4. CASE Shutdown \/ Boot \/ BootFails \/ UNCHANGED vars
    <2>1. UNCHANGED <<activeBy, wpc, task>>
      BY <1>4 DEF Shutdown, Boot, BootFails, vars, queueVars, workerVars
    <2>2. \A w \in Workers : Counted(w)' <=> Counted(w)
      BY <2>1 DEF Counted, Executing
    <2> QED  BY <2>1, <2>2, CountKept
  <1> QED
    BY <1>1, <1>2, <1>3, <1>4 DEF Next, Process, Crash, RecordKills, Joined

\* Although a preempted task is queued again with another priority while its worker still
\* counts, and whatever throws, active_by_priority_ is the number of workers between
\* take_unlocked and finish_task (the limit of runnable_unlocked rests on it).
THEOREM CountsAreExact == Spec => []CountersExact
  <1>1. Init => TypeInv /\ QueuesSorted /\ CountersExact
    <2> SUFFICES ASSUME Init PROVE QueuesSorted /\ CountersExact
      BY TypeInvInit
    <2>1. QueuesSorted
      BY DEF Init, QueuesSorted
    <2>2. \A p \in Priorities : CountedWith(p) = {} /\ activeBy[p] = 0
      BY DEF Init, CountedWith, Counted, Executing, ExecutingAt
    <2> QED  BY <2>1, <2>2, FS_EmptySet DEF CountersExact, CountedWith
  <1>2. TypeInv /\ QueuesSorted /\ CountersExact /\ [Next]_vars
           => (TypeInv /\ QueuesSorted /\ CountersExact)'
    BY TypeInvNext, SortedNext, CountNext
  <1> QED
    BY <1>1, <1>2, PTL DEF Spec

-----------------------------------------------------------------------------
(* Finished games.                                                          *)

\* A job keeps its game, and no client makes one run or finishes it.
LEMMA ClientJobs ==
    ASSUME TypeInv, NEW c \in Clients, ClientCalls(c) \/ ClientProceeds(c)
    PROVE  /\ UNCHANGED analyzed /\ DOMAIN jobs \subseteq DOMAIN jobs'
           /\ \A j \in DOMAIN jobs : jobs'[j].game = jobs[j].game
           /\ \/ StartNew(c)
              \/ Cancel(c)
              \/ /\ DOMAIN jobs' = DOMAIN jobs
                 /\ \A j \in DOMAIN jobs : jobs'[j].status = jobs[j].status
  <1>0. \A j \in DOMAIN jobs : jobs[j] \in Jobs
    BY DEF TypeInv, TypeOK, JobsTypeOK
  <1>1. CASE StartNew(c)
    <2>1. UNCHANGED analyzed
      BY <1>1 DEF StartNew, storeVars
    <2>2. DOMAIN jobs \subseteq DOMAIN jobs' /\ \A j \in DOMAIN jobs : jobs'[j] = jobs[j]
      <3>1. PICK new \in SUBSET Nat, l \in Seq(Tasks) :
               /\ DOMAIN jobs' = DOMAIN jobs \cup new
               /\ \A j \in DOMAIN jobs : jobs'[j] = jobs[j] /\ j \notin new
               /\ \A j \in new : /\ jobs'[j].game \in NewGames(request[c].games)
                                 /\ \/ jobs'[j].status = "queued" /\ j \in JobsOf(l)
                                    \/ /\ jobs'[j].status = "complete"
                                       /\ jobs'[j].game \in request[c].complete
               /\ queues' = [queues EXCEPT ![request[c].prio] = queues[request[c].prio] \o l]
               /\ Len(l) = NewTasks(request[c])
               /\ \A i \in DOMAIN l : l[i].prio = request[c].prio
        BY <1>1, StartNewAdds
      <3> QED  BY <3>1
    <2> QED  BY <1>1, <2>1, <2>2
  <1>2. CASE StartExisting(c) \/ RejectExisting(c)
    <2>1. UNCHANGED analyzed
      BY <1>2 DEF StartExisting, RejectExisting, storeVars
    <2>2. PICK j \in DOMAIN jobs : jobs' = [jobs EXCEPT ![j].prio = Interactive]
      BY <1>2 DEF StartExisting, RejectExisting, Promote
    <2> QED  BY <1>0, <2>1, <2>2 DEF Jobs
  <1>3. CASE Cancel(c)
    <2>1. UNCHANGED analyzed
      BY <1>3 DEF Cancel, storeVars
    <2>2. PICK j, s :
             j \in DOMAIN jobs /\ jobs' = [jobs EXCEPT ![j].stop = TRUE, ![j].status = s]
      BY <1>3 DEF Cancel
    <2>3. jobs' = [jobs EXCEPT ![j] = [@ EXCEPT !.stop = TRUE, !.status = s]]
      BY <1>0, <2>2
    <2>4. DOMAIN jobs' = DOMAIN jobs /\ \A k \in DOMAIN jobs : jobs'[k].game = jobs[k].game
      BY <1>0, <2>3 DEF Jobs
    <2> QED  BY <1>3, <2>1, <2>4
  <1>4. CASE \/ CallStart(c) \/ CallBatch(c) \/ RejectNew(c) \/ RecordNext(c) \/ Return(c)
             \/ SetPaused(c) \/ StorePaused(c)
    BY <1>4 DEF CallStart, CallBatch, ReadGames, RejectNew, RecordNext, Return, SetPaused,
                StorePaused, queueVars, storeVars
  <1> QED
    BY <1>1, <1>2, <1>3, <1>4 DEF ClientCalls, ClientProceeds

\* Only a worker that analyses a game adds it to the repository.
LEMMA WorkerSaves ==
    ASSUME TypeInv, NEW w \in Workers, WorkerStep(w)
    PROVE  \/ UNCHANGED analyzed
           \/ /\ wpc[w] = "analyze" /\ wpc'[w] \in {"commit", "catch"} /\ task[w].deep
              /\ analyzed' = analyzed \cup {GameOf(w)} /\ UNCHANGED <<jobs, task>>
  <1>0. wpc \in [Workers -> WorkerAt]
    BY DEF TypeInv, TypeOK, WorkerTypeOK
  <1>1. CASE Analyze(w) \/ SaveThrows(w)
    BY <1>0, <1>1 DEF Analyze, SaveThrows, Save, Throws, Goto, queueVars
  <1> QED
    BY <1>1 DEF WorkerStep, Take, Discard, Announce, Look, Found, AnalyzeThrows, CommitDeep,
       CommitShallow, RecordRequeued, RecordRequeuedThrows, Catch, Finish, Snapshot, Record,
       storeVars

LEMMA OnceNext ==
    TypeInv /\ ExclusiveAnalysis /\ AnalyzedOnce /\ [Next]_vars => AnalyzedOnce'
  <1> SUFFICES ASSUME TypeInv, ExclusiveAnalysis, AnalyzedOnce, [Next]_vars PROVE AnalyzedOnce'
    OBVIOUS
  <1>0. /\ wpc \in [Workers -> WorkerAt]
        /\ \A v \in Workers : wpc[v] # "idle" => task[v].job \in DOMAIN jobs
    BY DEF TypeInv, TypeOK, WorkerTypeOK, KnowsJob
  <1>1. ASSUME NEW w \in Workers, WorkerStep(w), NEW v \in Workers, wpc'[v] = "analyze"
        PROVE  GameOf(v)' \notin analyzed'
    <2>1. /\ \A u \in Workers \ {w} : wpc'[u] = wpc[u] /\ task'[u] = task[u]
          /\ \A j \in DOMAIN jobs : jobs'[j].game = jobs[j].game
      BY <1>1, WorkerFrame
    <2>2. CASE v # w
      <3>1. wpc[v] = "analyze" /\ GameOf(v)' = GameOf(v)
        BY <1>0, <1>1, <2>1, <2>2 DEF GameOf
      <3>2. GameOf(v) \notin analyzed
        BY <3>1 DEF AnalyzedOnce
      <3>3. wpc[w] = "analyze" => GameOf(v) # GameOf(w)
        BY <2>2, <3>1 DEF ExclusiveAnalysis, Executing, ExecutingAt
      <3> QED  BY <1>1, <3>1, <3>2, <3>3, WorkerSaves
    <2>3. CASE v = w
      <3>1. wpc[w] # "analyze"
        BY <1>0, <1>1, <2>3 DEF WorkerStep, Take, Discard, CanTake, Announce, Look, Found, Analyze,
           AnalyzeThrows, SaveThrows, CommitDeep, CommitShallow, RecordRequeued,
           RecordRequeuedThrows, Catch, Finish, Snapshot, Record, Throws, Goto, workerVars
      <3>2. Look(w)
        BY <1>0, <1>1, <2>3, <3>1 DEF WorkerStep, Take, Discard, CanTake, Announce, Found, Analyze,
           AnalyzeThrows, SaveThrows, CommitDeep, CommitShallow, RecordRequeued,
           RecordRequeuedThrows, Catch, Finish, Snapshot, Record, Throws, Goto, workerVars
      <3>3. GameOf(w) \notin analyzed /\ UNCHANGED <<analyzed, jobs, task>>
        BY <1>0, <1>1, <2>3, <3>2 DEF Look, HasAnalysis, Goto, queueVars, storeVars
      <3> QED  BY <2>3, <3>3 DEF GameOf
    <2> QED  BY <2>2, <2>3
  <1>2. ASSUME NEW c \in Clients, ClientCalls(c) \/ ClientProceeds(c) PROVE AnalyzedOnce'
    <2>1. UNCHANGED <<wpc, task, analyzed>>
          /\ \A j \in DOMAIN jobs : jobs'[j].game = jobs[j].game
      BY <1>2, ClientFrame, ClientJobs
    <2> QED  BY <1>0, <2>1 DEF AnalyzedOnce, GameOf
  <1>3. CASE Process
    <2>1. CASE Die \/ Boot
      <3>1. \A w \in Workers : wpc'[w] = "idle"
        BY <2>1 DEF Die, Boot, TypeInv, DownIsEmpty, workerVars
      <3> QED  BY <3>1 DEF AnalyzedOnce
    <2>2. CASE Shutdown
      <3>1. UNCHANGED <<wpc, task, analyzed>>
            /\ \A j \in DOMAIN jobs : jobs'[j].game = jobs[j].game
        BY <2>2 DEF Shutdown, workerVars, storeVars, TypeInv, TypeOK, JobsTypeOK, Jobs
      <3> QED  BY <1>0, <3>1 DEF AnalyzedOnce, GameOf
    <2>3. CASE BootFails
      BY <2>3 DEF BootFails, queueVars, workerVars, storeVars, AnalyzedOnce, GameOf
    <2> QED  BY <1>3, <2>1, <2>2, <2>3 DEF Process, Crash, RecordKills, Joined
  <1>4. CASE UNCHANGED vars
    BY <1>4 DEF vars, queueVars, workerVars, storeVars, AnalyzedOnce, GameOf
  <1>5. (\E w \in Workers : WorkerStep(w)) => AnalyzedOnce'
    BY <1>1 DEF AnalyzedOnce
  <1> QED
    BY <1>2, <1>3, <1>4, <1>5 DEF Next

\* Stale reads in start, recovery and retries never make a worker analyse a game whose
\* analysis is complete: the only look that counts is the one of the worker, and nobody
\* else can finish the game until its analysis ends.
THEOREM AnalyzesOnce ==
    ASSUME "record" \notin Faults \/ Cardinality(Workers) = 1 PROVE Spec => []AnalyzedOnce
  <1>1. Spec => []ExclusiveAnalysis
    <2>1. CASE "record" \notin Faults
      BY <2>1, Exclusion
    <2>2. CASE Cardinality(Workers) = 1
      <3>1. PICK x : Workers = {x}
        <4>1. IsFiniteSet(Workers)
          BY ConstantsOK
        <4>2. \A S : IsFiniteSet(S) => (Cardinality(S) = 1 <=> \E x : S = {x})
          BY FS_Singleton
        <4> QED  BY <2>2, <4>1, <4>2, Zenon
      <3>2. ExclusiveAnalysis
        BY <3>1 DEF ExclusiveAnalysis
      <3> QED  BY <3>2, PTL
    <2> QED  BY <2>1, <2>2
  <1>2. Init => TypeInv /\ AnalyzedOnce
    <2>1. Init => AnalyzedOnce
      BY DEF Init, AnalyzedOnce
    <2> QED  BY <2>1, TypeInvInit
  <1>3. TypeInv /\ ExclusiveAnalysis /\ AnalyzedOnce /\ [Next]_vars => (TypeInv /\ AnalyzedOnce)'
    BY TypeInvNext, OnceNext
  <1> QED
    BY <1>1, <1>2, <1>3, PTL DEF Spec

-----------------------------------------------------------------------------
(* The manager implements JobLifecycle.                                     *)

\* A worker that is about to report success, and a request that found games analysed, know
\* only what the repository has.
SavedKnown ==
    /\ \A w \in Workers : wpc[w] = "found" \/ (wpc[w] = "commit" /\ task[w].deep)
                              => GameOf(w) \in analyzed
    /\ \A c \in Clients : request[c].kind = "start" => request[c].complete \subseteq analyzed

LifeInv == Inv /\ NoStrandedJob /\ SavedKnown

LEMMA SavedWorker ==
    ASSUME TypeInv, SavedKnown, NEW w \in Workers, WorkerStep(w) PROVE SavedKnown'
  <1>0. wpc \in [Workers -> WorkerAt]
        /\ \A v \in Workers : wpc[v] # "idle" => task[v].job \in DOMAIN jobs
    BY DEF TypeInv, TypeOK, WorkerTypeOK, KnowsJob
  <1>1. /\ \A u \in Workers \ {w} : wpc'[u] = wpc[u] /\ task'[u] = task[u]
        /\ \A j \in DOMAIN jobs : jobs'[j].game = jobs[j].game
    BY WorkerFrame
  <1>2. analyzed \subseteq analyzed'
    BY WorkerSaves
  <1>3. UNCHANGED request
    BY DEF WorkerStep, Take, Discard, Announce, Look, Found, Analyze, AnalyzeThrows, SaveThrows,
       CommitDeep, CommitShallow, RecordRequeued, RecordRequeuedThrows, Catch, Finish, Snapshot,
       Record
  <1>4. ASSUME NEW v \in Workers, wpc'[v] = "found" \/ (wpc'[v] = "commit" /\ task'[v].deep)
        PROVE  GameOf(v)' \in analyzed'
    <2>1. CASE v # w
      <3>1. /\ wpc[v] = "found" \/ (wpc[v] = "commit" /\ task[v].deep)
            /\ GameOf(v)' = GameOf(v)
        BY <1>0, <1>1, <1>4, <2>1 DEF GameOf
      <3>2. GameOf(v) \in analyzed
        BY <3>1 DEF SavedKnown
      <3> QED  BY <1>2, <3>1, <3>2
    <2>2. CASE v = w
      <3>1. Look(w) \/ Analyze(w)
        BY <1>0, <1>4, <2>2 DEF WorkerStep, Take, Discard, CanTake, Announce, Found, AnalyzeThrows,
           SaveThrows, CommitDeep, CommitShallow, RecordRequeued, RecordRequeuedThrows, Catch,
           Finish, Snapshot, Record, Throws, Goto, workerVars
      <3>2. GameOf(w)' = GameOf(w) /\ UNCHANGED task
        BY <3>1 DEF Look, Analyze, GameOf, queueVars
      <3>3. CASE Look(w)
        BY <1>0, <1>4, <2>2, <3>2, <3>3 DEF Look, HasAnalysis, Goto, storeVars
      <3>4. CASE Analyze(w)
        BY <1>0, <1>4, <2>2, <3>2, <3>4 DEF Analyze, Save, Goto
      <3> QED  BY <3>1, <3>3, <3>4
    <2> QED  BY <2>1, <2>2
  <1> QED
    BY <1>2, <1>3, <1>4 DEF SavedKnown

LEMMA SavedNext == TypeInv /\ SavedKnown /\ [Next]_vars => SavedKnown'
  <1> SUFFICES ASSUME TypeInv, SavedKnown, [Next]_vars PROVE SavedKnown'
    OBVIOUS
  <1>0. /\ request \in [Clients -> Requests]
        /\ \A v \in Workers : wpc[v] # "idle" => task[v].job \in DOMAIN jobs
    BY DEF TypeInv, TypeOK, KnowsJob
  <1>1. ASSUME NEW w \in Workers, WorkerStep(w) PROVE SavedKnown'
    BY <1>1, SavedWorker
  <1>2. ASSUME NEW c \in Clients, ClientCalls(c) \/ ClientProceeds(c) PROVE SavedKnown'
    <2>1. UNCHANGED <<wpc, task, analyzed>>
          /\ \A j \in DOMAIN jobs : jobs'[j].game = jobs[j].game
      BY <1>2, ClientFrame, ClientJobs
    <2>2. \A w \in Workers : wpc[w] # "idle" => GameOf(w)' = GameOf(w)
      BY <1>0, <2>1 DEF GameOf
    <2>3. ASSUME NEW d \in Clients, request'[d].kind = "start"
          PROVE  request'[d].complete \subseteq analyzed
      <3>1. CASE request'[d] = request[d]
        BY <2>3, <3>1 DEF SavedKnown
      <3>2. CASE request'[d] # request[d]
        <4>1. PICK games, p :
                 request' = [request EXCEPT ![c] =
                    [kind |-> "start", games |-> games, prio |-> p,
                     shallow |-> games \cap shallow, complete |-> games \cap analyzed]]
          <5>1. CASE CallStart(c) \/ CallBatch(c)
            BY <5>1 DEF CallStart, CallBatch, ReadGames, Proceed
          <5>2. CASE StartNew(c) \/ RecordNext(c) \/ Cancel(c)
            <6>1. PICK l : request' = [request EXCEPT ![c] = [kind |-> "record", list |-> l]]
              BY <5>2 DEF StartNew, RecordNext, Cancel, Proceed
            <6> QED  BY <1>0, <2>3, <3>2, <6>1
          <5>3. CASE StartExisting(c) \/ RejectNew(c) \/ RejectExisting(c) \/ Return(c) \/ StorePaused(c)
            <6>1. request' = [request EXCEPT ![c] = NoRequest]
              BY <5>3 DEF StartExisting, RejectNew, RejectExisting, Return, StorePaused, Proceed
            <6> QED  BY <1>0, <2>3, <3>2, <6>1 DEF NoRequest
          <5>4. CASE SetPaused(c)
            <6>1. PICK b : request' = [request EXCEPT ![c] = [kind |-> "storePause", value |-> b]]
              BY <5>4 DEF SetPaused, Proceed
            <6> QED  BY <1>0, <2>3, <3>2, <6>1
          <5> QED  BY <1>2, <5>1, <5>2, <5>3, <5>4 DEF ClientCalls, ClientProceeds
        <4> QED  BY <1>0, <2>3, <3>2, <4>1
      <3> QED  BY <3>1, <3>2
    <2> QED  BY <2>1, <2>2, <2>3 DEF SavedKnown
  <1>3. CASE Process
    <2>1. CASE Die
      BY <2>1 DEF Die, SavedKnown, NoRequest
    <2>2. CASE Boot
      BY <2>2 DEF Boot, SavedKnown, TypeInv, DownIsEmpty, workerVars
    <2>3. CASE Shutdown
      <3>1. UNCHANGED <<wpc, task, analyzed, request>>
            /\ \A j \in DOMAIN jobs : jobs'[j].game = jobs[j].game
        BY <2>3 DEF Shutdown, workerVars, storeVars, TypeInv, TypeOK, JobsTypeOK, Jobs
      <3>2. \A w \in Workers : wpc[w] # "idle" => GameOf(w)' = GameOf(w)
        BY <1>0, <3>1 DEF GameOf
      <3> QED  BY <3>1, <3>2 DEF SavedKnown
    <2>4. CASE BootFails
      BY <2>4 DEF BootFails, queueVars, workerVars, storeVars, SavedKnown, GameOf
    <2> QED  BY <1>3, <2>1, <2>2, <2>3, <2>4 DEF Process, Crash, RecordKills, Joined
  <1>4. CASE UNCHANGED vars
    BY <1>4 DEF vars, queueVars, workerVars, storeVars, SavedKnown, GameOf
  <1> QED
    BY <1>1, <1>2, <1>3, <1>4 DEF Next

\* The jobs as the callers see them.
JobView == [j \in DOMAIN jobs |-> [game |-> jobs[j].game, status |-> jobs[j].status]]

\* What a process that starts makes is submitted.
LEMMA AllNewSubmits ==
    ASSUME DOMAIN jobs = {},
           \A j \in DOMAIN jobs' : jobs'[j].status = "queued" /\ jobs'[j].game \in Games,
           \A j, k \in DOMAIN jobs' : k # j => jobs'[k].game # jobs'[j].game,
           UNCHANGED analyzed
    PROVE  Lifecycle!Submit
  <1>1. DOMAIN JobView = {} /\ DOMAIN JobView' = DOMAIN jobs'
    BY DEF JobView
  <1>2. \A j \in DOMAIN jobs' : /\ JobView'[j].status = "queued" /\ JobView'[j].game \in Games
                               /\ JobView'[j].game = jobs'[j].game
    BY DEF JobView
  <1>3. ASSUME NEW j \in DOMAIN JobView'
        PROVE  /\ JobView'[j].game \in Games
               /\ \A k \in DOMAIN JobView' : k # j /\ Lifecycle!Holds(k)'
                                               => JobView'[k].game # JobView'[j].game
               /\ \/ JobView'[j].status = "queued"
                  \/ JobView'[j].status = "complete" /\ JobView'[j].game \in analyzed
    BY <1>1, <1>2, <1>3
  <1>4. /\ DOMAIN JobView \subseteq DOMAIN JobView'
        /\ \A j \in DOMAIN JobView : JobView'[j] = JobView[j]
    BY <1>1
  <1>5. DOMAIN JobView' \ DOMAIN JobView = DOMAIN JobView'
    BY <1>1
  <1> QED
    BY <1>3, <1>4, <1>5, ZenonT(60) DEF Lifecycle!Submit, JobView

LEMMA ViewBecomes ==
    ASSUME TypeInv, NEW j \in DOMAIN jobs, NEW s, DOMAIN jobs' = DOMAIN jobs,
           \A k \in DOMAIN jobs : jobs'[k].game = jobs[k].game,
           \A k \in DOMAIN jobs \ {j} : jobs'[k].status = jobs[k].status,
           jobs'[j].status = s
    PROVE  JobView' = [JobView EXCEPT ![j].status = s]
  <1>1. \A k \in DOMAIN jobs : JobView'[k] = [game |-> jobs[k].game, status |-> jobs'[k].status]
    BY DEF JobView
  <1>2. \A k \in DOMAIN jobs : [JobView EXCEPT ![j].status = s][k] =
            IF k = j THEN [JobView[k] EXCEPT !.status = s] ELSE JobView[k]
    BY DEF JobView
  <1>3. \A k \in DOMAIN jobs : JobView[k] = [game |-> jobs[k].game, status |-> jobs[k].status]
    BY DEF JobView
  <1>4. \A k \in DOMAIN jobs : JobView'[k] = [JobView EXCEPT ![j].status = s][k]
    <2> SUFFICES ASSUME NEW k \in DOMAIN jobs
                 PROVE  JobView'[k] = [JobView EXCEPT ![j].status = s][k]
      OBVIOUS
    <2>1. CASE k = j
      <3>1. [JobView EXCEPT ![j].status = s][k] = [JobView[k] EXCEPT !.status = s]
        BY <1>2, <2>1
      <3>2. PICK g, t : JobView[k] = [game |-> g, status |-> t] /\ g = jobs[k].game
        BY <1>3
      <3>3. [JobView[k] EXCEPT !.status = s] = [game |-> g, status |-> s]
        BY <3>2
      <3> QED  BY <1>1, <2>1, <3>1, <3>2, <3>3
    <2>2. CASE k # j
      BY <1>1, <1>2, <1>3, <2>2
    <2> QED  BY <2>1, <2>2
  <1>5. /\ JobView' = [k \in DOMAIN jobs |-> JobView'[k]]
        /\ [JobView EXCEPT ![j].status = s]
              = [k \in DOMAIN jobs |-> [JobView EXCEPT ![j].status = s][k]]
    BY DEF JobView
  <1> QED
    BY <1>4, <1>5

LEMMA ViewSame ==
    ASSUME DOMAIN jobs' = DOMAIN jobs,
           \A k \in DOMAIN jobs : jobs'[k].game = jobs[k].game
                                  /\ jobs'[k].status = jobs[k].status
    PROVE  JobView' = JobView
BY DEF JobView

\* A worker that takes a job finds itself among the workers, so that fewer jobs run.
LEMMA RunningFew ==
    ASSUME TypeInv, NoStrandedJob, NEW w \in Workers, wpc[w] = "idle"
    PROVE  Cardinality({j \in DOMAIN jobs : jobs[j].status = "running"}) < Cardinality(Workers)
  <1> DEFINE R == {j \in DOMAIN jobs : jobs[j].status = "running"}
             E == Workers \ {w}
             f == [v \in E |-> task[v].job]
             T == {f[v] : v \in E}
  <1>1. /\ IsFiniteSet(Workers) /\ IsFiniteSet(E) /\ Cardinality(Workers) \in Nat
        /\ Cardinality(E) = Cardinality(Workers) - 1
    BY ConstantsOK, FS_RemoveElement, FS_CardinalityType
  <1>2. f \in Surjection(E, T)
    BY DEF Surjection
  <1>3. IsFiniteSet(T) /\ Cardinality(T) <= Cardinality(E)
    <2> HIDE DEF f, E, T
    <2> QED  BY <1>1, <1>2, FS_Surjection
  <1>4. R \subseteq T
    <2> SUFFICES ASSUME NEW j \in R PROVE j \in T
      OBVIOUS
    <2>1. PICK v \in Workers : Executing(v) /\ task[v].job = j
      BY DEF NoStrandedJob
    <2>2. v \in E /\ f[v] = j
      BY <2>1 DEF Executing, ExecutingAt
    <2> QED  BY <2>2
  <1> HIDE DEF R, E, T
  <1>5. Cardinality(R) <= Cardinality(T) /\ Cardinality(R) \in Nat /\ Cardinality(T) \in Nat
        /\ Cardinality(E) \in Nat
    BY <1>1, <1>3, <1>4, FS_Subset, FS_CardinalityType
  <1>6. Cardinality(R) < Cardinality(Workers)
    BY <1>1, <1>3, <1>5
  <1> QED  BY <1>6 DEF R

LEMMA LifeWorker ==
    ASSUME LifeInv, NEW w \in Workers, WorkerStep(w), "record" \notin Faults
    PROVE  [Lifecycle!Next]_<<JobView, analyzed>>
  <1>0. /\ TypeInv /\ ExecInv /\ NoStrandedJob /\ SavedKnown
        /\ wpc \in [Workers -> WorkerAt]
        /\ \A j \in DOMAIN jobs : jobs[j] \in Jobs
        /\ \A v \in Workers : Executing(v) => /\ task[v].job \in DOMAIN jobs
                                              /\ jobs[task[v].job].status = "running"
    BY DEF LifeInv, Inv, TypeInv, TypeOK, WorkerTypeOK, JobsTypeOK, KnowsJob, ExecInv,
           ExecutesRunning, Executing, ExecutingAt
  <1>1. \A j \in DOMAIN jobs : JobView[j].status = jobs[j].status /\ JobView[j].game = jobs[j].game
    BY DEF JobView
  <1>2. DOMAIN JobView = DOMAIN jobs
    BY DEF JobView
  <1>3. CASE Take(w)
    <2>1. TypeOK
      BY <1>0 DEF TypeInv
    <2>2. PICK p \in Priorities, t \in Tasks, u \in Tasks : TakesTask(w, p, t, u)
      BY <1>3, <2>1, TakeEffect
    <2>3. PICK j : j = t.job
      OBVIOUS
    <2>4. j \in DOMAIN jobs /\ jobs[j].status = "queued"
      <3>1. InQueue(queues, t.job)
        <4>1. queues[p] \in Seq(Tasks) /\ queues[p] # <<>> /\ t = Head(queues[p])
          BY <2>1, <2>2 DEF TypeOK, QueuesTypeOK, TakesTask
        <4>2. 1 \in DOMAIN queues[p] /\ queues[p][1].job = t.job
          BY <4>1
        <4> QED  BY <4>2 DEF InQueue
      <3> QED  BY <1>0, <2>2, <2>3, <3>1 DEF TakesTask, ExecInv, QueuedWaits
    <2>5. /\ DOMAIN jobs' = DOMAIN jobs /\ jobs'[j].status = "running"
          /\ \A k \in DOMAIN jobs : jobs'[k].game = jobs[k].game
          /\ \A k \in DOMAIN jobs \ {j} : jobs'[k].status = jobs[k].status
      BY <1>0, <2>2, <2>3, <2>4 DEF TakesTask, Jobs
    <2>6. JobView' = [JobView EXCEPT ![j].status = "running"]
      BY <1>0, <2>4, <2>5, ViewBecomes
    <2>7. Lifecycle!Running = {k \in DOMAIN jobs : jobs[k].status = "running"}
      BY <1>1, <1>2 DEF Lifecycle!Running, JobView
    <2>8. Cardinality(Lifecycle!Running) < Cardinality(Workers)
      BY <1>0, <2>2, <2>7, RunningFew DEF TakesTask
    <2>9. UNCHANGED analyzed
      BY <1>3 DEF Take, storeVars
    <2>10. Lifecycle!Cardinality(Lifecycle!Running) = Cardinality(Lifecycle!Running)
      BY DEF Lifecycle!Cardinality, Cardinality
    <2>11. Lifecycle!Begin(j)
      BY <1>1, <2>4, <2>6, <2>8, <2>9, <2>10 DEF Lifecycle!Begin, Lifecycle!Becomes, JobView
    <2> QED  BY <1>2, <2>4, <2>11 DEF Lifecycle!Next, JobView
  <1>4. CASE Analyze(w)
    <2>1. Executing(w) /\ UNCHANGED jobs
      BY <1>4 DEF Analyze, Executing, ExecutingAt, queueVars
    <2>2. analyzed' = analyzed \/ analyzed' = analyzed \cup {GameOf(w)}
      BY <1>4 DEF Analyze, Save
    <2>3. JobView' = JobView
      BY <2>1 DEF JobView
    <2>4. CASE analyzed' = analyzed \cup {GameOf(w)}
      <3>1. PICK j \in DOMAIN jobs : j = task[w].job
        BY <1>0, <2>1
      <3>2. Lifecycle!Publish(j)
        BY <1>0, <1>1, <2>1, <2>3, <2>4, <3>1 DEF Lifecycle!Publish, JobView, GameOf
      <3> QED  BY <1>2, <3>2 DEF Lifecycle!Next, JobView
    <2> QED  BY <2>2, <2>3, <2>4
  <1>5. CASE Found(w) \/ CommitDeep(w) \/ CommitShallow(w) \/ Catch(w)
    <2>1. Executing(w) /\ UNCHANGED analyzed
      BY <1>5 DEF Found, CommitDeep, CommitShallow, Catch, Executing, ExecutingAt, storeVars
    <2>2. PICK j \in DOMAIN jobs : j = task[w].job /\ jobs[j].status = "running"
      BY <1>0, <2>1
    <2>3. PICK s : /\ jobs' = [jobs EXCEPT ![j].status = s]
                   /\ s \in {"complete", "failed", "cancelled", "queued"}
                   /\ s = "complete" => Found(w) \/ CommitDeep(w)
      <3>1. CASE Found(w) \/ CommitDeep(w)
        <4>1. jobs' = [jobs EXCEPT ![j].status = "complete"]
          BY <2>2, <3>1 DEF Found, CommitDeep
        <4> QED  BY <3>1, <4>1
      <3>3. CASE CommitShallow(w)
        <4>1. jobs' = [jobs EXCEPT ![j].status = "queued"]
          BY <2>2, <3>3 DEF CommitShallow
        <4>2. PICK s : s = "queued"
          OBVIOUS
        <4>3. jobs' = [jobs EXCEPT ![j].status = s] /\ s \in {"complete", "failed", "cancelled", "queued"}
          BY <4>1, <4>2
        <4>4. s = "complete" => Found(w) \/ CommitDeep(w)
          BY <4>2
        <4> QED  BY <4>3, <4>4, Zenon
      <3>2. CASE Catch(w)
        <4>1. PICK s : s = CatchStatus(w)
          OBVIOUS
        <4>2. s \in {"failed", "cancelled", "queued"}
          BY <4>1 DEF CatchStatus
        <4>3. jobs' = [jobs EXCEPT ![j].status = s]
          BY <2>2, <3>2, <4>1 DEF Catch
        <4> QED  BY <4>2, <4>3
      <3> QED  BY <1>5, <3>1, <3>2, <3>3
    <2>4. s = "complete" => jobs[j].game \in analyzed
      <3>1. Found(w) \/ CommitDeep(w) => wpc[w] = "found" \/ (wpc[w] = "commit" /\ task[w].deep)
        BY DEF Found, CommitDeep
      <3>2. wpc[w] = "found" \/ (wpc[w] = "commit" /\ task[w].deep) => GameOf(w) \in analyzed
        BY <1>0 DEF SavedKnown
      <3> QED  BY <2>2, <2>3, <3>1, <3>2 DEF GameOf
    <2>5. /\ DOMAIN jobs' = DOMAIN jobs /\ jobs'[j].status = s
          /\ \A k \in DOMAIN jobs : jobs'[k].game = jobs[k].game
          /\ \A k \in DOMAIN jobs \ {j} : jobs'[k].status = jobs[k].status
      BY <1>0, <2>3 DEF Jobs
    <2>6. JobView' = [JobView EXCEPT ![j].status = s]
      BY <1>0, <2>5, ViewBecomes
    <2>7. Lifecycle!Settle(j)
      BY <1>1, <2>1, <2>2, <2>3, <2>4, <2>6 DEF Lifecycle!Settle, Lifecycle!Becomes, JobView
    <2> QED  BY <1>2, <2>7 DEF Lifecycle!Next, JobView
  <1>6. CASE UNCHANGED <<jobs, analyzed>>
    BY <1>6 DEF JobView
  <1> QED
    BY <1>3, <1>4, <1>5, <1>6 DEF WorkerStep, Discard, Announce, Look, AnalyzeThrows, SaveThrows,
       RecordRequeued, RecordRequeuedThrows, Finish, Snapshot, Record, queueVars, storeVars

LEMMA LifeStartNew ==
    ASSUME LifeInv, Inv', NEW c \in Clients, StartNew(c)
    PROVE  [Lifecycle!Next]_<<JobView, analyzed>>
  <1>1. PICK new \in SUBSET Nat, l \in Seq(Tasks) :
           /\ DOMAIN jobs' = DOMAIN jobs \cup new
           /\ \A j \in DOMAIN jobs : jobs'[j] = jobs[j] /\ j \notin new
           /\ \A j \in new : /\ jobs'[j].game \in NewGames(request[c].games)
                             /\ \/ jobs'[j].status = "queued" /\ j \in JobsOf(l)
                                \/ /\ jobs'[j].status = "complete"
                                   /\ jobs'[j].game \in request[c].complete
           /\ queues' = [queues EXCEPT ![request[c].prio] = queues[request[c].prio] \o l]
           /\ Len(l) = NewTasks(request[c]) /\ \A i \in DOMAIN l : l[i].prio = request[c].prio
    BY StartNewAdds DEF LifeInv, Inv
  <1>2. /\ UNCHANGED analyzed /\ request[c].complete \subseteq analyzed
        /\ NewGames(request[c].games) \subseteq Games
    BY RequestKinds DEF StartNew, Starting, storeVars, LifeInv, SavedKnown, NewGames, Inv,
       TypeInv, TypeOK
  <1>3. /\ DOMAIN JobView = DOMAIN jobs /\ DOMAIN JobView' = DOMAIN jobs'
        /\ \A j \in DOMAIN jobs : JobView[j] = [game |-> jobs[j].game, status |-> jobs[j].status]
        /\ \A j \in DOMAIN jobs' :
               JobView'[j] = [game |-> jobs'[j].game, status |-> jobs'[j].status]
    BY DEF JobView
  <1>4. \A j \in DOMAIN jobs : JobView'[j] = JobView[j]
    BY <1>1, <1>3
  <1>5. ASSUME NEW j \in DOMAIN JobView' \ DOMAIN JobView
        PROVE  /\ JobView'[j].game \in Games
               /\ \A k \in DOMAIN JobView' :
                     k # j /\ JobView'[k].status \in {"queued", "running", "complete"}
                        => JobView'[k].game # JobView'[j].game
               /\ \/ JobView'[j].status = "queued"
                  \/ JobView'[j].status = "complete" /\ JobView'[j].game \in analyzed
    <2>1. j \in new /\ j \in DOMAIN jobs'
      BY <1>1, <1>3
    <2>2. /\ jobs'[j].game \in Games
          /\ \/ jobs'[j].status = "queued"
             \/ jobs'[j].status = "complete" /\ jobs'[j].game \in analyzed
      BY <1>1, <1>2, <2>1
    <2>3. \A k \in DOMAIN jobs' : k # j /\ jobs'[k].status \in {"queued", "running", "complete"}
                                     => jobs'[k].game # jobs'[j].game
      BY <2>1, <2>2 DEF Inv, ExecInv, OneLiveJob, IsLive, Undecided
    <2> QED  BY <1>3, <2>1, <2>2, <2>3
  <1>6. Lifecycle!Submit
    BY <1>1, <1>2, <1>3, <1>4, <1>5 DEF Lifecycle!Submit, Lifecycle!Holds, JobView
  <1> QED
    BY <1>6 DEF Lifecycle!Next

LEMMA LifeClient ==
    ASSUME LifeInv, Inv', NEW c \in Clients, ClientCalls(c) \/ ClientProceeds(c)
    PROVE  [Lifecycle!Next]_<<JobView, analyzed>>
  <1>0. TypeInv /\ \A j \in DOMAIN jobs : jobs[j] \in Jobs
    BY DEF LifeInv, Inv, TypeInv, TypeOK, JobsTypeOK
  <1>1. /\ UNCHANGED analyzed /\ \A j \in DOMAIN jobs : jobs'[j].game = jobs[j].game
        /\ \/ StartNew(c)
           \/ Cancel(c)
           \/ /\ DOMAIN jobs' = DOMAIN jobs
              /\ \A j \in DOMAIN jobs : jobs'[j].status = jobs[j].status
    BY <1>0, ClientJobs
  <1>2. CASE StartNew(c)
    BY <1>2, LifeStartNew
  <1>3. CASE Cancel(c)
    <2>1. PICK j \in DOMAIN jobs :
             jobs' = [jobs EXCEPT ![j].stop = TRUE, ![j].status = CancelStatus(j)]
             /\ jobs[j].status \in Undecided
      BY <1>3 DEF Cancel
    <2>2. PICK s : s = CancelStatus(j)
      OBVIOUS
    <2>3. jobs' = [jobs EXCEPT ![j] = [@ EXCEPT !.stop = TRUE, !.status = s]]
      BY <1>0, <2>1, <2>2
    <2>4. /\ DOMAIN jobs' = DOMAIN jobs /\ jobs'[j].status = s
          /\ \A k \in DOMAIN jobs : jobs'[k].game = jobs[k].game
          /\ \A k \in DOMAIN jobs \ {j} : jobs'[k].status = jobs[k].status
      BY <1>0, <2>3 DEF Jobs
    <2>5. \/ jobs[j].status = "queued" /\ s = "cancelled"
          \/ jobs[j].status = "running" /\ s = "running"
      BY <2>1, <2>2 DEF CancelStatus, Undecided
    <2>6. CASE jobs[j].status = "queued" /\ s = "cancelled"
      <3>1. JobView' = [JobView EXCEPT ![j].status = "cancelled"]
        BY <1>0, <2>4, <2>6, ViewBecomes
      <3>2. JobView[j].status = "queued" /\ j \in DOMAIN JobView
        BY <2>6 DEF JobView
      <3>3. Lifecycle!Withdraw(j)
        BY <1>1, <3>1, <3>2 DEF Lifecycle!Withdraw, Lifecycle!Becomes, JobView
      <3> QED  BY <3>2, <3>3 DEF Lifecycle!Next, JobView
    <2>7. CASE jobs[j].status = "running" /\ s = "running"
      <3>1. JobView' = JobView
        BY <2>4, <2>7, ViewSame
      <3> QED  BY <1>1, <3>1
    <2> QED  BY <2>5, <2>6, <2>7
  <1>4. CASE DOMAIN jobs' = DOMAIN jobs /\ \A j \in DOMAIN jobs : jobs'[j].status = jobs[j].status
    BY <1>1, <1>4, ViewSame
  <1> QED
    BY <1>1, <1>2, <1>3, <1>4

LEMMA EmptyView ==
    ASSUME NEW f, DOMAIN f = {}
    PROVE  [j \in DOMAIN f |-> [game |-> f[j].game, status |-> f[j].status]] = <<>>
  <1> DEFINE v == [j \in DOMAIN f |-> [game |-> f[j].game, status |-> f[j].status]]
  <1>1. v = [j \in 1 .. 0 |-> [game |-> f[j].game, status |-> f[j].status]]
    OBVIOUS
  <1>2. v \in Seq({}) /\ Len(v) = 0
    BY <1>1
  <1> HIDE DEF v
  <1>3. v = <<>>
    BY <1>2, EmptySeq
  <1> QED
    BY <1>3 DEF v

LEMMA LifeProcess ==
    ASSUME LifeInv, Inv', Process PROVE [Lifecycle!Next]_<<JobView, analyzed>>
  <1>1. CASE Die
    <2>1. DOMAIN jobs' = {} /\ UNCHANGED analyzed
      BY <1>1 DEF Die, storeVars
    <2>2. JobView' = <<>>
      BY <2>1, EmptyView DEF JobView
    <2>3. Lifecycle!Forget
      BY <2>1, <2>2 DEF Lifecycle!Forget, JobView
    <2> QED  BY <2>3 DEF Lifecycle!Next
  <1>2. CASE Shutdown
    <2>1. /\ DOMAIN jobs' = DOMAIN jobs /\ UNCHANGED analyzed
          /\ \A j \in DOMAIN jobs : /\ jobs'[j].status = jobs[j].status
                                    /\ jobs'[j].game = jobs[j].game
      BY <1>2 DEF Shutdown, storeVars, LifeInv, Inv, TypeInv, TypeOK, JobsTypeOK, Jobs
    <2> QED  BY <2>1, ViewSame
  <1>3. CASE Boot
    <2>1. PICK order \in SetToSeqs(Recoverable) :
             jobs' = [j \in 1 .. Len(order) |->
                        [game |-> order[j], status |-> "queued", stop |-> FALSE,
                         prio |-> Historical]]
      BY <1>3 DEF Boot
    <2>2. DOMAIN jobs = {} /\ UNCHANGED analyzed
      BY <1>3 DEF Boot, LifeInv, Inv, TypeInv, DownIsEmpty
    <2>3. /\ DOMAIN JobView = {} /\ DOMAIN JobView' = DOMAIN jobs'
          /\ \A j \in DOMAIN jobs' :
                 JobView'[j] = [game |-> jobs'[j].game, status |-> jobs'[j].status]
      BY <2>2 DEF JobView
    <2>4. \A j \in DOMAIN jobs' : jobs'[j].status = "queued" /\ jobs'[j].game \in Games
      BY <2>1 DEF Inv, TypeInv, TypeOK, JobsTypeOK, Jobs
    <2>5. \A j, k \in DOMAIN jobs' : k # j => jobs'[k].game # jobs'[j].game
      BY <2>4 DEF Inv, ExecInv, OneLiveJob, IsLive, Undecided
    <2>6. Lifecycle!Submit
      BY <2>2, <2>4, <2>5, AllNewSubmits
    <2> QED  BY <2>6 DEF Lifecycle!Next
  <1>4. CASE BootFails
    BY <1>4 DEF BootFails, queueVars, storeVars, JobView
  <1> QED
    BY <1>1, <1>2, <1>3, <1>4 DEF Process, Crash, RecordKills, Joined

\* Queues, threads, preemption, retries and restarts implement the life of jobs that the
\* callers of start, cancel and the job list see, as JobLifecycle describes it, as long as
\* record_job_state does not throw.
THEOREM LifecycleImplemented ==
    ASSUME "record" \notin Faults PROVE Spec => ImplementsLifecycle
  <1>1. Init => LifeInv /\ Lifecycle!Init
    <2> SUFFICES ASSUME Init PROVE LifeInv /\ Lifecycle!Init
      OBVIOUS
    <2>1. Inv
      BY TypeInvInit, ExecInit DEF Inv
    <2>2. NoStrandedJob /\ SavedKnown
      BY DEF Init, NoStrandedJob, SavedKnown, NoRequest
    <2>3. JobView = <<>> /\ analyzed = {}
      <3>1. DOMAIN jobs = {} /\ analyzed = {}
        BY DEF Init
      <3> QED  BY <3>1, EmptyView DEF JobView
    <2> QED  BY <2>1, <2>2, <2>3 DEF LifeInv, Lifecycle!Init, JobView
  <1>2. LifeInv /\ [Next]_vars => LifeInv'
    <2> SUFFICES ASSUME LifeInv, [Next]_vars PROVE LifeInv'
      OBVIOUS
    <2>1. Inv' /\ SavedKnown'
      BY InvNext, SavedNext DEF LifeInv, Inv
    <2>2. NoStrandedJob'
      BY StrandedNext DEF LifeInv, Inv
    <2> QED  BY <2>1, <2>2 DEF LifeInv
  <1>3. LifeInv /\ LifeInv' /\ [Next]_vars => [Lifecycle!Next]_<<JobView, analyzed>>
    <2> SUFFICES ASSUME LifeInv, LifeInv', [Next]_vars
                 PROVE  [Lifecycle!Next]_<<JobView, analyzed>>
      OBVIOUS
    <2>1. Inv'
      BY DEF LifeInv
    <2>2. CASE UNCHANGED vars
      BY <2>2 DEF vars, queueVars, storeVars, JobView
    <2> QED  BY <2>1, <2>2, LifeWorker, LifeClient, LifeProcess DEF Next
  <1> QED
    BY <1>1, <1>2, <1>3, PTL DEF Spec, ImplementsLifecycle, Lifecycle!Spec, JobView

-----------------------------------------------------------------------------
(* How far workers can fill the queues beyond their limit.                  *)

Held == {w \in Workers : Executing(w)}

\* start respects the limit, but a worker puts its task back without asking: the room it
\* may need is the execution it gives up.
Room == QueuedCount + Cardinality(Held) <= MaxQueued + Cardinality(Workers)

\* The queues exceed max_queued by no more than one task for each worker.
QueuesBounded == QueuedCount <= MaxQueued + Cardinality(Workers)

LEMMA Counts ==
    ASSUME TypeInv
    PROVE  /\ QueuedCount \in Nat /\ Cardinality(Held) \in Nat /\ IsFiniteSet(Held)
           /\ Cardinality(Held) <= Cardinality(Workers) /\ Cardinality(Workers) \in Nat
           /\ \A p \in Priorities : queues[p] \in Seq(Tasks) /\ Len(queues[p]) \in Nat
  <1>1. \A p \in Priorities : queues[p] \in Seq(Tasks) /\ Len(queues[p]) \in Nat
    BY DEF TypeInv, TypeOK, QueuesTypeOK
  <1>2. IsFiniteSet(Workers) /\ Held \subseteq Workers
    BY ConstantsOK DEF Held
  <1>3. /\ Cardinality(Held) \in Nat /\ IsFiniteSet(Held)
        /\ Cardinality(Held) <= Cardinality(Workers) /\ Cardinality(Workers) \in Nat
    BY <1>2, FS_Subset, FS_CardinalityType
  <1>4. QueuedCount \in Nat
    <2>1. PICK a \in Nat, b \in Nat : a = Len(queues[Interactive]) /\ b = Len(queues[Historical])
      BY <1>1, PriorityFacts
    <2>2. QueuedCount = a + b
      BY <2>1 DEF QueuedCount
    <2> QED  BY <2>2
  <1> QED
    BY <1>1, <1>3, <1>4

\* How a change of one queue changes their length.
LEMMA OneQueueGrows ==
    ASSUME TypeInv, NEW p \in Priorities, NEW s, queues' = [queues EXCEPT ![p] = s],
           Len(s) \in Nat
    PROVE  /\ QueuedCount' \in Nat
           /\ QueuedCount' + Len(queues[p]) = QueuedCount + Len(s)
  <1>1. queues \in [Priorities -> Seq(Tasks)]
    BY DEF TypeInv, TypeOK, QueuesTypeOK
  <1>2. PICK a \in Nat, b \in Nat : a = Len(queues[Interactive]) /\ b = Len(queues[Historical])
    BY Counts, PriorityFacts
  <1>3. CASE p = Interactive
    <2>1. queues'[Interactive] = s /\ queues'[Historical] = queues[Historical]
      BY <1>1, <1>3, PriorityFacts
    <2>2. QueuedCount' = Len(s) + b /\ QueuedCount = a + b /\ Len(queues[p]) = a
      BY <1>2, <1>3, <2>1 DEF QueuedCount
    <2> QED  BY <2>2
  <1>4. CASE p = Historical
    <2>1. queues'[Historical] = s /\ queues'[Interactive] = queues[Interactive]
      BY <1>1, <1>4, PriorityFacts
    <2>2. QueuedCount' = a + Len(s) /\ QueuedCount = a + b /\ Len(queues[p]) = b
      BY <1>2, <1>4, <2>1 DEF QueuedCount
    <2> QED  BY <2>2
  <1> QED
    BY <1>3, <1>4, PriorityFacts

LEMMA TailShrinks ==
    ASSUME TypeInv, NEW p \in Priorities, queues[p] # <<>>,
           queues' = [queues EXCEPT ![p] = Tail(@)]
    PROVE  QueuedCount' + 1 = QueuedCount /\ QueuedCount' \in Nat
  <1>1. queues[p] \in Seq(Tasks)
    BY Counts
  <1>2. PICK s : s = Tail(queues[p])
    OBVIOUS
  <1>3. Len(s) \in Nat /\ Len(queues[p]) = Len(s) + 1
    BY <1>1, <1>2
  <1>4. QueuedCount' \in Nat /\ QueuedCount' + Len(queues[p]) = QueuedCount + Len(s)
    BY <1>2, <1>3, OneQueueGrows
  <1> QED
    BY <1>3, <1>4, Counts

LEMMA EnqueueGrows ==
    ASSUME TypeInv, NEW t \in Tasks, Enqueue(t)
    PROVE  QueuedCount' = QueuedCount + 1 /\ QueuedCount' \in Nat
  <1>1. PICK p, s : p \in Priorities /\ p = t.prio /\ s = Append(queues[p], t)
    BY DEF Tasks
  <1>2. Len(s) = Len(queues[p]) + 1 /\ Len(queues[p]) \in Nat
    BY <1>1, Counts
  <1>3. queues' = [queues EXCEPT ![p] = s]
    BY <1>1 DEF Enqueue
  <1>4. Len(s) \in Nat
    BY <1>2
  <1>5. QueuedCount' \in Nat /\ QueuedCount' + Len(queues[p]) = QueuedCount + Len(s)
    BY <1>1, <1>3, <1>4, OneQueueGrows
  <1> QED
    BY <1>2, <1>5, Counts

LEMMA PromoteKeepsCount ==
    ASSUME TypeInv, NEW j \in DOMAIN jobs, Promote(j) PROVE QueuedCount' = QueuedCount
  <1>1. CASE UNCHANGED queues
    BY <1>1 DEF QueuedCount
  <1>2. CASE queues' # queues
    <2>0. /\ queues \in [Priorities -> Seq(Tasks)]
          /\ queues[Historical] \in Seq(Tasks) /\ queues[Interactive] \in Seq(Tasks)
      BY PriorityFacts DEF TypeInv, TypeOK, QueuesTypeOK
    <2>1. PICK i, u : /\ i \in DOMAIN queues[Historical]
                      /\ queues' = [queues EXCEPT ![Historical]  = RemoveAt(@, i),
                                                  ![Interactive] = Append(@, u)]
      BY <1>2 DEF Promote, MoveTask
    <2>2. PICK h, a : h = RemoveAt(queues[Historical], i) /\ a = Append(queues[Interactive], u)
      OBVIOUS
    <2>3. Len(h) = Len(queues[Historical]) - 1
      BY <2>0, <2>1, <2>2, RemoveAtFacts
    <2>4. Len(a) = Len(queues[Interactive]) + 1
      BY <2>0, <2>2
    <2>5. queues'[Historical] = h /\ queues'[Interactive] = a
      BY <2>0, <2>1, <2>2, PriorityFacts
    <2>6. QueuedCount' = Len(a) + Len(h)
      BY <2>5 DEF QueuedCount
    <2>7. PICK m \in Nat, n \in Nat : m = Len(queues[Interactive]) /\ n = Len(queues[Historical])
      BY <2>0
    <2>8. QueuedCount = m + n
      BY <2>7 DEF QueuedCount
    <2>9. QueuedCount' = (m + 1) + (n - 1)
      BY <2>3, <2>4, <2>6, <2>7
    <2> QED  BY <2>8, <2>9
  <1> QED
    BY <1>1, <1>2

LEMMA RoomWorker ==
    ASSUME TypeInv, Room, "record" \notin Faults, NEW w \in Workers, WorkerStep(w) PROVE Room'
  <1>0. /\ wpc \in [Workers -> WorkerAt] /\ task \in [Workers -> Tasks] /\ KnowsJob
        /\ \A j \in DOMAIN jobs : jobs[j] \in Jobs
    BY DEF TypeInv, TypeOK, WorkerTypeOK, JobsTypeOK
  <1>1. CASE Take(w)
    <2>1. PICK p \in Priorities : queues[p] # <<>> /\ queues' = [queues EXCEPT ![p] = Tail(@)]
      BY <1>1, PriorityFacts DEF Take, CanTake, Servable
    <2>2. wpc[w] = "idle" /\ wpc' = [wpc EXCEPT ![w] = "announce"]
      BY <1>1 DEF Take, CanTake, Goto
    <2>3. Held' = Held \cup {w} /\ w \notin Held
      BY <1>0, <2>2 DEF Held, Executing, ExecutingAt
    <2>4. Cardinality(Held') = Cardinality(Held) + 1
      BY <2>3, Counts, FS_AddElement
    <2>5. QueuedCount' + 1 = QueuedCount /\ QueuedCount' \in Nat
      BY <2>1, TailShrinks
    <2>6. QueuedCount' + Cardinality(Held') = QueuedCount + Cardinality(Held)
      BY <2>4, <2>5, Counts
    <2> QED  BY <2>6 DEF Room, Held
  <1>2. CASE Discard(w)
    <2>1. PICK p \in Priorities : queues[p] # <<>> /\ queues' = [queues EXCEPT ![p] = Tail(@)]
      BY <1>2, PriorityFacts DEF Discard, CanTake, Servable
    <2>2. Held' = Held
      BY <1>2 DEF Discard, workerVars, Held, Executing
    <2>3. QueuedCount' + 1 = QueuedCount /\ QueuedCount' \in Nat
      BY <2>1, TailShrinks
    <2>4. QueuedCount' + Cardinality(Held') <= MaxQueued + Cardinality(Workers)
      BY <2>2, <2>3, Counts, ConstantsOK DEF Room
    <2> QED  BY <2>4 DEF Room, Held
  <1>3. CASE Found(w) \/ CommitDeep(w) \/ CommitShallow(w) \/ Catch(w)
    <2>1. Held' = Held \ {w} /\ w \in Held
      BY <1>0, <1>3 DEF Found, CommitDeep, CommitShallow, Catch, Goto, Held, Executing, ExecutingAt
    <2>2. Cardinality(Held') = Cardinality(Held) - 1
      BY <2>1, Counts, FS_RemoveElement
    <2>3. UNCHANGED queues \/ \E t \in Tasks : Enqueue(t)
      <3>1. task[w] \in Tasks /\ task[w].job \in DOMAIN jobs /\ task[w].attempts + 1 \in Nat
        BY <1>0, <2>1 DEF Held, Executing, ExecutingAt, KnowsJob, Tasks
      <3>2. CASE Found(w) \/ CommitDeep(w)
        BY <3>2 DEF Found, CommitDeep
      <3>3. CASE CommitShallow(w)
        BY <3>1, <3>3, NewTaskType DEF CommitShallow, Tasks
      <3>4. CASE Catch(w)
        <4>1. PICK t, u : /\ t = [task[w] EXCEPT !.prio = jobs[task[w].job].prio, !.src = Unshared]
                          /\ u = [task[w] EXCEPT !.attempts = @ + 1]
          OBVIOUS
        <4>2. t \in Tasks /\ u \in Tasks
          BY <1>0, <3>1, <4>1 DEF Tasks, Jobs
        <4>3. Enqueue(t) \/ Enqueue(u) \/ UNCHANGED queues
          BY <3>4, <4>1 DEF Catch, Requeue
        <4> QED  BY <4>2, <4>3
      <3> QED  BY <1>3, <3>2, <3>3, <3>4
    <2>4. QueuedCount' \in Nat /\ QueuedCount' <= QueuedCount + 1
      <3>1. CASE UNCHANGED queues
        <4>1. QueuedCount' = QueuedCount
          BY <3>1 DEF QueuedCount
        <4> QED  BY <4>1, Counts
      <3>2. CASE \E t \in Tasks : Enqueue(t)
        BY <3>2, Counts, EnqueueGrows
      <3> QED  BY <2>3, <3>1, <3>2
    <2>5. QueuedCount' + Cardinality(Held') <= QueuedCount + Cardinality(Held)
      BY <2>2, <2>4, Counts
    <2>6. QueuedCount' + Cardinality(Held') <= MaxQueued + Cardinality(Workers)
      BY <2>2, <2>4, <2>5, Counts, ConstantsOK DEF Room
    <2> QED  BY <2>6 DEF Room, Held
  <1>4. CASE \/ Announce(w) \/ Look(w) \/ Analyze(w) \/ AnalyzeThrows(w) \/ RecordRequeued(w) \/ Finish(w)
             \/ Snapshot(w) \/ Record(w)
    <2>1. UNCHANGED queues
      BY <1>4 DEF Announce, Look, Analyze, AnalyzeThrows, RecordRequeued, Finish, Snapshot, Record,
                  queueVars
    <2>2. Held' = Held
      BY <1>0, <1>4 DEF Announce, Look, Analyze, AnalyzeThrows, RecordRequeued, Finish, Snapshot, Record,
                  Throws, Goto, Held, Executing, ExecutingAt
    <2> QED  BY <2>1, <2>2 DEF Room, Held, QueuedCount
  <1> QED
    BY <1>1, <1>2, <1>3, <1>4 DEF WorkerStep, SaveThrows, RecordRequeuedThrows

LEMMA RoomNext ==
    ASSUME "record" \notin Faults PROVE TypeInv /\ Room /\ [Next]_vars => Room'
  <1> SUFFICES ASSUME TypeInv, Room, [Next]_vars PROVE Room'
    OBVIOUS
  <1>1. ASSUME NEW w \in Workers, WorkerStep(w) PROVE Room'
    BY <1>1, RoomWorker
  <1>2. ASSUME NEW c \in Clients, ClientCalls(c) \/ ClientProceeds(c) PROVE Room'
    <2>1. Held' = Held
      BY <1>2, ClientFrame DEF Held, Executing
    <2>2. CASE StartNew(c)
      <3>1. PICK new \in SUBSET Nat, l \in Seq(Tasks) :
               /\ DOMAIN jobs' = DOMAIN jobs \cup new
               /\ \A j \in DOMAIN jobs : jobs'[j] = jobs[j] /\ j \notin new
               /\ \A j \in new : /\ jobs'[j].game \in NewGames(request[c].games)
                                 /\ \/ jobs'[j].status = "queued" /\ j \in JobsOf(l)
                                    \/ /\ jobs'[j].status = "complete"
                                       /\ jobs'[j].game \in request[c].complete
               /\ queues' = [queues EXCEPT ![request[c].prio] = queues[request[c].prio] \o l]
               /\ Len(l) = NewTasks(request[c])
               /\ \A i \in DOMAIN l : l[i].prio = request[c].prio
        BY <2>2, StartNewAdds
      <3>2. PICK p, s : p \in Priorities /\ p = request[c].prio /\ s = queues[p] \o l
        BY <2>2, RequestKinds DEF TypeInv, TypeOK, StartNew, Starting
      <3>3. Len(s) = Len(queues[p]) + Len(l) /\ Len(l) \in Nat
        BY <3>2, Counts, ConcatProperties, LenProperties
      <3>4. QueuedCount' = QueuedCount + Len(l)
        <4>1. queues' = [queues EXCEPT ![p] = s] /\ Len(queues[p]) \in Nat
          BY <3>1, <3>2, Counts
        <4>2. Len(s) \in Nat
          BY <3>3, <4>1
        <4>3. QueuedCount' \in Nat /\ QueuedCount' + Len(queues[p]) = QueuedCount + Len(s)
          BY <3>2, <4>1, <4>2, OneQueueGrows
        <4>4. PICK m \in Nat, n \in Nat : m = Len(l) /\ n = Len(queues[p])
          BY <3>3, <4>1
        <4>5. QueuedCount' + n = QueuedCount + (n + m)
          BY <3>3, <4>3, <4>4
        <4>6. QueuedCount' = QueuedCount + m
          <5>1. PICK x \in Nat, y \in Nat : x = QueuedCount /\ y = QueuedCount'
            BY <4>3, Counts
          <5>2. y + n = x + (n + m)
            BY <4>5, <5>1
          <5>3. y = x + m
            BY <5>2
          <5> QED  BY <5>1, <5>3
        <4> QED  BY <4>4, <4>6
      <3>5. QueuedCount + Len(l) <= MaxQueued
        BY <2>2, <3>1, <3>3, Counts, ConstantsOK DEF StartNew, OverLimit
      <3>6. QueuedCount' + Cardinality(Held') <= MaxQueued + Cardinality(Workers)
        BY <2>1, <3>3, <3>4, <3>5, Counts, ConstantsOK
      <3> QED  BY <3>6 DEF Room, Held
    <2>3. CASE StartExisting(c) \/ RejectExisting(c)
      <3>1. QueuedCount' = QueuedCount
        BY <2>3, PromoteKeepsCount DEF StartExisting, RejectExisting
      <3> QED  BY <2>1, <3>1 DEF Room, Held
    <2>4. CASE UNCHANGED queues
      BY <2>1, <2>4 DEF Room, Held, QueuedCount
    <2> QED  BY <1>2, <2>2, <2>3, <2>4 DEF ClientCalls, ClientProceeds, CallStart, CallBatch,
                ReadGames, RejectNew, RecordNext, Return, SetPaused, StorePaused, Cancel, queueVars
  <1>3. CASE Die
    <2>1. Held' = {} /\ QueuedCount' = 0
      <3>1. queues'[Interactive] = <<>> /\ queues'[Historical] = <<>>
        BY <1>3, PriorityFacts DEF Die
      <3>2. Len(queues'[Interactive]) = 0 /\ Len(queues'[Historical]) = 0
        BY <3>1
      <3>3. QueuedCount' = 0
        BY <3>2 DEF QueuedCount
      <3> QED  BY <1>3, <3>3 DEF Die, Held, Executing, ExecutingAt
    <2>2. QueuedCount' + Cardinality(Held') <= MaxQueued + Cardinality(Workers)
      BY <2>1, FS_EmptySet, Counts, ConstantsOK
    <2> QED  BY <2>2 DEF Room, Held
  <1>4. CASE Boot
    <2>1. PICK order \in SetToSeqs(Recoverable) :
             queues' = [queues EXCEPT ![Historical] =
                          [j \in 1 .. Len(order) |->
                              NewTask(j, order[j] \in shallow, Historical)]]
      BY <1>4 DEF Boot
    <2>2. Len(order) = Cardinality(Recoverable) /\ Len(order) \in Nat /\ Len(order) <= MaxQueued
      <3>1. IsFiniteSet(Recoverable)
        BY FS_Subset, ConstantsOK DEF Recoverable
      <3>2. Len(order) = Cardinality(Recoverable) /\ Cardinality(Recoverable) \in Nat
        BY <3>1, <2>1, SetToSeqsFacts
      <3> QED  BY <1>4, <3>2 DEF Boot
    <2>3. Len(queues'[Historical]) = Len(order) /\ queues'[Interactive] = <<>>
      BY <1>4, <2>1, <2>2, PriorityFacts DEF Boot, TypeInv, DownIsEmpty
    <2>4. QueuedCount' = Len(order)
      <3>1. Len(queues'[Interactive]) = 0
        BY <2>3
      <3> QED  BY <2>2, <2>3, <3>1 DEF QueuedCount
    <2>5. Held' = Held
      BY <1>4 DEF Boot, workerVars, Held, Executing
    <2>6. QueuedCount' + Cardinality(Held') <= MaxQueued + Cardinality(Workers)
      BY <2>2, <2>4, <2>5, Counts, ConstantsOK
    <2> QED  BY <2>6 DEF Room, Held
  <1>5. CASE Shutdown \/ BootFails \/ UNCHANGED vars
    BY <1>5 DEF Shutdown, BootFails, vars, queueVars, workerVars, Room, Held, Executing, QueuedCount
  <1> QED
    BY <1>1, <1>2, <1>3, <1>4, <1>5 DEF Next, Process, Crash, RecordKills, Joined

LEMMA RoomInit == Init => Room
  <1> SUFFICES ASSUME Init PROVE Room
    OBVIOUS
  <1>1. Held = {} /\ QueuedCount = 0
    <2>1. queues[Interactive] = <<>> /\ queues[Historical] = <<>>
      BY PriorityFacts DEF Init
    <2>2. Len(queues[Interactive]) = 0 /\ Len(queues[Historical]) = 0
      BY <2>1
    <2>3. QueuedCount = 0
      BY <2>2 DEF QueuedCount
    <2> QED  BY <2>3 DEF Init, Held, Executing, ExecutingAt
  <1> QED
    BY <1>1, FS_EmptySet, FS_CardinalityType, ConstantsOK DEF Room

\* max_queued bounds what start accepts, not what workers put back, and still the queues
\* never hold more than max_queued tasks and one for each worker.
THEOREM OvershootBounded ==
    ASSUME "record" \notin Faults PROVE Spec => []QueuesBounded
  <1>1. Init => TypeInv /\ Room
    BY TypeInvInit, RoomInit
  <1>2. TypeInv /\ Room /\ [Next]_vars => (TypeInv /\ Room)'
    BY TypeInvNext, RoomNext
  <1>3. TypeInv /\ Room => QueuesBounded
    BY Counts, ConstantsOK DEF Room, QueuesBounded
  <1> QED
    BY <1>1, <1>2, <1>3, PTL DEF Spec

-----------------------------------------------------------------------------
(* Interactive work preempts historical work when there is one worker.      *)

\* What a worker executes is what active_tasks_ says of its job.
ActiveAgrees ==
    \A w \in Workers : Executing(w) =>
        /\ task[w].job \in DOMAIN active
        /\ active[task[w].job].prio = task[w].prio /\ active[task[w].job].src = task[w].src

\* An interactive start asks for one game.
OneGame == \A c \in Clients : request[c].kind = "start" /\ request[c].prio = Interactive
                                  => \E g \in Games : request[c].games = {g}

\* The historical analysis that is about to run, or runs, is told to stop.
Told == \A w \in Workers : queues[Interactive] # <<>> /\ wpc[w] \in {"announce", "look", "analyze"}
                               /\ task[w].prio = Historical => task[w].src \in stopped

PreemptInv == TypeInv /\ QueuesSorted /\ Room /\ ActiveAgrees /\ OneGame /\ Told

LEMMA OneGameNext == TypeInv /\ OneGame /\ [Next]_vars => OneGame'
  <1> SUFFICES ASSUME TypeInv, OneGame, [Next]_vars PROVE OneGame'
    OBVIOUS
  <1>0. request \in [Clients -> Requests]
    BY DEF TypeInv, TypeOK
  <1>1. CASE UNCHANGED request
    BY <1>1 DEF OneGame
  <1>2. CASE Die
    BY <1>2 DEF Die, OneGame, NoRequest
  <1>3. ASSUME NEW c \in Clients, ClientCalls(c) \/ ClientProceeds(c) PROVE OneGame'
    <2>1. ASSUME NEW r, request' = [request EXCEPT ![c] = r],
                 r.kind # "start" \/ (r.prio = Historical) \/ \E g \in Games : r.games = {g}
          PROVE  OneGame'
      BY <1>0, <2>1, PriorityFacts DEF OneGame
    <2>2. CASE CallStart(c)
      <3>1. PICK g \in Games : ReadGames(c, {g}, Interactive)
        BY <2>2 DEF CallStart
      <3>2. PICK r : /\ request' = [request EXCEPT ![c] = r]
                     /\ r = [kind |-> "start", games |-> {g}, prio |-> Interactive,
                             shallow |-> {g} \cap shallow, complete |-> {g} \cap analyzed]
        BY <3>1 DEF ReadGames, Proceed
      <3>3. r.games = {g}
        BY <3>2
      <3> QED  BY <2>1, <3>2, <3>3
    <2>3. CASE CallBatch(c)
      <3>1. PICK games : ReadGames(c, games, Historical)
        BY <2>3 DEF CallBatch
      <3>2. PICK r : /\ request' = [request EXCEPT ![c] = r]
                     /\ r = [kind |-> "start", games |-> games, prio |-> Historical,
                             shallow |-> games \cap shallow, complete |-> games \cap analyzed]
        BY <3>1 DEF ReadGames, Proceed
      <3>3. r.prio = Historical
        BY <3>2
      <3> QED  BY <2>1, <3>2, <3>3
    <2>4. CASE StartNew(c) \/ RecordNext(c) \/ Cancel(c)
      <3>1. PICK l : request' = [request EXCEPT ![c] = [kind |-> "record", list |-> l]]
        BY <2>4 DEF StartNew, RecordNext, Cancel, Proceed
      <3>2. PICK r : r = [kind |-> "record", list |-> l]
        OBVIOUS
      <3>3. r.kind # "start"
        BY <3>2
      <3> QED  BY <2>1, <3>1, <3>2, <3>3
    <2>5. CASE StartExisting(c) \/ RejectNew(c) \/ RejectExisting(c) \/ Return(c) \/ StorePaused(c)
      <3>1. request' = [request EXCEPT ![c] = NoRequest]
        BY <2>5 DEF StartExisting, RejectNew, RejectExisting, Return, StorePaused, Proceed
      <3>2. NoRequest.kind # "start"
        BY DEF NoRequest
      <3> QED  BY <2>1, <3>1, <3>2
    <2>6. CASE SetPaused(c)
      <3>1. PICK b : request' = [request EXCEPT ![c] = [kind |-> "storePause", value |-> b]]
        BY <2>6 DEF SetPaused, Proceed
      <3>2. PICK r : r = [kind |-> "storePause", value |-> b]
        OBVIOUS
      <3>3. r.kind # "start"
        BY <3>2
      <3> QED  BY <2>1, <3>1, <3>2, <3>3
    <2> QED  BY <1>3, <2>2, <2>3, <2>4, <2>5, <2>6 DEF ClientCalls, ClientProceeds
  <1>4. Shutdown \/ Boot \/ BootFails \/ UNCHANGED vars => UNCHANGED request
    BY DEF Shutdown, Boot, BootFails, vars
  <1>5. \A w \in Workers : WorkerStep(w) => UNCHANGED request
    BY DEF WorkerStep, Take, Discard, Announce, Look, Found, Analyze, AnalyzeThrows, SaveThrows,
       CommitDeep, CommitShallow, RecordRequeued, RecordRequeuedThrows, Catch, Finish, Snapshot,
       Record
  <1> QED
    BY <1>1, <1>2, <1>3, <1>4, <1>5 DEF Next, Process, Crash, RecordKills, Joined

\* What a client leaves: the worker is told if interactive work waits.
LEMMA ClientTells ==
    ASSUME PreemptInv, Cardinality(Workers) = 1, NEW c \in Clients,
           ClientCalls(c) \/ ClientProceeds(c)
    PROVE  Told'
  <1>0. /\ TypeInv /\ QueuesSorted /\ Room /\ ActiveAgrees /\ OneGame /\ Told
        /\ UNCHANGED <<wpc, task>>
        /\ queues \in [Priorities -> Seq(Tasks)]
    BY ClientFrame DEF PreemptInv, TypeInv, TypeOK, QueuesTypeOK
  <1> SUFFICES ASSUME NEW w \in Workers, queues'[Interactive] # <<>>,
                      wpc[w] \in {"announce", "look", "analyze"}, task[w].prio = Historical
               PROVE  task[w].src \in stopped'
    BY <1>0 DEF Told
  <1>1. /\ Executing(w) /\ task[w].job \in DOMAIN active
        /\ active[task[w].job].prio = Historical /\ active[task[w].job].src = task[w].src
    BY <1>0 DEF ActiveAgrees, Executing, ExecutingAt
  <1>2. task[w].src \in PreemptedSources
    BY <1>1 DEF PreemptedSources
  <1>3. CASE \/ CallStart(c) \/ CallBatch(c) \/ RejectNew(c) \/ RecordNext(c) \/ Return(c)
             \/ SetPaused(c) \/ StorePaused(c) \/ Cancel(c)
    <2>1. UNCHANGED queues /\ stopped \subseteq stopped'
      BY <1>3 DEF CallStart, CallBatch, ReadGames, RejectNew, RecordNext, Return, SetPaused,
                  StorePaused, Cancel, queueVars
    <2> QED  BY <1>0, <2>1 DEF Told
  <1>4. CASE StartNew(c)
    <2>1. stopped' = stopped \cup PreemptFor(request[c].prio)
      BY <1>4 DEF StartNew
    <2>2. CASE request[c].prio = Historical
      <3>1. \E s : queues' = [queues EXCEPT ![Historical] = s]
        BY <1>4, <2>2 DEF StartNew
      <3>2. queues'[Interactive] = queues[Interactive]
        BY <1>0, <3>1, PriorityFacts
      <3> QED  BY <1>0, <2>1, <3>2 DEF Told
    <2>3. CASE request[c].prio # Historical
      BY <1>2, <2>1, <2>3 DEF PreemptFor
    <2> QED  BY <2>2, <2>3
  <1>5. CASE StartExisting(c)
    BY <1>2, <1>5 DEF StartExisting
  <1>6. CASE RejectExisting(c)
    <2>1. PICK j \in DOMAIN jobs : Existing(c, j) /\ OverLimit(request[c])
      BY <1>6 DEF RejectExisting
    <2>2. request[c].kind = "start" /\ request[c].prio = Interactive
          /\ \E g \in request[c].games : LiveJobs(g) # {}
      BY <2>1 DEF Existing, Starting
    <2>3. NewGames(request[c].games) = {}
      BY <1>0, <2>2 DEF OneGame, NewGames
    <2>4. NewTasks(request[c]) = 0
      <3>1. NewGames(request[c].games) \ request[c].complete = {}
        BY <2>3
      <3> QED  BY <3>1, FS_EmptySet DEF NewTasks
    <2>5. Cardinality(Held) >= 1
      <3>1. Held # {} /\ IsFiniteSet(Held) /\ Cardinality(Held) \in Nat
        BY <1>0, <1>1, Counts DEF Held
      <3>2. Cardinality(Held) # 0
        BY <3>1, FS_EmptySet
      <3> QED  BY <3>1, <3>2
    <2>6. PICK q \in Nat, h \in Nat : q = QueuedCount /\ h = Cardinality(Held)
      BY <1>0, Counts
    <2>7. q > MaxQueued
      BY <2>1, <2>4, <2>6, ConstantsOK DEF OverLimit
    <2>8. q + h <= MaxQueued + 1 /\ h >= 1
      BY <1>0, <2>5, <2>6 DEF Room
    <2>9. FALSE
      BY <2>7, <2>8, ConstantsOK
    <2> QED  BY <2>9
  <1> QED
    BY <1>3, <1>4, <1>5, <1>6 DEF ClientCalls, ClientProceeds

LEMMA WorkerTells ==
    ASSUME PreemptInv, NEW x, Workers = {x}, WorkerStep(x), "record" \notin Faults
    PROVE  ActiveAgrees' /\ Told'
  <1>0. /\ TypeInv /\ QueuesSorted /\ ActiveAgrees /\ Told /\ x \in Workers
        /\ wpc \in [Workers -> WorkerAt] /\ task \in [Workers -> Tasks]
        /\ queues \in [Priorities -> Seq(Tasks)]
    BY DEF PreemptInv, TypeInv, TypeOK, WorkerTypeOK, QueuesTypeOK
  <1>1. CASE Take(x)
    <2> DEFINE p == BestQueue
               t == Head(queues[p])
    <2>1. /\ p \in Priorities /\ queues[p] # <<>> /\ (queues[Interactive] # <<>> => p = Interactive)
      BY <1>1, PriorityFacts DEF Take, CanTake, Servable, BestQueue
    <2>2. PICK s :
             /\ task' = [task EXCEPT ![x] = [t EXCEPT !.src = s]]
             /\ active' = [j \in DOMAIN active \cup {t.job} |->
                                 IF j = t.job THEN [prio |-> p, src |-> s] ELSE active[j]]
      BY <1>1 DEF Take
    <2>3. queues' = [queues EXCEPT ![p] = Tail(queues[p])]
      BY <1>1 DEF Take
    <2> HIDE DEF p
    <2>4. t \in Tasks /\ t.prio = p
      <3>1. t \in TasksOf(p)
        BY <1>0, <2>1, HeadTailType DEF QueuesSorted
      <3> QED  BY <3>1 DEF TasksOf
    <2> HIDE DEF t
    <2>5. task'[x].job = t.job /\ task'[x].prio = p /\ task'[x].src = s
      BY <1>0, <2>2, <2>4 DEF Tasks
    <2>6. /\ task'[x].job \in DOMAIN active' /\ active'[task'[x].job].prio = task'[x].prio
          /\ active'[task'[x].job].src = task'[x].src
      BY <2>2, <2>5
    <2>7. ActiveAgrees'
      BY <2>6 DEF ActiveAgrees
    <2>8. p = Historical => queues'[Interactive] = <<>>
      BY <1>0, <2>1, <2>3, PriorityFacts
    <2>9. Told'
      BY <2>5, <2>8 DEF Told
    <2> QED  BY <2>7, <2>9
  <1>2. CASE Announce(x) \/ Look(x) \/ Analyze(x) \/ AnalyzeThrows(x) \/ SaveThrows(x)
    <2>1. /\ UNCHANGED <<active, task, queues, stopped>> /\ Executing(x)
          /\ wpc'[x] \in {"announce", "look", "analyze"} => wpc[x] \in {"announce", "look", "analyze"}
      BY <1>0, <1>2 DEF Announce, Look, Analyze, AnalyzeThrows, SaveThrows, Throws, Goto, queueVars,
                  Executing, ExecutingAt
    <2>2. ActiveAgrees'
      BY <1>0, <2>1 DEF ActiveAgrees, Executing
    <2>3. Told'
      BY <1>0, <2>1 DEF Told
    <2> QED  BY <2>2, <2>3
  <1>3. ~RecordRequeuedThrows(x)
    BY DEF RecordRequeuedThrows
  <1>4. CASE \/ Discard(x) \/ Found(x) \/ CommitDeep(x) \/ CommitShallow(x) \/ RecordRequeued(x)
             \/ Catch(x) \/ Finish(x) \/ Snapshot(x) \/ Record(x)
    <2>1. ~Executing(x)'
      BY <1>0, <1>4 DEF Discard, CanTake, Found, CommitDeep, CommitShallow, RecordRequeued, Catch,
                  Finish, Snapshot, Record, Goto, workerVars, Executing, ExecutingAt
    <2> QED  BY <2>1 DEF ActiveAgrees, Told, Executing, ExecutingAt
  <1> QED
    BY <1>1, <1>2, <1>3, <1>4 DEF WorkerStep

LEMMA PreemptNext ==
    ASSUME "record" \notin Faults, Cardinality(Workers) = 1
    PROVE  PreemptInv /\ [Next]_vars => PreemptInv'
  <1> SUFFICES ASSUME PreemptInv, [Next]_vars PROVE PreemptInv'
    OBVIOUS
  <1>0. TypeInv /\ QueuesSorted /\ Room /\ ActiveAgrees /\ OneGame /\ Told
    BY DEF PreemptInv
  <1>1. TypeInv' /\ QueuesSorted' /\ Room' /\ OneGame'
    BY <1>0, TypeInvNext, SortedNext, RoomNext, OneGameNext
  <1>2. PICK x : Workers = {x}
    <2>1. IsFiniteSet(Workers)
      BY ConstantsOK
    <2>2. \A S : IsFiniteSet(S) => (Cardinality(S) = 1 <=> \E x : S = {x})
      BY FS_Singleton
    <2> QED  BY <2>1, <2>2, Zenon
  <1>3. ActiveAgrees' /\ Told'
    <2>1. ASSUME NEW w \in Workers, WorkerStep(w) PROVE ActiveAgrees' /\ Told'
      BY <1>2, <2>1, WorkerTells
    <2>2. ASSUME NEW c \in Clients, ClientCalls(c) \/ ClientProceeds(c)
          PROVE  ActiveAgrees' /\ Told'
      <3>1. Told'
        BY <2>2, ClientTells
      <3>2. UNCHANGED <<wpc, task>>
        BY <1>0, <2>2, ClientFrame
      <3>3. UNCHANGED active
        BY <2>2 DEF ClientCalls, ClientProceeds, CallStart, CallBatch, ReadGames, Cancel, SetPaused,
                  StartNew, StartExisting, RejectNew, RejectExisting, RecordNext, Return,
                  StorePaused, queueVars
      <3> QED  BY <1>0, <3>1, <3>2, <3>3 DEF ActiveAgrees, Executing
    <2>3. CASE Die \/ Boot
      <3>1. \A w \in Workers : wpc'[w] = "idle"
        BY <1>0, <2>3 DEF Die, Boot, TypeInv, DownIsEmpty, workerVars
      <3> QED  BY <3>1 DEF ActiveAgrees, Told, Executing, ExecutingAt
    <2>4. CASE Shutdown \/ BootFails \/ UNCHANGED vars
      <3>1. UNCHANGED <<wpc, task, active, queues>> /\ stopped \subseteq stopped'
        BY <2>4 DEF Shutdown, BootFails, vars, queueVars, workerVars
      <3> QED  BY <1>0, <3>1 DEF ActiveAgrees, Told, Executing
    <2> QED  BY <2>1, <2>2, <2>3, <2>4 DEF Next, Process, Crash, RecordKills, Joined
  <1> QED
    BY <1>1, <1>3 DEF PreemptInv

\* With one worker, interactive work never waits for a whole historical analysis: the one
\* that runs is already told to stop.  A start that finds its job and is refused does not
\* preempt; no such start can happen while the worker runs, because the task it holds leaves
\* room in the queues.
THEOREM InteractiveFirst ==
    ASSUME "record" \notin Faults PROVE Spec => []InteractivePreempts
  <1>1. CASE Cardinality(Workers) # 1
    <2>1. InteractivePreempts
      BY <1>1 DEF InteractivePreempts
    <2> QED  BY <2>1, PTL
  <1>2. CASE Cardinality(Workers) = 1
    <2>1. Init => PreemptInv
      <3> SUFFICES ASSUME Init PROVE QueuesSorted /\ ActiveAgrees /\ OneGame /\ Told
        BY TypeInvInit, RoomInit DEF PreemptInv
      <3>1. QueuesSorted
        BY DEF Init, QueuesSorted
      <3>2. ActiveAgrees /\ OneGame /\ Told
        BY DEF Init, ActiveAgrees, OneGame, Told, NoRequest, Executing, ExecutingAt
      <3> QED  BY <3>1, <3>2
    <2>2. PreemptInv /\ [Next]_vars => PreemptInv'
      BY <1>2, PreemptNext
    <2>3. PreemptInv => InteractivePreempts
      BY DEF PreemptInv, Told, InteractivePreempts
    <2> QED  BY <2>1, <2>2, <2>3, PTL DEF Spec
  <1> QED
    BY <1>1, <1>2

=============================================================================
