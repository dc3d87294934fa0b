-------------------------- MODULE PoolAndLogProofs --------------------------
(***************************************************************************)
(* Proofs about two components that share nothing.                         *)
(* EnginePool for any callers, workers, limits and retries: every call is  *)
(* in exactly one place until it is answered, and nowhere afterwards; and  *)
(* as long as a worker sleeps, somebody is on the way for each work that   *)
(* could be served.  The first rests on where a work can be and on the     *)
(* count of active works, which bounds the queues; the second on a count   *)
(* of the threads that are bound to look or to notify.                     *)
(* EventStore for any games, plans and bounds: the watermark of a snapshot *)
(* divides the records in the log, and compaction changes nothing a start  *)
(* shows, both for every fault; and what was acknowledged is there after   *)
(* every start, unless a failed append leaves a fragment.  These rest on   *)
(* what replay reads of a file that an append has lengthened, in whole or  *)
(* in part: what it read before, and then some of what was appended, in    *)
(* order; and on what each record does to its key: compaction drops those  *)
(* whose effect a later one replaces.                                      *)
(***************************************************************************)
EXTENDS EnginePool, EventStore,
        TLAPS, SequenceTheorems, FiniteSetTheorems, WellFoundedInduction

-----------------------------------------------------------------------------
(* The engine pool.  The invariant.                                        *)

WorkType == [prio : Priorities, attempts : Nat, stop : BOOLEAN, promise : {"unset", "value", "error"}]
HeldType == [of : SUBSET Callers, prio : Priorities]
WorkerAt == {"check", "asleep", "run", "deliver", "finish", "threw", "notifyOne", "fail", "notifyAll",
             "exited"}

PoolTypeOK ==
    /\ mode \in {"up", "stopping", "joining", "gone"}
    /\ queues \in [Priorities -> Seq(Callers)]
    /\ active \in Int /\ activeBy \in [Priorities -> Int] /\ abandoned \subseteq Callers
    /\ calling \in [Callers -> {"idle", "notify", "waiting"}]
    /\ work \in [Callers -> WorkType]
    /\ wpc \in [Workers -> WorkerAt]
    /\ held \in [Workers -> HeldType]

\* The three places of a work.
InQueue(c) == \E p \in Priorities : \E i \in 1 .. Len(queues[p]) : queues[p][i] = c
InHand(c) == \E w \in Workers : c \in held[w].of
Waiting(c) == calling[c] # "idle" /\ work[c].promise = "unset"

\* No work is twice in the same place.
QueuedOnce ==
    \A p, q \in Priorities : \A i \in 1 .. Len(queues[p]), j \in 1 .. Len(queues[q]) :
        queues[p][i] = queues[q][j] => p = q /\ i = j
HeldOnce == \A w, v \in Workers : \A c \in held[w].of, d \in held[v].of : c = d <=> w = v

\* No work is in two places, and it is in one exactly as long as its caller waits.
OnePlace ==
    \A c \in Callers :
        /\ ~(InQueue(c) /\ InHand(c)) /\ ~(InQueue(c) /\ c \in abandoned)
        /\ ~(InHand(c) /\ c \in abandoned)
        /\ Waiting(c) <=> InQueue(c) \/ InHand(c) \/ c \in abandoned

\* A worker has a work in hand only from the moment it takes it until it answers it, and the
\* destructor has some only after the shutdown.
HandsEmpty == \A w \in Workers : wpc[w] \in {"run", "deliver", "threw", "fail"} \/ held[w].of = {}
NothingAbandoned == mode = "up" => abandoned = {}

\* active counts the workers between take() and finish_active() or the catch block, and with
\* what is queued it stays under the limit of submissions.
Counted == {w \in Workers : wpc[w] \in {"run", "deliver", "threw", "finish"}}
ActiveExact == active = Cardinality(Counted)
WithinPending == Pending <= MaxPending

PoolInv == PoolTypeOK /\ QueuedOnce /\ HeldOnce /\ OnePlace /\ HandsEmpty /\ NothingAbandoned
           /\ ActiveExact /\ WithinPending

\* Who will look at the queues, or wake someone who does: unlike in OnTheWay, a worker that has
\* still to finish does not count, as its finishing may make one more work servable.
Bound == {w \in Workers : wpc[w] \in {"check", "notifyOne", "fail", "notifyAll"}}
Notifying == {c \in Callers : calling[c] = "notify"}
WakeupInv ==
    mode = "up" /\ Asleep(wpc) # {} => ServableWorks <= Cardinality(Bound) + Cardinality(Notifying)

-----------------------------------------------------------------------------
(* The operators.                                                          *)

LEMMA PriorityFacts ==
    /\ 0 \in Priorities /\ 1 \in Priorities /\ 2 \in Priorities
    /\ Interactive = 0 /\ Historical = 2
    /\ \A p \in Priorities : p = 0 \/ p = 1 \/ p = 2
  BY DEF Priorities, Interactive, Historical

LEMMA NewWorkType ==
    ASSUME NEW p \in Priorities
    PROVE  NewWork(p) \in WorkType /\ NewWork(p).promise = "unset" /\ NoWork \in WorkType
           /\ NotHeld \in HeldType /\ NotHeld.of = {}
  BY PriorityFacts DEF NewWork, NoWork, WorkType, NotHeld, HeldType

LEMMA QueuedIsInQueue == ASSUME PoolTypeOK PROVE \A c : c \in Queued <=> InQueue(c)
  <1>1. \A p \in Priorities : DOMAIN queues[p] = 1 .. Len(queues[p])
    BY LenProperties DEF PoolTypeOK
  <1> QED
    BY <1>1 DEF Queued, InQueue, ToSet

\* Where the elements of a list are after an Append, a Tail and a retry at its front.
LEMMA AppendSlots ==
    ASSUME NEW s \in Seq(Callers), NEW c \in Callers
    PROVE  /\ Append(s, c) \in Seq(Callers) /\ Len(Append(s, c)) = Len(s) + 1 /\ Len(s) \in Nat
           /\ \A i \in 1 .. Len(s) : Append(s, c)[i] = s[i]
           /\ Append(s, c)[Len(s) + 1] = c
  BY AppendProperties, LenProperties

LEMMA TailSlots ==
    ASSUME NEW s \in Seq(Callers), s # <<>>
    PROVE  /\ Tail(s) \in Seq(Callers) /\ Len(Tail(s)) = Len(s) - 1 /\ Len(s) \in Nat \ {0}
           /\ \A i \in 1 .. Len(s) - 1 : Tail(s)[i] = s[i + 1]
           /\ Head(s) = s[1] /\ Head(s) \in Callers
  BY HeadTailProperties, LenProperties

LEMMA FrontSlots ==
    ASSUME NEW s \in Seq(Callers), NEW c \in Callers
    PROVE  /\ <<c>> \o s \in Seq(Callers) /\ Len(<<c>> \o s) = Len(s) + 1 /\ Len(s) \in Nat
           /\ (<<c>> \o s)[1] = c
           /\ \A i \in 1 .. Len(s) : (<<c>> \o s)[i + 1] = s[i]
  <1>1. <<c>> \in Seq(Callers) /\ Len(<<c>>) = 1 /\ <<c>>[1] = c /\ Len(s) \in Nat
    BY LenProperties
  <1>2. /\ <<c>> \o s \in Seq(Callers) /\ Len(<<c>> \o s) = 1 + Len(s)
        /\ \A i \in 1 .. 1 + Len(s) : (<<c>> \o s)[i] = IF i <= 1 THEN <<c>>[i] ELSE s[i - 1]
    BY <1>1, ConcatProperties
  <1>3. \A i \in 1 .. Len(s) : (<<c>> \o s)[i + 1] = s[i]
    <2> TAKE i \in 1 .. Len(s)
    <2>1. i + 1 \in 1 .. 1 + Len(s) /\ ~(i + 1 <= 1) /\ (i + 1) - 1 = i
      BY <1>1
    <2> QED  BY <1>2, <2>1
  <1>4. 1 \in 1 .. 1 + Len(s)
    BY <1>1
  <1> QED
    BY <1>1, <1>2, <1>3, <1>4

LEMMA AppendQueued ==
    ASSUME PoolTypeOK, QueuedOnce, NEW p \in Priorities, NEW c \in Callers, ~InQueue(c),
           queues' = [queues EXCEPT ![p] = Append(@, c)]
    PROVE  /\ queues' \in [Priorities -> Seq(Callers)] /\ QueuedOnce'
           /\ \A d : InQueue(d)' <=> InQueue(d) \/ d = c
           /\ Len(queues'[p]) = Len(queues[p]) + 1
           /\ \A q \in Priorities \ {p} : queues'[q] = queues[q]
  <1>1. /\ Append(queues[p], c) \in Seq(Callers) /\ Len(queues[p]) \in Nat
        /\ Len(Append(queues[p], c)) = Len(queues[p]) + 1
        /\ \A i \in 1 .. Len(queues[p]) : Append(queues[p], c)[i] = queues[p][i]
        /\ Append(queues[p], c)[Len(queues[p]) + 1] = c
    BY AppendSlots DEF PoolTypeOK
  <1>2. /\ queues' \in [Priorities -> Seq(Callers)] /\ queues'[p] = Append(queues[p], c)
        /\ \A q \in Priorities \ {p} : queues'[q] = queues[q]
    BY <1>1 DEF PoolTypeOK
  <1>3. \A q \in Priorities : \A i \in 1 .. Len(queues'[q]) :
            \/ i \in 1 .. Len(queues[q]) /\ queues'[q][i] = queues[q][i]
            \/ q = p /\ i = Len(queues[p]) + 1 /\ queues'[q][i] = c
    BY <1>1, <1>2
  <1>4. QueuedOnce'
    BY <1>3 DEF QueuedOnce, InQueue
  <1>5. \A d : InQueue(d)' => InQueue(d) \/ d = c
    BY <1>3 DEF InQueue
  <1>6. \A d : InQueue(d) \/ d = c => InQueue(d)'
    <2>1. \A q \in Priorities : \A i \in 1 .. Len(queues[q]) :
              i \in 1 .. Len(queues'[q]) /\ queues'[q][i] = queues[q][i]
      BY <1>1, <1>2
    <2>2. Len(queues[p]) + 1 \in 1 .. Len(queues'[p]) /\ queues'[p][Len(queues[p]) + 1] = c
      BY <1>1, <1>2
    <2> QED  BY <2>1, <2>2 DEF InQueue
  <1> QED
    BY <1>1, <1>2, <1>4, <1>5, <1>6

LEMMA FrontQueued ==
    ASSUME PoolTypeOK, QueuedOnce, NEW p \in Priorities, NEW c \in Callers, ~InQueue(c),
           queues' = [queues EXCEPT ![p] = <<c>> \o @]
    PROVE  /\ queues' \in [Priorities -> Seq(Callers)] /\ QueuedOnce'
           /\ \A d : InQueue(d)' <=> InQueue(d) \/ d = c
           /\ Len(queues'[p]) = Len(queues[p]) + 1
           /\ \A q \in Priorities \ {p} : queues'[q] = queues[q]
  <1>1. /\ <<c>> \o queues[p] \in Seq(Callers) /\ Len(queues[p]) \in Nat
        /\ Len(<<c>> \o queues[p]) = Len(queues[p]) + 1
        /\ (<<c>> \o queues[p])[1] = c
        /\ \A i \in 1 .. Len(queues[p]) : (<<c>> \o queues[p])[i + 1] = queues[p][i]
    BY FrontSlots DEF PoolTypeOK
  <1>2. /\ queues' \in [Priorities -> Seq(Callers)] /\ queues'[p] = <<c>> \o queues[p]
        /\ \A q \in Priorities \ {p} : queues'[q] = queues[q]
    BY <1>1 DEF PoolTypeOK
  <1>3. \A i \in 1 .. Len(queues'[p]) :
            \/ i - 1 \in 1 .. Len(queues[p]) /\ queues'[p][i] = queues[p][i - 1]
            \/ i = 1 /\ queues'[p][i] = c
    <2> TAKE i \in 1 .. Len(queues'[p])
    <2>1. CASE i = 1
      BY <1>1, <1>2, <2>1
    <2>2. CASE i # 1
      <3>1. i - 1 \in 1 .. Len(queues[p]) /\ (i - 1) + 1 = i
        BY <1>1, <1>2, <2>2
      <3> QED  BY <1>1, <1>2, <3>1
    <2> QED  BY <2>1, <2>2
  <1>4. QueuedOnce'
    <2> SUFFICES ASSUME NEW q \in Priorities, NEW r \in Priorities,
                        NEW i \in 1 .. Len(queues'[q]), NEW j \in 1 .. Len(queues'[r]),
                        queues'[q][i] = queues'[r][j]
                 PROVE  q = r /\ i = j
      BY DEF QueuedOnce
    <2>1. \A k \in 1 .. Len(queues[p]) : queues[p][k] # c
      BY DEF InQueue
    <2>2. \A t \in Priorities \ {p} : \A k \in 1 .. Len(queues'[t]) :
              queues'[t][k] = queues[t][k] /\ k \in 1 .. Len(queues[t]) /\ queues[t][k] # c
      BY <1>2 DEF InQueue
    <2>3. CASE q # p /\ r # p
      BY <1>2, <2>2, <2>3 DEF QueuedOnce
    <2>4. CASE q = p /\ r # p
      BY <1>3, <2>2, <2>4 DEF QueuedOnce
    <2>5. CASE q # p /\ r = p
      BY <1>3, <2>2, <2>5 DEF QueuedOnce
    <2>6. CASE q = p /\ r = p
      <3>1. i \in Int /\ j \in Int
        BY <1>1, <1>2, <2>6
      <3>2. CASE i = 1
        BY <1>3, <2>1, <2>6, <3>2
      <3>3. CASE j = 1
        BY <1>3, <2>1, <2>6, <3>3
      <3>4. CASE i # 1 /\ j # 1
        <4>1. i - 1 = j - 1
          BY <1>3, <2>6, <3>4 DEF QueuedOnce
        <4> QED  BY <2>6, <3>1, <4>1
      <3> QED  BY <3>2, <3>3, <3>4
    <2> QED  BY <2>3, <2>4, <2>5, <2>6
  <1>5. \A d : InQueue(d)' => InQueue(d) \/ d = c
    BY <1>2, <1>3 DEF InQueue
  <1>6. \A d : InQueue(d) \/ d = c => InQueue(d)'
    <2>1. \A i \in 1 .. Len(queues[p]) :
              i + 1 \in 1 .. Len(queues'[p]) /\ queues'[p][i + 1] = queues[p][i]
      BY <1>1, <1>2
    <2>2. 1 \in 1 .. Len(queues'[p]) /\ queues'[p][1] = c
      BY <1>1, <1>2
    <2> QED  BY <1>2, <2>1, <2>2 DEF InQueue
  <1> QED
    BY <1>1, <1>2, <1>4, <1>5, <1>6

LEMMA TailQueued ==
    ASSUME PoolTypeOK, QueuedOnce, NEW p \in Priorities, queues[p] # <<>>,
           queues' = [queues EXCEPT ![p] = Tail(@)]
    PROVE  /\ queues' \in [Priorities -> Seq(Callers)] /\ QueuedOnce'
           /\ Head(queues[p]) \in Callers /\ InQueue(Head(queues[p]))
           /\ \A d : InQueue(d)' <=> InQueue(d) /\ d # Head(queues[p])
           /\ Len(queues'[p]) = Len(queues[p]) - 1 /\ Len(queues[p]) \in Nat \ {0}
           /\ \A q \in Priorities \ {p} : queues'[q] = queues[q]
  <1>1. /\ Tail(queues[p]) \in Seq(Callers) /\ Len(queues[p]) \in Nat \ {0}
        /\ Len(Tail(queues[p])) = Len(queues[p]) - 1
        /\ \A i \in 1 .. Len(queues[p]) - 1 : Tail(queues[p])[i] = queues[p][i + 1]
        /\ Head(queues[p]) = queues[p][1] /\ Head(queues[p]) \in Callers
    BY TailSlots DEF PoolTypeOK
  <1>2. /\ queues' \in [Priorities -> Seq(Callers)] /\ queues'[p] = Tail(queues[p])
        /\ \A q \in Priorities \ {p} : queues'[q] = queues[q]
    BY <1>1 DEF PoolTypeOK
  <1> DEFINE At(q, i) == IF q = p THEN i + 1 ELSE i
  <1>3. \A q \in Priorities : \A i \in 1 .. Len(queues'[q]) :
            /\ At(q, i) \in 1 .. Len(queues[q]) /\ queues'[q][i] = queues[q][At(q, i)]
            /\ q = p => At(q, i) # 1
    BY <1>1, <1>2
  <1>4. QueuedOnce'
    <2> SUFFICES ASSUME NEW q \in Priorities, NEW r \in Priorities,
                        NEW i \in 1 .. Len(queues'[q]), NEW j \in 1 .. Len(queues'[r]),
                        queues'[q][i] = queues'[r][j]
                 PROVE  q = r /\ i = j
      BY DEF QueuedOnce
    <2>1. q = r /\ At(q, i) = At(r, j)
      BY <1>3 DEF QueuedOnce
    <2>2. i \in Int /\ j \in Int
      OBVIOUS
    <2> QED  BY <2>1, <2>2
  <1>5. 1 \in 1 .. Len(queues[p])
    BY <1>1
  <1>6. \A d : InQueue(d)' => InQueue(d) /\ d # Head(queues[p])
    <2> SUFFICES ASSUME NEW d, NEW q \in Priorities, NEW i \in 1 .. Len(queues'[q]),
                        queues'[q][i] = d
                 PROVE  InQueue(d) /\ d # Head(queues[p])
      BY DEF InQueue
    <2>1. At(q, i) \in 1 .. Len(queues[q]) /\ queues[q][At(q, i)] = d /\ (q = p => At(q, i) # 1)
      BY <1>3
    <2> HIDE DEF At
    <2> QED  BY <1>1, <1>5, <2>1 DEF InQueue, QueuedOnce
  <1>7. \A d : InQueue(d) /\ d # Head(queues[p]) => InQueue(d)'
    <2> SUFFICES ASSUME NEW d, InQueue(d), d # Head(queues[p])
                 PROVE  InQueue(d)'
      OBVIOUS
    <2>0. PICK q \in Priorities : \E k \in 1 .. Len(queues[q]) : queues[q][k] = d
      BY DEF InQueue
    <2> PICK i \in 1 .. Len(queues[q]) : queues[q][i] = d
      BY <2>0
    <2>1. CASE q # p
      BY <1>2, <2>1 DEF InQueue
    <2>2. CASE q = p
      <3>1. i # 1 /\ i \in Int
        BY <1>1, <2>2
      <3>2. i - 1 \in 1 .. Len(queues[p]) - 1 /\ (i - 1) + 1 = i
        BY <1>1, <2>2, <3>1
      <3>3. queues'[p][i - 1] = d /\ i - 1 \in 1 .. Len(queues'[p])
        BY <1>1, <1>2, <2>2, <3>2
      <3> QED  BY <3>3 DEF InQueue
    <2> QED  BY <2>1, <2>2
  <1>8. InQueue(Head(queues[p]))
    BY <1>1, <1>5 DEF InQueue
  <1>9. \A d : InQueue(d)' <=> InQueue(d) /\ d # Head(queues[p])
    BY <1>6, <1>7
  <1> QED
    BY <1>1, <1>2, <1>4, <1>8, <1>9

-----------------------------------------------------------------------------
(* How the counts move.                                                    *)

Running == {"run", "deliver", "threw", "finish"}

LEMMA PendingMoves ==
    ASSUME PoolTypeOK, PoolTypeOK', NEW p \in Priorities, NEW k \in Int,
           Len(queues'[p]) = Len(queues[p]) + k,
           \A q \in Priorities \ {p} : queues'[q] = queues[q]
    PROVE  Pending' = Pending + k + (active' - active) /\ Pending \in Int /\ active' \in Int
  <1>1. /\ Len(queues[0]) \in Int /\ Len(queues[1]) \in Int /\ Len(queues[2]) \in Int
        /\ Len(queues'[0]) \in Int /\ Len(queues'[1]) \in Int /\ Len(queues'[2]) \in Int
        /\ active \in Int /\ active' \in Int
    BY PriorityFacts, LenProperties DEF PoolTypeOK
  <1>2. p = 0 \/ p = 1 \/ p = 2
    BY PriorityFacts
  <1>3. \A q \in {0, 1, 2} : Len(queues'[q]) = IF q = p THEN Len(queues[q]) + k ELSE Len(queues[q])
    BY PriorityFacts
  <1>4. /\ Pending = active + Len(queues[0]) + Len(queues[1]) + Len(queues[2])
        /\ Pending' = active' + Len(queues'[0]) + Len(queues'[1]) + Len(queues'[2])
    BY DEF Pending
  <1> DEFINE a == Len(queues[0])  b == Len(queues[1])  d == Len(queues[2])
             x == Len(queues'[0])  y == Len(queues'[1])  z == Len(queues'[2])
  <1>8. /\ a \in Int /\ b \in Int /\ d \in Int /\ x \in Int /\ y \in Int /\ z \in Int
        /\ Pending = active + a + b + d /\ Pending' = active' + x + y + z
        /\ (p = 0 => x = a + k /\ y = b /\ z = d)
        /\ (p = 1 => x = a /\ y = b + k /\ z = d)
        /\ (p = 2 => x = a /\ y = b /\ z = d + k)
    BY <1>1, <1>3, <1>4
  <1> HIDE DEF a, b, d, x, y, z
  <1>5. CASE p = 0
    BY <1>1, <1>8, <1>5
  <1>6. CASE p = 1
    BY <1>1, <1>8, <1>6
  <1>7. CASE p = 2
    BY <1>1, <1>8, <1>7
  <1> QED
    BY <1>2, <1>5, <1>6, <1>7

(* PendingMoves for an entry queued and for an entry taken. *)
LEMMA PendingGrows ==
    ASSUME PoolTypeOK, PoolTypeOK', NEW p \in Priorities,
           Len(queues'[p]) = Len(queues[p]) + 1,
           \A q \in Priorities \ {p} : queues'[q] = queues[q]
    PROVE  Pending' = Pending + 1 + (active' - active) /\ Pending \in Int
  <1>1. 1 \in Int
    OBVIOUS
  <1> QED
    BY <1>1, PendingMoves

LEMMA PendingShrinks ==
    ASSUME PoolTypeOK, PoolTypeOK', NEW p \in Priorities,
           Len(queues'[p]) = Len(queues[p]) + (-1),
           \A q \in Priorities \ {p} : queues'[q] = queues[q]
    PROVE  Pending' = Pending + (-1) + (active' - active) /\ Pending \in Int
  <1>1. -1 \in Int
    OBVIOUS
  <1> QED
    BY <1>1, PendingMoves

LEMMA PendingStays ==
    ASSUME PoolTypeOK, UNCHANGED queues, active' \in Int
    PROVE  Pending' = Pending + (active' - active) /\ Pending \in Int
  <1> DEFINE a == Len(queues[0])  b == Len(queues[1])  d == Len(queues[2])
  <1>1. a \in Int /\ b \in Int /\ d \in Int /\ active \in Int
    BY PriorityFacts, LenProperties DEF PoolTypeOK
  <1>2. Pending = active + a + b + d /\ Pending' = active' + a + b + d
    BY DEF Pending
  <1> HIDE DEF a, b, d
  <1> QED
    BY <1>1, <1>2

LEMMA CountedFinite == IsFiniteSet(Counted) /\ Cardinality(Counted) \in Nat
  <1>1. IsFiniteSet(Workers)
    BY PoolConstants
  <1>2. IsFiniteSet(Counted)
    BY <1>1, FS_Subset DEF Counted
  <1> QED
    BY <1>2, FS_CardinalityType

\* One worker more runs, or one less, while others only wake.
LEMMA OneMoreRuns ==
    ASSUME NEW w \in Workers, wpc[w] \notin Running, wpc'[w] \in Running,
           \A v \in Workers \ {w} : wpc'[v] \in Running <=> wpc[v] \in Running
    PROVE  Cardinality(Counted') = Cardinality(Counted) + 1
  <1>1. Counted' = Counted \cup {w} /\ w \notin Counted
    BY DEF Counted, Running
  <1> QED
    BY <1>1, CountedFinite, FS_AddElement

LEMMA OneLessRuns ==
    ASSUME NEW w \in Workers, wpc[w] \in Running, wpc'[w] \notin Running,
           \A v \in Workers \ {w} : wpc'[v] \in Running <=> wpc[v] \in Running
    PROVE  Cardinality(Counted') = Cardinality(Counted) - 1
  <1>1. Counted' = Counted \ {w} /\ w \in Counted
    BY DEF Counted, Running
  <1> QED
    BY <1>1, CountedFinite, FS_RemoveElement

LEMMA SameRun ==
    ASSUME \A v \in Workers : wpc'[v] \in Running <=> wpc[v] \in Running
    PROVE  Cardinality(Counted') = Cardinality(Counted)
  <1>1. Counted' = Counted
    BY DEF Counted, Running
  <1> QED
    BY <1>1

\* A notification only wakes.
LEMMA WakeFacts ==
    ASSUME NEW pc \in [Workers -> WorkerAt], NEW n, n \in WakeOne(pc) \/ n = WakeAll(pc)
    PROVE  /\ n \in [Workers -> WorkerAt]
           /\ \A v \in Workers : n[v] = pc[v] \/ (pc[v] = "asleep" /\ n[v] = "check")
  <1>1. "check" \in WorkerAt
    BY DEF WorkerAt
  <1> QED
    BY <1>1 DEF WakeOne, WakeAll, Asleep

-----------------------------------------------------------------------------
(* What every step keeps.                                                  *)

\* A worker may go on between the places of one kind.
Busy == {"run", "deliver", "threw", "fail", "finish"}
Alike(a, b) == \/ a = b
               \/ a \notin Busy /\ b \notin Busy
               \/ a \in {"run", "deliver", "threw"} /\ b \in {"run", "deliver", "threw"}

\* The steps that touch neither the places nor the counts.
LEMMA QuietStep ==
    ASSUME PoolInv, PoolTypeOK', UNCHANGED <<queues, held, abandoned, active>>,
           mode' = "up" => mode = "up",
           \A c \in Callers : Waiting(c)' <=> Waiting(c),
           \A w \in Workers : Alike(wpc[w], wpc'[w])
    PROVE  PoolInv'
  <1>1. QueuedOnce' /\ HeldOnce' /\ NothingAbandoned'
    BY DEF PoolInv, QueuedOnce, HeldOnce, NothingAbandoned
  <1>2. OnePlace'
    BY DEF PoolInv, OnePlace, InQueue, InHand
  <1>3. HandsEmpty'
    BY DEF PoolInv, HandsEmpty, Alike, Busy
  <1>4. \A v \in Workers : wpc'[v] \in Running <=> wpc[v] \in Running
    BY DEF Alike, Busy, Running
  <1>5. ActiveExact'
    BY <1>4, SameRun DEF PoolInv, ActiveExact
  <1>6. WithinPending'
    BY PendingStays DEF PoolInv, WithinPending, PoolTypeOK, Pending
  <1> QED
    BY <1>1, <1>2, <1>3, <1>5, <1>6 DEF PoolInv

\* The worker that has c in hand lets go of it.
LEMMA LetGo ==
    ASSUME PoolTypeOK, HeldOnce, NEW w \in Workers, NEW c \in held[w].of,
           held'[w].of = {}, \A v \in Workers \ {w} : held'[v] = held[v]
    PROVE  /\ HeldOnce' /\ c \in Callers
           /\ \A d : InHand(d)' <=> InHand(d) /\ d # c
  <1>1. c \in Callers
    BY DEF PoolTypeOK, HeldType
  <1>2. HeldOnce'
    BY DEF HeldOnce
  <1>3. \A d : InHand(d)' => InHand(d) /\ d # c
    BY DEF InHand, HeldOnce
  <1>4. \A d : InHand(d) /\ d # c => InHand(d)'
    BY DEF InHand, HeldOnce
  <1> QED
    BY <1>1, <1>2, <1>3, <1>4

-----------------------------------------------------------------------------
(* The steps that are quiet.                                               *)

LEMMA QuietCallers ==
    ASSUME PoolInv, NEW c \in Callers, Notify(c) \/ Poll(c) \/ ReturnCall(c)
    PROVE  PoolInv'
  <1>1. PoolTypeOK
    BY DEF PoolInv
  <1>2. UNCHANGED <<queues, held, abandoned, active, mode>>
    BY DEF Notify, Poll, ReturnCall, poolVars
  <1>3. CASE Notify(c)
    <2>1. /\ wpc' \in [Workers -> WorkerAt]
          /\ \A v \in Workers : wpc'[v] = wpc[v] \/ (wpc[v] = "asleep" /\ wpc'[v] = "check")
      BY <1>1, <1>3, WakeFacts DEF Notify, PoolTypeOK
    <2>2. PoolTypeOK'
      BY <1>1, <1>3, <2>1 DEF Notify, PoolTypeOK, poolVars
    <2>3. \A d \in Callers : Waiting(d)' <=> Waiting(d)
      BY <1>1, <1>3 DEF Notify, Waiting, PoolTypeOK
    <2>4. \A w \in Workers : Alike(wpc[w], wpc'[w])
      BY <2>1 DEF Alike, Busy
    <2> QED  BY <1>2, <2>2, <2>3, <2>4, QuietStep
  <1>4. CASE Poll(c) \/ ReturnCall(c)
    <2>1. PoolTypeOK'
      <3>1. CASE Poll(c)
        <4>1. work' \in [Callers -> WorkType]
          BY <1>1, <3>1 DEF Poll, PoolTypeOK, WorkType
        <4> QED  BY <1>1, <3>1, <4>1 DEF Poll, PoolTypeOK, poolVars
      <3>2. CASE ReturnCall(c)
        BY <1>1, <3>2, PriorityFacts, NewWorkType DEF ReturnCall, PoolTypeOK, poolVars
      <3> QED  BY <1>4, <3>1, <3>2
    <2>2. \A d \in Callers : Waiting(d)' <=> Waiting(d)
      BY <1>1, <1>4 DEF Poll, ReturnCall, Waiting, PoolTypeOK, WorkType
    <2>3. wpc' = wpc
      BY <1>4 DEF Poll, ReturnCall
    <2> QED  BY <1>2, <2>1, <2>2, <2>3, QuietStep DEF Alike
  <1> QED
    BY <1>3, <1>4

LEMMA QuietWorkers ==
    ASSUME PoolInv, NEW w \in Workers,
           \/ Exit(w) \/ Sleep(w) \/ WakeSpuriously(w) \/ Finishes(w) \/ NotifyRetry(w)
           \/ NotifyFailure(w)
    PROVE  PoolInv'
  <1>1. PoolTypeOK
    BY DEF PoolInv
  <1>2. UNCHANGED <<queues, held, abandoned, active, activeBy, mode, calling, work>>
    BY DEF Exit, Sleep, WakeSpuriously, Finishes, NotifyRetry, NotifyFailure, poolVars
  <1>3. \A d \in Callers : Waiting(d)' <=> Waiting(d)
    BY <1>2 DEF Waiting
  <1>4. wpc' \in [Workers -> WorkerAt] /\ \A v \in Workers : Alike(wpc[v], wpc'[v])
    <2>1. CASE Exit(w) \/ Sleep(w) \/ WakeSpuriously(w) \/ Finishes(w)
      BY <1>1, <2>1 DEF Exit, Sleep, WakeSpuriously, Finishes, GoTo, PoolTypeOK, WorkerAt, Alike, Busy
    <2>2. CASE NotifyRetry(w) \/ NotifyFailure(w)
      <3> DEFINE pc == [wpc EXCEPT ![w] = "check"]
      <3>1. pc \in [Workers -> WorkerAt] /\ \A v \in Workers : Alike(wpc[v], pc[v])
        BY <1>1, <2>2 DEF NotifyRetry, NotifyFailure, PoolTypeOK, WorkerAt, Alike, Busy
      <3>2. wpc' \in WakeOne(pc) \/ wpc' = WakeAll(pc)
        BY <2>2 DEF NotifyRetry, NotifyFailure
      <3> HIDE DEF pc
      <3>3. /\ wpc' \in [Workers -> WorkerAt]
            /\ \A v \in Workers : wpc'[v] = pc[v] \/ (pc[v] = "asleep" /\ wpc'[v] = "check")
        BY <3>1, <3>2, WakeFacts
      <3> QED  BY <3>1, <3>3 DEF Alike, Busy
    <2> QED  BY <2>1, <2>2
  <1>5. PoolTypeOK'
    BY <1>1, <1>2, <1>4 DEF PoolTypeOK
  <1> QED
    BY <1>2, <1>3, <1>4, <1>5, QuietStep

LEMMA QuietDestructor ==
    ASSUME PoolInv, NotifyStop \/ Joined
    PROVE  PoolInv'
  <1>1. PoolTypeOK
    BY DEF PoolInv
  <1>2. UNCHANGED <<queues, held, abandoned, active, activeBy, calling, work>> /\ mode' \in {"joining", "gone"}
    BY DEF NotifyStop, Joined
  <1>3. \A d \in Callers : Waiting(d)' <=> Waiting(d)
    BY <1>2 DEF Waiting
  <1>4. wpc' \in [Workers -> WorkerAt] /\ \A v \in Workers : Alike(wpc[v], wpc'[v])
    <2>1. CASE NotifyStop
      <3>1. /\ wpc' \in [Workers -> WorkerAt]
            /\ \A v \in Workers : wpc'[v] = wpc[v] \/ (wpc[v] = "asleep" /\ wpc'[v] = "check")
        BY <1>1, <2>1, WakeFacts DEF NotifyStop, PoolTypeOK
      <3> QED  BY <3>1 DEF Alike, Busy
    <2>2. CASE Joined
      BY <1>1, <2>2 DEF Joined, Alike, PoolTypeOK
    <2> QED  BY <2>1, <2>2
  <1>5. PoolTypeOK'
    BY <1>1, <1>2, <1>4 DEF PoolTypeOK
  <1> QED
    BY <1>2, <1>3, <1>4, <1>5, QuietStep

-----------------------------------------------------------------------------
(* The steps that move a work, or count one.                               *)

LEMMA SubmitStep == ASSUME PoolInv, NEW c \in Callers, Submit(c) PROVE PoolInv'
  <1>0. PoolTypeOK /\ QueuedOnce /\ HeldOnce /\ OnePlace /\ HandsEmpty /\ NothingAbandoned /\ ActiveExact
    BY DEF PoolInv
  <1>1. PICK p \in Asked : /\ queues' = [queues EXCEPT ![p] = Append(@, c)]
                           /\ work' = [work EXCEPT ![c] = NewWork(p)]
    BY DEF Submit
  <1>2. p \in Priorities
    BY PoolConstants
  <1>3. /\ calling[c] = "idle" /\ Pending < MaxPending /\ calling' = [calling EXCEPT ![c] = "notify"]
        /\ UNCHANGED <<mode, active, activeBy, abandoned, wpc, held>>
    BY DEF Submit
  <1>4. ~Waiting(c) /\ ~InQueue(c) /\ ~InHand(c) /\ c \notin abandoned
    BY <1>0, <1>3 DEF Waiting, OnePlace
  <1>5. /\ queues' \in [Priorities -> Seq(Callers)] /\ QueuedOnce'
        /\ \A d : InQueue(d)' <=> InQueue(d) \/ d = c
        /\ Len(queues'[p]) = Len(queues[p]) + 1
        /\ \A q \in Priorities \ {p} : queues'[q] = queues[q]
    BY <1>0, <1>1, <1>2, <1>4, AppendQueued
  <1>6. PoolTypeOK'
    BY <1>0, <1>1, <1>2, <1>3, <1>5, NewWorkType DEF PoolTypeOK
  <1>7. \A d \in Callers : Waiting(d)' <=> Waiting(d) \/ d = c
    BY <1>0, <1>1, <1>2, <1>3, NewWorkType DEF Waiting, PoolTypeOK
  <1>8. OnePlace'
    <2>1. \A d : InHand(d)' <=> InHand(d)
      BY <1>3 DEF InHand
    <2> QED  BY <1>0, <1>3, <1>4, <1>5, <1>7, <2>1 DEF OnePlace
  <1>9. HeldOnce' /\ HandsEmpty' /\ NothingAbandoned'
    BY <1>0, <1>3 DEF HeldOnce, HandsEmpty, NothingAbandoned
  <1>10. ActiveExact'
    BY <1>0, <1>3 DEF ActiveExact, Counted
  <1>11. WithinPending'
    <2>1. Pending' = Pending + 1 + (active' - active) /\ Pending \in Int
      BY <1>0, <1>2, <1>5, <1>6, PendingGrows
    <2>2. active' - active = 0 /\ MaxPending \in Int
      BY <1>0, <1>3, PoolConstants DEF PoolTypeOK
    <2> QED  BY <1>3, <2>1, <2>2 DEF WithinPending
  <1> QED
    BY <1>5, <1>6, <1>8, <1>9, <1>10, <1>11 DEF PoolInv

LEMMA TakeStep == ASSUME PoolInv, NEW w \in Workers, Take(w) PROVE PoolInv'
  <1>0. PoolTypeOK /\ QueuedOnce /\ HeldOnce /\ OnePlace /\ HandsEmpty /\ NothingAbandoned /\ ActiveExact
        /\ WithinPending
    BY DEF PoolInv
  <1>1. PICK p \in Priorities :
            /\ queues[p] # <<>>
            /\ held' = [held EXCEPT ![w] = [of |-> {Head(queues[p])}, prio |-> p]]
            /\ queues' = [queues EXCEPT ![p] = Tail(@)]
            /\ activeBy' = [activeBy EXCEPT ![p] = @ + 1]
    BY DEF Take, Servable
  <1> DEFINE c == Head(queues[p])
  <1>2. /\ wpc[w] = "check" /\ active' = active + 1 /\ wpc' = [wpc EXCEPT ![w] = "run"]
        /\ UNCHANGED <<mode, abandoned, calling, work>>
    BY DEF Take, GoTo
  <1>3. /\ queues' \in [Priorities -> Seq(Callers)] /\ QueuedOnce'
        /\ c \in Callers /\ InQueue(c)
        /\ \A d : InQueue(d)' <=> InQueue(d) /\ d # c
        /\ Len(queues'[p]) = Len(queues[p]) - 1 /\ Len(queues[p]) \in Nat \ {0}
        /\ \A q \in Priorities \ {p} : queues'[q] = queues[q]
    BY <1>0, <1>1, TailQueued
  <1>4. held[w].of = {} /\ held'[w].of = {c} /\ \A v \in Workers \ {w} : held'[v] = held[v]
    BY <1>0, <1>1, <1>2 DEF HandsEmpty, PoolTypeOK
  <1>5. [of |-> {c}, prio |-> p] \in HeldType
    BY <1>3 DEF HeldType
  <1> HIDE DEF c
  <1>6. PoolTypeOK'
    BY <1>0, <1>1, <1>2, <1>3, <1>5 DEF PoolTypeOK, WorkerAt, c
  <1>7. ~InHand(c) /\ c \notin abandoned /\ Waiting(c)
    BY <1>0, <1>3 DEF OnePlace
  <1>8. \A d : InHand(d)' <=> InHand(d) \/ d = c
    BY <1>4 DEF InHand
  <1>9. HeldOnce'
    BY <1>0, <1>4, <1>7 DEF HeldOnce, InHand
  <1>10. OnePlace'
    <2>1. \A d \in Callers : Waiting(d)' <=> Waiting(d)
      BY <1>2 DEF Waiting
    <2> QED  BY <1>0, <1>2, <1>3, <1>7, <1>8, <2>1 DEF OnePlace
  <1>11. HandsEmpty' /\ NothingAbandoned'
    BY <1>0, <1>2, <1>4 DEF HandsEmpty, NothingAbandoned, PoolTypeOK
  <1>12. ActiveExact'
    <2>1. Cardinality(Counted') = Cardinality(Counted) + 1
      BY <1>0, <1>2, OneMoreRuns DEF Running, PoolTypeOK
    <2> QED  BY <1>0, <1>2, <2>1 DEF ActiveExact
  <1>13. WithinPending'
    <2>1. Len(queues'[p]) = Len(queues[p]) + (-1)
      BY <1>3
    <2>2. Pending' = Pending + (-1) + (active' - active) /\ Pending \in Int
      BY <1>0, <1>3, <1>6, <2>1, PendingShrinks
    <2>3. active' - active = 1 /\ MaxPending \in Int
      BY <1>0, <1>2, PoolConstants DEF PoolTypeOK
    <2> QED  BY <1>0, <2>2, <2>3 DEF WithinPending
  <1> QED
    BY <1>3, <1>6, <1>9, <1>10, <1>11, <1>12, <1>13 DEF PoolInv

LEMMA DeliverStep == ASSUME PoolInv, NEW w \in Workers, Deliver(w) PROVE PoolInv'
  <1>0. PoolTypeOK /\ QueuedOnce /\ HeldOnce /\ OnePlace /\ HandsEmpty /\ NothingAbandoned /\ ActiveExact
        /\ WithinPending
    BY DEF PoolInv
  <1>1. PICK c \in held[w].of : work' = [work EXCEPT ![c].promise = "value"]
    BY DEF Deliver, Answer
  <1>2. /\ wpc[w] = "deliver" /\ held' = [held EXCEPT ![w].of = {}]
        /\ wpc' = [wpc EXCEPT ![w] = "finish"]
        /\ UNCHANGED <<mode, queues, active, activeBy, abandoned, calling>>
    BY DEF Deliver, GoTo, poolVars
  <1>3. held' \in [Workers -> HeldType] /\ held'[w].of = {} /\ \A v \in Workers \ {w} : held'[v] = held[v]
    BY <1>0, <1>2 DEF PoolTypeOK, HeldType
  <1>4. HeldOnce' /\ c \in Callers /\ \A d : InHand(d)' <=> InHand(d) /\ d # c
    BY <1>0, <1>3, LetGo
  <1>5. PoolTypeOK'
    <2>1. work' \in [Callers -> WorkType]
      BY <1>0, <1>1, <1>4 DEF PoolTypeOK, WorkType
    <2> QED  BY <1>0, <1>2, <1>3, <2>1 DEF PoolTypeOK, WorkerAt
  <1>6. \A d \in Callers : Waiting(d)' <=> Waiting(d) /\ d # c
    BY <1>0, <1>1, <1>2, <1>4 DEF Waiting, PoolTypeOK, WorkType
  <1>7. OnePlace'
    <2>1. InHand(c)
      BY DEF InHand
    <2>2. \A d : InQueue(d)' <=> InQueue(d)
      BY <1>2 DEF InQueue
    <2> QED  BY <1>0, <1>2, <1>4, <1>6, <2>1, <2>2 DEF OnePlace
  <1>8. QueuedOnce' /\ HandsEmpty' /\ NothingAbandoned'
    BY <1>0, <1>2, <1>3 DEF QueuedOnce, HandsEmpty, NothingAbandoned, PoolTypeOK
  <1>9. ActiveExact'
    <2>1. \A v \in Workers : wpc'[v] \in Running <=> wpc[v] \in Running
      BY <1>0, <1>2 DEF Running, PoolTypeOK
    <2> QED  BY <1>0, <1>2, <2>1, SameRun DEF ActiveExact
  <1>10. WithinPending'
    BY <1>0, <1>2 DEF WithinPending, Pending
  <1> QED
    BY <1>4, <1>5, <1>7, <1>8, <1>9, <1>10 DEF PoolInv

LEMMA FailStep == ASSUME PoolInv, NEW w \in Workers, FailCall(w) PROVE PoolInv'
  <1>0. PoolTypeOK /\ QueuedOnce /\ HeldOnce /\ OnePlace /\ HandsEmpty /\ NothingAbandoned /\ ActiveExact
        /\ WithinPending
    BY DEF PoolInv
  <1>1. PICK c \in held[w].of : work' = [work EXCEPT ![c].promise = "error"]
    BY DEF FailCall, Answer
  <1>2. /\ wpc[w] = "fail" /\ held' = [held EXCEPT ![w] = NotHeld]
        /\ wpc' = [wpc EXCEPT ![w] = "notifyAll"]
        /\ UNCHANGED <<mode, queues, active, activeBy, abandoned, calling>>
    BY DEF FailCall, GoTo, poolVars
  <1>3. held' \in [Workers -> HeldType] /\ held'[w].of = {} /\ \A v \in Workers \ {w} : held'[v] = held[v]
    BY <1>0, <1>2, NewWorkType, PriorityFacts DEF PoolTypeOK
  <1>4. HeldOnce' /\ c \in Callers /\ \A d : InHand(d)' <=> InHand(d) /\ d # c
    BY <1>0, <1>3, LetGo
  <1>5. PoolTypeOK'
    <2>1. work' \in [Callers -> WorkType]
      BY <1>0, <1>1, <1>4 DEF PoolTypeOK, WorkType
    <2> QED  BY <1>0, <1>2, <1>3, <2>1 DEF PoolTypeOK, WorkerAt
  <1>6. \A d \in Callers : Waiting(d)' <=> Waiting(d) /\ d # c
    BY <1>0, <1>1, <1>2, <1>4 DEF Waiting, PoolTypeOK, WorkType
  <1>7. OnePlace'
    <2>1. InHand(c)
      BY DEF InHand
    <2>2. \A d : InQueue(d)' <=> InQueue(d)
      BY <1>2 DEF InQueue
    <2> QED  BY <1>0, <1>2, <1>4, <1>6, <2>1, <2>2 DEF OnePlace
  <1>8. QueuedOnce' /\ HandsEmpty' /\ NothingAbandoned'
    BY <1>0, <1>2, <1>3 DEF QueuedOnce, HandsEmpty, NothingAbandoned, PoolTypeOK
  <1>9. ActiveExact'
    <2>1. \A v \in Workers : wpc'[v] \in Running <=> wpc[v] \in Running
      BY <1>0, <1>2 DEF Running, PoolTypeOK
    <2> QED  BY <1>0, <1>2, <2>1, SameRun DEF ActiveExact
  <1>10. WithinPending'
    BY <1>0, <1>2 DEF WithinPending, Pending
  <1> QED
    BY <1>4, <1>5, <1>7, <1>8, <1>9, <1>10 DEF PoolInv

\* What finish_active and the first half of the catch block have in common.
LEMMA UncountStep ==
    ASSUME PoolTypeOK, ActiveExact, NEW w \in Workers, wpc[w] \in Running, Uncount(w),
           wpc'[w] \notin Running,
           \A v \in Workers \ {w} : wpc'[v] \in Running <=> wpc[v] \in Running
    PROVE  /\ active' \in Int /\ activeBy' \in [Priorities -> Int] /\ ActiveExact'
           /\ active' - active = -1
  <1>1. Cardinality(Counted') = Cardinality(Counted) - 1
    BY OneLessRuns
  <1> QED
    BY <1>1, CountedFinite DEF Uncount, PoolTypeOK, ActiveExact, HeldType

LEMMA FinishStep == ASSUME PoolInv, NEW w \in Workers, Finish(w) PROVE PoolInv'
  <1>0. PoolTypeOK /\ QueuedOnce /\ HeldOnce /\ OnePlace /\ HandsEmpty /\ NothingAbandoned /\ ActiveExact
        /\ WithinPending
    BY DEF PoolInv
  <1>1. /\ wpc[w] = "finish" /\ Uncount(w) /\ held' = [held EXCEPT ![w] = NotHeld]
        /\ UNCHANGED <<mode, queues, abandoned, calling, work>>
    BY DEF Finish
  <1>2. /\ wpc' \in [Workers -> WorkerAt] /\ wpc'[w] = "check"
        /\ \A v \in Workers \ {w} : wpc'[v] = wpc[v] \/ (wpc[v] = "asleep" /\ wpc'[v] = "check")
    <2> DEFINE pc == [wpc EXCEPT ![w] = "check"]
    <2>1. /\ pc \in [Workers -> WorkerAt] /\ pc[w] = "check"
          /\ \A v \in Workers \ {w} : pc[v] = wpc[v]
      BY <1>0 DEF PoolTypeOK, WorkerAt
    <2>2. wpc' = WakeAll(pc)
      BY DEF Finish
    <2> HIDE DEF pc
    <2> QED  BY <2>1, <2>2, WakeFacts
  <1>3. /\ held' \in [Workers -> HeldType] /\ held'[w].of = {} /\ held[w].of = {}
        /\ \A v \in Workers \ {w} : held'[v] = held[v]
    BY <1>0, <1>1, NewWorkType, PriorityFacts DEF PoolTypeOK, HandsEmpty
  <1>4. /\ active' \in Int /\ activeBy' \in [Priorities -> Int] /\ ActiveExact'
        /\ active' - active = -1
    <2>1. wpc[w] \in Running /\ wpc'[w] \notin Running
      BY <1>1, <1>2 DEF Running
    <2>2. \A v \in Workers \ {w} : wpc'[v] \in Running <=> wpc[v] \in Running
      BY <1>2 DEF Running
    <2> QED  BY <1>0, <1>1, <2>1, <2>2, UncountStep
  <1>5. PoolTypeOK'
    BY <1>0, <1>1, <1>2, <1>3, <1>4 DEF PoolTypeOK
  <1>6. \A d : InHand(d)' <=> InHand(d)
    BY <1>3 DEF InHand
  <1>7. OnePlace'
    <2>1. \A d : InQueue(d)' <=> InQueue(d)
      BY <1>1 DEF InQueue
    <2>2. \A d \in Callers : Waiting(d)' <=> Waiting(d)
      BY <1>1 DEF Waiting
    <2> QED  BY <1>0, <1>1, <1>6, <2>1, <2>2 DEF OnePlace
  <1>8. QueuedOnce' /\ HandsEmpty' /\ NothingAbandoned'
    BY <1>0, <1>1, <1>2, <1>3 DEF QueuedOnce, HandsEmpty, NothingAbandoned
  <1>9. HeldOnce'
    BY <1>0, <1>3 DEF HeldOnce
  <1>10. WithinPending'
    <2>1. Pending' = Pending + (active' - active) /\ Pending \in Int
      BY <1>0, <1>1, <1>4, PendingStays
    <2> QED  BY <1>0, <1>4, <2>1, PoolConstants DEF WithinPending
  <1> QED
    BY <1>4, <1>5, <1>7, <1>8, <1>9, <1>10 DEF PoolInv

LEMMA GiveUpStep == ASSUME PoolInv, NEW w \in Workers, GiveUp(w) PROVE PoolInv'
  <1>0. PoolTypeOK /\ QueuedOnce /\ HeldOnce /\ OnePlace /\ HandsEmpty /\ NothingAbandoned /\ ActiveExact
        /\ WithinPending
    BY DEF PoolInv
  <1>1. /\ wpc[w] = "threw" /\ Uncount(w) /\ wpc' = [wpc EXCEPT ![w] = "fail"]
        /\ UNCHANGED <<mode, queues, abandoned, calling, work, held>>
    BY DEF GiveUp, GoTo
  <1>2. wpc' \in [Workers -> WorkerAt] /\ wpc'[w] = "fail" /\ \A v \in Workers \ {w} : wpc'[v] = wpc[v]
    BY <1>0, <1>1 DEF PoolTypeOK, WorkerAt
  <1>3. /\ active' \in Int /\ activeBy' \in [Priorities -> Int] /\ ActiveExact'
        /\ active' - active = -1
    <2>1. wpc[w] \in Running /\ wpc'[w] \notin Running
      BY <1>1, <1>2 DEF Running
    <2> QED  BY <1>0, <1>1, <1>2, <2>1, UncountStep
  <1>4. PoolTypeOK'
    BY <1>0, <1>1, <1>2, <1>3 DEF PoolTypeOK
  <1>5. OnePlace'
    BY <1>0, <1>1 DEF OnePlace, InQueue, InHand, Waiting
  <1>6. QueuedOnce' /\ HeldOnce' /\ HandsEmpty' /\ NothingAbandoned'
    BY <1>0, <1>1, <1>2 DEF QueuedOnce, HeldOnce, HandsEmpty, NothingAbandoned
  <1>7. WithinPending'
    <2>1. Pending' = Pending + (active' - active) /\ Pending \in Int
      BY <1>0, <1>1, <1>3, PendingStays
    <2> QED  BY <1>0, <1>3, <2>1, PoolConstants DEF WithinPending
  <1> QED
    BY <1>3, <1>4, <1>5, <1>6, <1>7 DEF PoolInv

LEMMA RetryStep == ASSUME PoolInv, NEW w \in Workers, Retry(w) PROVE PoolInv'
  <1>0. PoolTypeOK /\ QueuedOnce /\ HeldOnce /\ OnePlace /\ HandsEmpty /\ NothingAbandoned /\ ActiveExact
        /\ WithinPending
    BY DEF PoolInv
  <1>1. PICK c \in held[w].of :
            /\ work' = [work EXCEPT ![c].attempts = @ + 1]
            /\ queues' = [queues EXCEPT ![held[w].prio] = <<c>> \o @]
    BY DEF Retry
  <1>2. /\ wpc[w] = "threw" /\ Uncount(w) /\ wpc' = [wpc EXCEPT ![w] = "notifyOne"]
        /\ held' = [held EXCEPT ![w] = NotHeld] /\ UNCHANGED <<mode, abandoned, calling>>
    BY DEF Retry, GoTo
  <1> DEFINE p == held[w].prio
  <1>3. p \in Priorities
    BY <1>0 DEF PoolTypeOK, HeldType
  <1>4. held' \in [Workers -> HeldType] /\ held'[w].of = {} /\ \A v \in Workers \ {w} : held'[v] = held[v]
    BY <1>0, <1>2, NewWorkType, PriorityFacts DEF PoolTypeOK
  <1>5. HeldOnce' /\ c \in Callers /\ \A d : InHand(d)' <=> InHand(d) /\ d # c
    BY <1>0, <1>4, LetGo
  <1>6. InHand(c) /\ ~InQueue(c) /\ c \notin abandoned /\ Waiting(c)
    <2>1. InHand(c)
      BY DEF InHand
    <2> QED  BY <1>0, <1>5, <2>1 DEF OnePlace
  <1> HIDE DEF p
  <1>7. /\ queues' \in [Priorities -> Seq(Callers)] /\ QueuedOnce'
        /\ \A d : InQueue(d)' <=> InQueue(d) \/ d = c
        /\ Len(queues'[p]) = Len(queues[p]) + 1
        /\ \A q \in Priorities \ {p} : queues'[q] = queues[q]
    <2>1. queues' = [queues EXCEPT ![p] = <<c>> \o @]
      BY <1>1 DEF p
    <2> QED  BY <1>0, <1>3, <1>5, <1>6, <2>1, FrontQueued
  <1>8. wpc' \in [Workers -> WorkerAt] /\ wpc'[w] = "notifyOne" /\ \A v \in Workers \ {w} : wpc'[v] = wpc[v]
    BY <1>0, <1>2 DEF PoolTypeOK, WorkerAt
  <1>9. /\ active' \in Int /\ activeBy' \in [Priorities -> Int] /\ ActiveExact'
        /\ active' - active = -1
    <2>1. wpc[w] \in Running /\ wpc'[w] \notin Running
      BY <1>2, <1>8 DEF Running
    <2> QED  BY <1>0, <1>2, <1>8, <2>1, UncountStep
  <1>10. work' \in [Callers -> WorkType] /\ \A d \in Callers : Waiting(d)' <=> Waiting(d)
    <2>0. work[c] \in WorkType /\ work[c].attempts + 1 \in Nat
      BY <1>0, <1>5 DEF PoolTypeOK, WorkType
    <2>1. work' \in [Callers -> WorkType]
      <3>1. [work[c] EXCEPT !.attempts = @ + 1] \in WorkType
        BY <2>0 DEF WorkType
      <3>2. work' = [work EXCEPT ![c] = [work[c] EXCEPT !.attempts = @ + 1]]
        BY <1>0, <1>1, <1>5 DEF PoolTypeOK
      <3> QED  BY <1>0, <1>5, <3>1, <3>2 DEF PoolTypeOK
    <2>2. \A d \in Callers : work'[d].promise = work[d].promise
      BY <1>0, <1>1, <1>5 DEF PoolTypeOK, WorkType
    <2> QED  BY <1>2, <2>1, <2>2 DEF Waiting
  <1>11. PoolTypeOK'
    BY <1>0, <1>2, <1>4, <1>7, <1>8, <1>9, <1>10 DEF PoolTypeOK
  <1>12. OnePlace'
    BY <1>0, <1>2, <1>5, <1>6, <1>7, <1>10 DEF OnePlace
  <1>13. HandsEmpty' /\ NothingAbandoned'
    BY <1>0, <1>2, <1>4, <1>8 DEF HandsEmpty, NothingAbandoned
  <1>14. WithinPending'
    <2>1. Pending' = Pending + 1 + (active' - active) /\ Pending \in Int
      BY <1>0, <1>3, <1>7, <1>11, PendingGrows
    <2> QED  BY <1>0, <1>9, <2>1, PoolConstants DEF WithinPending
  <1> QED
    BY <1>5, <1>7, <1>9, <1>11, <1>12, <1>13, <1>14 DEF PoolInv

LEMMA ShutdownStep == ASSUME PoolInv, Shutdown PROVE PoolInv'
  <1>0. PoolTypeOK /\ QueuedOnce /\ HeldOnce /\ OnePlace /\ HandsEmpty /\ NothingAbandoned /\ ActiveExact
        /\ WithinPending
    BY DEF PoolInv
  <1>1. /\ mode = "up" /\ mode' = "stopping" /\ abandoned' = Queued
        /\ queues' = [p \in Priorities |-> <<>>]
        /\ UNCHANGED <<active, activeBy, calling, work, wpc, held>>
    BY DEF Shutdown, LeftAtShutdown
  <1>2. \A c : c \in abandoned' <=> InQueue(c)
    BY <1>0, <1>1, QueuedIsInQueue
  <1>3. <<>> \in Seq(Callers) /\ Len(<<>>) = 0
    BY EmptySeq
  <1>4. \A p \in Priorities : queues'[p] = <<>> /\ Len(queues'[p]) = 0
    BY <1>1, <1>3
  <1>5. \A c : ~InQueue(c)'
    BY <1>4 DEF InQueue
  <1>6. \A c : InQueue(c) => c \in Callers
    BY <1>0, LenProperties DEF InQueue, PoolTypeOK
  <1>7. PoolTypeOK'
    BY <1>0, <1>1, <1>2, <1>3, <1>6 DEF PoolTypeOK
  <1>8. OnePlace'
    <2>1. \A c : InHand(c)' <=> InHand(c)
      BY <1>1 DEF InHand
    <2>2. \A c \in Callers : Waiting(c)' <=> Waiting(c)
      BY <1>1 DEF Waiting
    <2>3. abandoned = {}
      BY <1>0, <1>1 DEF NothingAbandoned
    <2> QED  BY <1>0, <1>2, <1>5, <2>1, <2>2, <2>3 DEF OnePlace
  <1>9. QueuedOnce'
    BY <1>4 DEF QueuedOnce
  <1>10. HeldOnce' /\ HandsEmpty' /\ NothingAbandoned' /\ ActiveExact'
    BY <1>0, <1>1 DEF HeldOnce, HandsEmpty, NothingAbandoned, ActiveExact, Counted
  <1>11. WithinPending'
    <2> DEFINE a == Len(queues[0])  b == Len(queues[1])  d == Len(queues[2])
    <2>1. a \in Nat /\ b \in Nat /\ d \in Nat /\ Pending = active + a + b + d
      BY <1>0, PriorityFacts, LenProperties DEF PoolTypeOK, Pending
    <2>2. Pending' = active + 0 + 0 + 0 /\ active \in Int /\ MaxPending \in Int
      BY <1>0, <1>1, <1>4, PriorityFacts, PoolConstants DEF Pending, PoolTypeOK
    <2> HIDE DEF a, b, d
    <2> QED  BY <1>0, <2>1, <2>2 DEF WithinPending
  <1> QED
    BY <1>7, <1>8, <1>9, <1>10, <1>11 DEF PoolInv

LEMMA AbandonStep == ASSUME PoolInv, NEW c \in Callers, Abandon(c) PROVE PoolInv'
  <1>0. PoolTypeOK /\ QueuedOnce /\ HeldOnce /\ OnePlace /\ HandsEmpty /\ NothingAbandoned /\ ActiveExact
        /\ WithinPending
    BY DEF PoolInv
  <1>1. /\ c \in abandoned /\ abandoned' = abandoned \ {c}
        /\ work' = [work EXCEPT ![c].stop = TRUE, ![c].promise = "error"]
        /\ UNCHANGED <<mode, queues, active, activeBy, calling, wpc, held>>
    BY DEF Abandon
  <1>2. work' \in [Callers -> WorkType]
    BY <1>0, <1>1 DEF PoolTypeOK, WorkType
  <1>3. \A d \in Callers : Waiting(d)' <=> Waiting(d) /\ d # c
    BY <1>0, <1>1 DEF Waiting, PoolTypeOK, WorkType
  <1>4. PoolTypeOK'
    BY <1>0, <1>1, <1>2 DEF PoolTypeOK
  <1>5. OnePlace'
    BY <1>0, <1>1, <1>3 DEF OnePlace, InQueue, InHand
  <1>6. QueuedOnce' /\ HeldOnce' /\ HandsEmpty' /\ NothingAbandoned' /\ ActiveExact' /\ WithinPending'
    BY <1>0, <1>1 DEF QueuedOnce, HeldOnce, HandsEmpty, NothingAbandoned, ActiveExact, Counted,
                      WithinPending, Pending
  <1> QED
    BY <1>4, <1>5, <1>6 DEF PoolInv

-----------------------------------------------------------------------------
(* The invariance, and what it says of AnsweredOnce.                       *)

LEMMA PoolInitially == PoolInit => PoolInv
  <1> SUFFICES ASSUME PoolInit PROVE PoolInv
    OBVIOUS
  <1>1. <<>> \in Seq(Callers) /\ Len(<<>>) = 0
    BY EmptySeq
  <1>2. \A p \in Priorities : queues[p] = <<>> /\ Len(queues[p]) = 0
    BY <1>1 DEF PoolInit
  <1>3. PoolTypeOK
    BY <1>1, NewWorkType, PriorityFacts DEF PoolInit, PoolTypeOK, WorkerAt
  <1>4. QueuedOnce /\ (\A c : ~InQueue(c))
    BY <1>2 DEF QueuedOnce, InQueue
  <1>5. \A w \in Workers : held[w].of = {} /\ wpc[w] = "check"
    BY NewWorkType, PriorityFacts DEF PoolInit
  <1>6. HeldOnce /\ (\A c : ~InHand(c)) /\ HandsEmpty /\ NothingAbandoned
    BY <1>5 DEF HeldOnce, InHand, HandsEmpty, NothingAbandoned, PoolInit
  <1>7. OnePlace
    BY <1>4, <1>6 DEF OnePlace, Waiting, PoolInit
  <1>8. ActiveExact
    <2>1. Counted = {}
      BY <1>5 DEF Counted
    <2> QED  BY <2>1, FS_EmptySet DEF ActiveExact, PoolInit
  <1>9. WithinPending
    BY <1>2, PriorityFacts, PoolConstants DEF WithinPending, Pending, PoolInit
  <1> QED
    BY <1>3, <1>4, <1>6, <1>7, <1>8, <1>9 DEF PoolInv

LEMMA PoolStep == PoolInv /\ [PoolNext]_allVars => PoolInv'
  <1> SUFFICES ASSUME PoolInv, [PoolNext]_allVars PROVE PoolInv'
    OBVIOUS
  <1>1. ASSUME NEW c \in Callers, Submit(c) \/ Poll(c) \/ CallerProceeds(c) PROVE PoolInv'
    BY <1>1, SubmitStep, QuietCallers DEF CallerProceeds
  <1>2. ASSUME NEW w \in Workers, WorkerStep(w) \/ WakeSpuriously(w) PROVE PoolInv'
    BY <1>2, QuietWorkers, TakeStep, DeliverStep, FinishStep, RetryStep, GiveUpStep, FailStep
       DEF WorkerStep
  <1>3. CASE Shutdown \/ Destructor
    BY <1>3, ShutdownStep, AbandonStep, QuietDestructor DEF Destructor
  <1>4. CASE UNCHANGED allVars
    <2>1. UNCHANGED <<mode, queues, active, activeBy, abandoned, calling, work, wpc, held>>
      BY <1>4 DEF allVars, poolVars
    <2>2. PoolTypeOK'
      BY <2>1 DEF PoolInv, PoolTypeOK
    <2>3. \A c \in Callers : Waiting(c)' <=> Waiting(c)
      BY <2>1 DEF Waiting
    <2> QED  BY <2>1, <2>2, <2>3, QuietStep DEF Alike
  <1> QED
    BY <1>1, <1>2, <1>3, <1>4 DEF PoolNext

\* active is no less than 0, so the limit on submissions bounds every queue.
LEMMA QueuesShort ==
    ASSUME PoolInv, NEW p \in Priorities
    PROVE  Len(queues[p]) \in Nat /\ Len(queues[p]) <= MaxPending
  <1> DEFINE a == Len(queues[0])  b == Len(queues[1])  d == Len(queues[2])
  <1>1. a \in Nat /\ b \in Nat /\ d \in Nat /\ Pending = active + a + b + d
    BY PriorityFacts, LenProperties DEF PoolInv, PoolTypeOK, Pending
  <1>2. active \in Nat /\ Pending <= MaxPending /\ MaxPending \in Nat
    BY CountedFinite, PoolConstants DEF PoolInv, ActiveExact, WithinPending
  <1>3. Len(queues[p]) = a \/ Len(queues[p]) = b \/ Len(queues[p]) = d
    BY PriorityFacts
  <1> HIDE DEF a, b, d
  <1> QED
    BY <1>1, <1>2, <1>3

LEMMA PlacesCounted == PoolInv => AnsweredOnce
  <1> SUFFICES ASSUME PoolInv, NEW c \in Callers
               PROVE  Places(c) = IF Waiting(c) THEN 1 ELSE 0
    BY DEF AnsweredOnce, Waiting
  <1> DEFINE slots == {s \in Priorities \X (1 .. MaxPending) :
                          s[2] \in DOMAIN queues[s[1]] /\ queues[s[1]][s[2]] = c}
             hands == {w \in Workers : held[w].of = {c}}
             left == {c} \cap abandoned
  <1>1. Cardinality(slots) = IF InQueue(c) THEN 1 ELSE 0
    <2>1. \A p \in Priorities : DOMAIN queues[p] = 1 .. Len(queues[p])
      BY LenProperties DEF PoolInv, PoolTypeOK
    <2>2. CASE InQueue(c)
      <3>1. PICK p \in Priorities : \E k \in 1 .. Len(queues[p]) : queues[p][k] = c
        BY <2>2 DEF InQueue
      <3>2. PICK i \in 1 .. Len(queues[p]) : queues[p][i] = c
        BY <3>1
      <3>3. i \in 1 .. MaxPending
        BY QueuesShort, PoolConstants
      <3>4. <<p, i>> \in slots
        BY <2>1, <3>2, <3>3
      <3>5. \A s \in slots : s = <<p, i>>
        <4> TAKE s \in slots
        <4>1. /\ s[1] \in Priorities /\ s[2] \in 1 .. Len(queues[s[1]]) /\ queues[s[1]][s[2]] = c
              /\ s = <<s[1], s[2]>>
          BY <2>1
        <4>2. s[1] = p /\ s[2] = i
          BY <3>2, <4>1 DEF PoolInv, QueuedOnce
        <4> QED  BY <4>1, <4>2
      <3>6. slots = {<<p, i>>}
        BY <3>4, <3>5
      <3> HIDE DEF slots
      <3> QED  BY <2>2, <3>6, FS_Singleton
    <2>3. CASE ~InQueue(c)
      <3>1. slots = {}
        BY <2>1, <2>3 DEF InQueue
      <3> HIDE DEF slots
      <3> QED  BY <2>3, <3>1, FS_EmptySet
    <2> QED  BY <2>2, <2>3
  <1>2. Cardinality(hands) = IF InHand(c) THEN 1 ELSE 0
    <2>1. \A w \in Workers : c \in held[w].of => held[w].of = {c}
      BY DEF PoolInv, HeldOnce
    <2>2. CASE InHand(c)
      <3>1. PICK w \in Workers : c \in held[w].of
        BY <2>2 DEF InHand
      <3>2. \A v \in Workers : c \in held[v].of => v = w
        BY <3>1 DEF PoolInv, HeldOnce
      <3>3. hands = {w}
        BY <2>1, <3>1, <3>2
      <3> HIDE DEF hands
      <3> QED  BY <2>2, <3>3, FS_Singleton
    <2>3. CASE ~InHand(c)
      <3>1. hands = {}
        BY <2>3 DEF InHand
      <3> HIDE DEF hands
      <3> QED  BY <2>3, <3>1, FS_EmptySet
    <2> QED  BY <2>2, <2>3
  <1>3. Cardinality(left) = IF c \in abandoned THEN 1 ELSE 0
    <2>1. CASE c \in abandoned
      <3>1. left = {c}
        BY <2>1
      <3> HIDE DEF left
      <3> QED  BY <2>1, <3>1, FS_Singleton
    <2>2. CASE c \notin abandoned
      <3>1. left = {}
        BY <2>2
      <3> HIDE DEF left
      <3> QED  BY <2>2, <3>1, FS_EmptySet
    <2> QED  BY <2>1, <2>2
  <1>4. Places(c) = Cardinality(slots) + Cardinality(hands) + Cardinality(left)
    BY DEF Places
  <1>5. /\ ~(InQueue(c) /\ InHand(c)) /\ ~(InQueue(c) /\ c \in abandoned)
        /\ ~(InHand(c) /\ c \in abandoned)
        /\ Waiting(c) <=> InQueue(c) \/ InHand(c) \/ c \in abandoned
    BY DEF PoolInv, OnePlace
  <1> HIDE DEF slots, hands, left
  <1> QED
    BY <1>1, <1>2, <1>3, <1>4, <1>5

\* A call that waits has its work in exactly one queue slot, worker or destructor, and an answered
\* one in none (EnginePool::analyze, worker() and ~EnginePool): no promise is set twice and none
\* is dropped, whatever retries, gives up or shuts down meanwhile.
THEOREM AnsweredExactlyOnce == PoolSpec => []AnsweredOnce
  <1>1. PoolSpec => []PoolInv
    BY PoolInitially, PoolStep, PTL DEF PoolSpec
  <1> QED
    BY <1>1, PlacesCounted, PTL

-----------------------------------------------------------------------------
(* No lost wakeup.  How the two sides of the count move.                   *)

BoundAt == {"check", "notifyOne", "fail", "notifyAll"}

LEMMA CountsFinite ==
    /\ IsFiniteSet(Bound) /\ IsFiniteSet(Notifying) /\ IsFiniteSet(Bound') /\ IsFiniteSet(Notifying')
    /\ Cardinality(Bound) \in Nat /\ Cardinality(Notifying) \in Nat
    /\ Cardinality(Bound') \in Nat /\ Cardinality(Notifying') \in Nat
  <1>1. IsFiniteSet(Workers) /\ IsFiniteSet(Callers)
    BY PoolConstants
  <1>2. Bound \subseteq Workers /\ Bound' \subseteq Workers
    BY DEF Bound
  <1>3. Notifying \subseteq Callers /\ Notifying' \subseteq Callers
    BY DEF Notifying
  <1>4. IsFiniteSet(Bound) /\ IsFiniteSet(Notifying) /\ IsFiniteSet(Bound') /\ IsFiniteSet(Notifying')
    BY <1>1, <1>2, <1>3, FS_Subset
  <1> QED
    BY <1>4, FS_CardinalityType

LEMMA BoundStays ==
    ASSUME \A v \in Workers : wpc[v] \in BoundAt => wpc'[v] \in BoundAt
    PROVE  Cardinality(Bound) <= Cardinality(Bound')
  <1>1. Bound \subseteq Bound'
    BY DEF Bound, BoundAt
  <1> QED
    BY <1>1, CountsFinite, FS_Subset

LEMMA BoundGrows ==
    ASSUME NEW w \in Workers, wpc[w] \notin BoundAt, wpc'[w] \in BoundAt,
           \A v \in Workers : wpc[v] \in BoundAt => wpc'[v] \in BoundAt
    PROVE  Cardinality(Bound) + 1 <= Cardinality(Bound')
  <1>1. Bound \cup {w} \subseteq Bound' /\ w \notin Bound
    BY DEF Bound, BoundAt
  <1>2. Cardinality(Bound \cup {w}) = Cardinality(Bound) + 1 /\ IsFiniteSet(Bound \cup {w})
    BY <1>1, CountsFinite, FS_AddElement
  <1>3. Cardinality(Bound \cup {w}) <= Cardinality(Bound')
    BY <1>1, CountsFinite, FS_Subset
  <1> QED
    BY <1>2, <1>3

LEMMA BoundShrinks ==
    ASSUME NEW w \in Workers, wpc[w] \in BoundAt, wpc'[w] \notin BoundAt,
           \A v \in Workers \ {w} : wpc'[v] = wpc[v]
    PROVE  Cardinality(Bound') = Cardinality(Bound) - 1
  <1>1. Bound' = Bound \ {w} /\ w \in Bound
    BY DEF Bound, BoundAt
  <1> QED
    BY <1>1, CountsFinite, FS_RemoveElement

LEMMA ServableType ==
    ASSUME PoolTypeOK
    PROVE  /\ Len(queues[0]) \in Nat /\ Len(queues[1]) \in Nat /\ Len(queues[2]) \in Nat
           /\ activeBy[2] \in Int /\ HistoricalLimit \in Int /\ ServableWorks \in Int
           /\ ServableWorks = Len(queues[0]) + Len(queues[1])
                                  + LesserOf(Len(queues[2]), HistoricalLimit - activeBy[2])
  <1>1. Cardinality(Workers) \in Nat
    BY PoolConstants, FS_CardinalityType
  <1>2. HistoricalLimit \in Int
    BY <1>1 DEF HistoricalLimit
  <1>3. /\ Len(queues[0]) \in Nat /\ Len(queues[1]) \in Nat /\ Len(queues[2]) \in Nat
        /\ activeBy[2] \in Int
    BY PriorityFacts, LenProperties DEF PoolTypeOK
  <1>4. ServableWorks = Len(queues[0]) + Len(queues[1])
                            + LesserOf(Len(queues[2]), HistoricalLimit - activeBy[2])
    BY PriorityFacts DEF ServableWorks
  <1>5. LesserOf(Len(queues[2]), HistoricalLimit - activeBy[2]) \in Int
    BY <1>2, <1>3 DEF LesserOf
  <1>6. ServableWorks \in Int
    <2> DEFINE a == Len(queues[0])  b == Len(queues[1])
               l == LesserOf(Len(queues[2]), HistoricalLimit - activeBy[2])
    <2>1. a \in Int /\ b \in Int /\ l \in Int /\ ServableWorks = a + b + l
      BY <1>3, <1>4, <1>5
    <2> HIDE DEF a, b, l
    <2> QED  BY <2>1
  <1> QED
    BY <1>2, <1>3, <1>4, <1>6

\* One work more in a queue, or one less that is counted, makes at most one more servable.
LEMMA ServableGrows ==
    ASSUME PoolTypeOK, PoolTypeOK', NEW p \in Priorities,
           Len(queues'[p]) <= Len(queues[p]) + 1, activeBy'[p] >= activeBy[p] - 1,
           \A q \in Priorities \ {p} : queues'[q] = queues[q] /\ activeBy'[q] = activeBy[q]
    PROVE  ServableWorks' <= ServableWorks + 1
  <1> DEFINE a == Len(queues[0])  b == Len(queues[1])  d == Len(queues[2])
             x == Len(queues'[0])  y == Len(queues'[1])  z == Len(queues'[2])
             m == HistoricalLimit - activeBy[2]  n == HistoricalLimit - (activeBy'[2])
  <1>1. /\ a \in Nat /\ b \in Nat /\ d \in Nat /\ x \in Nat /\ y \in Nat /\ z \in Nat
        /\ m \in Int /\ n \in Int
        /\ ServableWorks = a + b + LesserOf(d, m) /\ ServableWorks' = x + y + LesserOf(z, n)
    <2>1. /\ Len(queues'[0]) \in Nat /\ Len(queues'[1]) \in Nat /\ Len(queues'[2]) \in Nat
          /\ activeBy'[2] \in Int
          /\ ServableWorks' = Len(queues'[0]) + Len(queues'[1])
                                  + LesserOf(Len(queues'[2]), HistoricalLimit - (activeBy'[2]))
      <3>1. /\ Len(queues'[0]) \in Nat /\ Len(queues'[1]) \in Nat /\ Len(queues'[2]) \in Nat
            /\ activeBy'[2] \in Int
        BY PriorityFacts, LenProperties DEF PoolTypeOK
      <3>2. ServableWorks' = Len(queues'[0]) + Len(queues'[1])
                                 + LesserOf(Len(queues'[2]), HistoricalLimit - (activeBy'[2]))
        BY PriorityFacts DEF ServableWorks
      <3> QED  BY <3>1, <3>2
    <2> QED  BY <2>1, ServableType
  <1>2. /\ x <= a + 1 /\ y <= b + 1 /\ z <= d + 1 /\ n <= m + 1
        /\ (p = 0 => y = b /\ z = d /\ n = m)
        /\ (p = 1 => x = a /\ z = d /\ n = m)
        /\ (p = 2 => x = a /\ y = b)
    <2>1. \A q \in {0, 1, 2} : q # p => queues'[q] = queues[q] /\ activeBy'[q] = activeBy[q]
      BY PriorityFacts
    <2>2. \A q \in {0, 1, 2} : activeBy[q] \in Int /\ activeBy'[q] \in Int
      BY PriorityFacts DEF PoolTypeOK
    <2>3. HistoricalLimit \in Int
      BY ServableType
    <2>4. n <= m + 1 /\ (p # 2 => n = m)
      BY <2>1, <2>2, <2>3
    <2>5. x <= a + 1 /\ (p # 0 => x = a)
      <3>1. CASE p = 0
        BY <3>1
      <3>2. CASE p # 0
        BY <1>1, <2>1, <3>2
      <3> QED  BY <3>1, <3>2
    <2>6. y <= b + 1 /\ (p # 1 => y = b)
      <3>1. CASE p = 1
        BY <3>1
      <3>2. CASE p # 1
        BY <1>1, <2>1, <3>2
      <3> QED  BY <3>1, <3>2
    <2>7. z <= d + 1 /\ (p # 2 => z = d)
      <3>1. CASE p = 2
        BY <3>1
      <3>2. CASE p # 2
        BY <1>1, <2>1, <3>2
      <3> QED  BY <3>1, <3>2
    <2> QED  BY <2>4, <2>5, <2>6, <2>7
  <1>3. p = 0 \/ p = 1 \/ p = 2
    BY PriorityFacts
  <1> HIDE DEF a, b, d, x, y, z, m, n
  <1> QED
    BY <1>1, <1>2, <1>3 DEF LesserOf

\* A worker that takes a work takes one of the servable ones.
LEMMA ServableShrinks ==
    ASSUME PoolTypeOK, PoolTypeOK', NEW p \in Priorities, Servable(p),
           Len(queues'[p]) = Len(queues[p]) - 1, activeBy'[p] = activeBy[p] + 1,
           \A q \in Priorities \ {p} : queues'[q] = queues[q] /\ activeBy'[q] = activeBy[q]
    PROVE  ServableWorks' = ServableWorks - 1
  <1> DEFINE a == Len(queues[0])  b == Len(queues[1])  d == Len(queues[2])
             x == Len(queues'[0])  y == Len(queues'[1])  z == Len(queues'[2])
             m == HistoricalLimit - activeBy[2]  n == HistoricalLimit - (activeBy'[2])
  <1>1. /\ Len(queues'[0]) \in Nat /\ Len(queues'[1]) \in Nat /\ Len(queues'[2]) \in Nat
        /\ activeBy'[2] \in Int
    BY PriorityFacts, LenProperties DEF PoolTypeOK
  <1>2. ServableWorks' = x + y + LesserOf(z, n)
    BY PriorityFacts DEF ServableWorks
  <1>3. /\ a \in Nat /\ b \in Nat /\ d \in Nat /\ x \in Nat /\ y \in Nat /\ z \in Nat
        /\ m \in Int /\ n \in Int /\ ServableWorks = a + b + LesserOf(d, m)
    BY <1>1, ServableType
  <1>4. \A q \in {0, 1, 2} : q # p => queues'[q] = queues[q] /\ activeBy'[q] = activeBy[q]
    BY PriorityFacts
  <1>5. /\ (p = 0 => x = a - 1 /\ y = b /\ z = d /\ n = m)
        /\ (p = 1 => x = a /\ y = b - 1 /\ z = d /\ n = m)
    BY <1>4
  <1>6. p = 2 => x = a /\ y = b /\ z = d - 1 /\ n = m - 1 /\ m > 0
    <2> SUFFICES ASSUME p = 2 PROVE x = a /\ y = b /\ z = d - 1 /\ n = m - 1 /\ m > 0
      OBVIOUS
    <2>1. activeBy[2] < HistoricalLimit
      BY PriorityFacts DEF Servable
    <2>2. activeBy'[2] = activeBy[2] + 1 /\ activeBy[2] \in Int /\ HistoricalLimit \in Int
      BY ServableType
    <2> QED  BY <1>4, <2>1, <2>2
  <1>7. p = 0 \/ p = 1 \/ p = 2
    BY PriorityFacts
  <1> HIDE DEF a, b, d, x, y, z, m, n
  <1> QED
    BY <1>2, <1>3, <1>5, <1>6, <1>7 DEF LesserOf

\* A worker goes to sleep when nothing is servable.
LEMMA NothingServable ==
    ASSUME PoolTypeOK, \A p \in Priorities : ~Servable(p)
    PROVE  ServableWorks <= 0
  <1> DEFINE a == Len(queues[0])  b == Len(queues[1])  d == Len(queues[2])
             m == HistoricalLimit - activeBy[2]
  <1>1. /\ a \in Nat /\ b \in Nat /\ d \in Nat /\ m \in Int
        /\ ServableWorks = a + b + LesserOf(d, m)
    BY ServableType
  <1>2. Len(<<>>) = 0
    BY EmptySeq
  <1>3. a = 0 /\ b = 0
    BY <1>2, PriorityFacts DEF Servable
  <1>4. d = 0 \/ m <= 0
    BY <1>2, PriorityFacts, ServableType DEF Servable
  <1> HIDE DEF a, b, d, m
  <1> QED
    BY <1>1, <1>3, <1>4 DEF LesserOf

-----------------------------------------------------------------------------
(* The steps.  Those that wake everybody, or end the time of being "up",    *)
(* leave nothing to show.                                                   *)

\* A worker sleeps while the pool is up.
Drowsy == mode = "up" /\ Asleep(wpc) # {}

LEMMA WakeupMoves ==
    ASSUME PoolTypeOK, PoolTypeOK', WakeupInv, Drowsy' => Drowsy, NEW k \in Int,
           ServableWorks' <= ServableWorks + k,
           Cardinality(Bound) + Cardinality(Notifying) + k
               <= Cardinality(Bound') + Cardinality(Notifying')
    PROVE  WakeupInv'
  <1>1. ServableWorks \in Int
    BY ServableType
  <1>2. ServableWorks' \in Int
    <2> DEFINE x == Len(queues'[0])  y == Len(queues'[1])
               l == LesserOf(Len(queues'[2]), HistoricalLimit - (activeBy'[2]))
    <2>1. /\ x \in Int /\ y \in Int /\ Len(queues'[2]) \in Int /\ activeBy'[2] \in Int
          /\ HistoricalLimit \in Int
      BY ServableType, PriorityFacts, LenProperties DEF PoolTypeOK
    <2>2. l \in Int
      BY <2>1 DEF LesserOf
    <2>3. ServableWorks' = x + y + l
      BY PriorityFacts DEF ServableWorks
    <2> HIDE DEF x, y, l
    <2> QED  BY <2>1, <2>2, <2>3
  <1> SUFFICES ASSUME Drowsy'
               PROVE  ServableWorks' <= Cardinality(Bound') + Cardinality(Notifying')
    BY DEF WakeupInv, Drowsy
  <1>3. ServableWorks <= Cardinality(Bound) + Cardinality(Notifying)
    BY DEF WakeupInv, Drowsy
  <1> QED
    BY <1>1, <1>2, <1>3, CountsFinite

\* Nothing becomes servable, nobody falls asleep, and nobody who was on the way drops out.
LEMMA WakeupQuiet ==
    ASSUME PoolTypeOK, PoolTypeOK', WakeupInv, UNCHANGED <<queues, activeBy>>, Drowsy' => Drowsy,
           \A v \in Workers : wpc[v] \in BoundAt => wpc'[v] \in BoundAt,
           Notifying' = Notifying
    PROVE  WakeupInv'
  <1>1. ServableWorks' = ServableWorks /\ ServableWorks \in Int
    BY ServableType DEF ServableWorks
  <1>2. Cardinality(Bound) <= Cardinality(Bound')
    BY BoundStays
  <1>3. ServableWorks' <= ServableWorks + 0
    BY <1>1
  <1>4. Cardinality(Bound) + Cardinality(Notifying) + 0 <= Cardinality(Bound') + Cardinality(Notifying')
    BY <1>2, CountsFinite
  <1> QED
    BY <1>3, <1>4, WakeupMoves

LEMMA WakeupSubmit ==
    ASSUME PoolInv, PoolInv', WakeupInv, NEW c \in Callers, Submit(c)
    PROVE  WakeupInv'
  <1>0. PoolTypeOK /\ PoolTypeOK'
    BY DEF PoolInv
  <1>1. PICK p \in Asked : queues' = [queues EXCEPT ![p] = Append(@, c)]
    BY DEF Submit
  <1>2. p \in Priorities
    BY PoolConstants
  <1>3. /\ calling[c] = "idle" /\ calling' = [calling EXCEPT ![c] = "notify"]
        /\ UNCHANGED <<mode, active, activeBy, abandoned, wpc, held>>
    BY DEF Submit
  <1>4. /\ Len(queues'[p]) = Len(queues[p]) + 1 /\ Len(queues[p]) \in Nat
        /\ activeBy'[p] >= activeBy[p] - 1
        /\ \A q \in Priorities \ {p} : queues'[q] = queues[q] /\ activeBy'[q] = activeBy[q]
    <2>1. /\ Len(Append(queues[p], c)) = Len(queues[p]) + 1 /\ Len(queues[p]) \in Nat
      BY <1>0, <1>2, AppendSlots DEF PoolTypeOK
    <2> QED  BY <1>0, <1>1, <1>2, <1>3, <2>1 DEF PoolTypeOK
  <1>5. ServableWorks' <= ServableWorks + 1
    BY <1>0, <1>2, <1>4, ServableGrows
  <1>6. Notifying' = Notifying \cup {c} /\ c \notin Notifying /\ Bound' = Bound
    BY <1>0, <1>3 DEF Notifying, Bound, PoolTypeOK
  <1>7. Cardinality(Notifying') = Cardinality(Notifying) + 1
    BY <1>6, CountsFinite, FS_AddElement
  <1>8. Cardinality(Bound) + Cardinality(Notifying) + 1 <= Cardinality(Bound') + Cardinality(Notifying')
    BY <1>6, <1>7, CountsFinite
  <1>9. Drowsy' => Drowsy
    BY <1>3 DEF Drowsy, Asleep
  <1> QED
    BY <1>0, <1>5, <1>8, <1>9, WakeupMoves

\* notify_one after a submission: whoever it wakes counts in the place of the caller.
LEMMA WakeupNotify ==
    ASSUME PoolInv, PoolInv', WakeupInv, NEW c \in Callers, Notify(c)
    PROVE  WakeupInv'
  <1>0. PoolTypeOK /\ PoolTypeOK'
    BY DEF PoolInv
  <1>1. /\ calling[c] = "notify" /\ calling' = [calling EXCEPT ![c] = "waiting"] /\ wpc' \in WakeOne(wpc)
        /\ UNCHANGED <<mode, queues, activeBy>>
    BY DEF Notify, poolVars
  <1>2. CASE Asleep(wpc) = {}
    <2>1. wpc' = wpc
      BY <1>1, <1>2 DEF WakeOne
    <2> QED  BY <1>2, <2>1 DEF WakeupInv, Asleep
  <1>3. CASE Asleep(wpc) # {}
    <2>1. PICK w \in Asleep(wpc) : wpc' = [wpc EXCEPT ![w] = "check"]
      BY <1>1, <1>3 DEF WakeOne
    <2>2. w \in Workers /\ wpc[w] = "asleep"
      BY DEF Asleep
    <2>3. Cardinality(Bound) + 1 <= Cardinality(Bound')
      BY <1>0, <2>1, <2>2, BoundGrows DEF BoundAt, PoolTypeOK
    <2>4. Notifying' = Notifying \ {c} /\ c \in Notifying
      BY <1>0, <1>1 DEF Notifying, PoolTypeOK
    <2>5. Cardinality(Notifying') = Cardinality(Notifying) - 1
      BY <2>4, CountsFinite, FS_RemoveElement
    <2>6. ServableWorks' = ServableWorks /\ ServableWorks \in Int
      BY <1>0, <1>1, ServableType DEF ServableWorks
    <2>7. Drowsy' => Drowsy
      BY <1>1, <1>3 DEF Drowsy
    <2>8. ServableWorks' <= ServableWorks + 0
      BY <2>6
    <2>9. Cardinality(Bound) + Cardinality(Notifying) + 0
              <= Cardinality(Bound') + Cardinality(Notifying')
      BY <2>3, <2>5, CountsFinite
    <2> QED  BY <1>0, <2>7, <2>8, <2>9, WakeupMoves
  <1> QED
    BY <1>2, <1>3

LEMMA WakeupTake ==
    ASSUME PoolInv, PoolInv', WakeupInv, NEW w \in Workers, Take(w)
    PROVE  WakeupInv'
  <1>0. PoolTypeOK /\ PoolTypeOK'
    BY DEF PoolInv
  <1>1. PICK p \in Priorities :
            /\ Servable(p)
            /\ queues' = [queues EXCEPT ![p] = Tail(@)]
            /\ activeBy' = [activeBy EXCEPT ![p] = @ + 1]
    BY DEF Take
  <1>2. /\ wpc[w] = "check" /\ wpc' = [wpc EXCEPT ![w] = "run"] /\ UNCHANGED <<mode, calling>>
    BY DEF Take, GoTo
  <1>3. /\ Len(queues'[p]) = Len(queues[p]) - 1 /\ activeBy'[p] = activeBy[p] + 1
        /\ \A q \in Priorities \ {p} : queues'[q] = queues[q] /\ activeBy'[q] = activeBy[q]
    <2>1. Len(Tail(queues[p])) = Len(queues[p]) - 1
      BY <1>0, <1>1, TailSlots DEF PoolTypeOK, Servable
    <2> QED  BY <1>0, <1>1, <2>1 DEF PoolTypeOK
  <1>4. ServableWorks' = ServableWorks - 1 /\ ServableWorks \in Int
    BY <1>0, <1>1, <1>3, ServableShrinks, ServableType
  <1>5. Cardinality(Bound') = Cardinality(Bound) - 1
    BY <1>0, <1>2, BoundShrinks DEF BoundAt, PoolTypeOK
  <1>6. Notifying' = Notifying
    BY <1>2 DEF Notifying
  <1>7. Drowsy' => Drowsy
    BY <1>0, <1>2 DEF Drowsy, Asleep, PoolTypeOK
  <1>8. ServableWorks' <= ServableWorks + (-1)
    BY <1>4
  <1>9. Cardinality(Bound) + Cardinality(Notifying) + (-1)
            <= Cardinality(Bound') + Cardinality(Notifying')
    BY <1>5, <1>6, CountsFinite
  <1> QED
    BY <1>0, <1>7, <1>8, <1>9, WakeupMoves

\* A work that did not end well: put back with a notification to come, or given up, which may free
\* the limit of the historical ones and is told to all.
LEMMA WakeupUncount ==
    ASSUME PoolInv, PoolInv', WakeupInv, NEW w \in Workers, Retry(w) \/ GiveUp(w)
    PROVE  WakeupInv'
  <1>0. PoolTypeOK /\ PoolTypeOK'
    BY DEF PoolInv
  <1> DEFINE p == held[w].prio
  <1>1. p \in Priorities
    BY <1>0 DEF PoolTypeOK, HeldType
  <1>2. /\ wpc[w] = "threw" /\ Uncount(w) /\ UNCHANGED <<mode, calling>>
        /\ wpc' = [wpc EXCEPT ![w] = "notifyOne"] \/ wpc' = [wpc EXCEPT ![w] = "fail"]
    BY DEF Retry, GiveUp, GoTo
  <1>3. /\ activeBy' = [activeBy EXCEPT ![p] = @ - 1]
        /\ activeBy'[p] >= activeBy[p] - 1 /\ \A q \in Priorities \ {p} : activeBy'[q] = activeBy[q]
    <2>1. activeBy' = [activeBy EXCEPT ![p] = @ - 1]
      BY <1>2 DEF Uncount
    <2> HIDE DEF p
    <2> QED  BY <1>0, <1>1, <2>1 DEF PoolTypeOK
  <1>4. Len(queues'[p]) <= Len(queues[p]) + 1 /\ \A q \in Priorities \ {p} : queues'[q] = queues[q]
    <2>1. Len(queues[p]) \in Nat
      BY <1>0, <1>1, LenProperties DEF PoolTypeOK
    <2>2. CASE Retry(w)
      <3>1. PICK c \in held[w].of : queues' = [queues EXCEPT ![p] = <<c>> \o @]
        BY <2>2 DEF Retry
      <3>2. c \in Callers
        BY <1>0 DEF PoolTypeOK, HeldType
      <3> HIDE DEF p
      <3>3. Len(<<c>> \o queues[p]) = Len(queues[p]) + 1
        BY <1>0, <1>1, <3>2, FrontSlots DEF PoolTypeOK
      <3> QED  BY <1>0, <1>1, <2>1, <3>1, <3>3 DEF PoolTypeOK
    <2>3. CASE GiveUp(w)
      <3>1. queues' = queues
        BY <2>3 DEF GiveUp
      <3> HIDE DEF p
      <3> QED  BY <2>1, <3>1
    <2> QED  BY <2>2, <2>3
  <1> HIDE DEF p
  <1>5. ServableWorks' <= ServableWorks + 1
    BY <1>0, <1>1, <1>3, <1>4, ServableGrows
  <1>6. Cardinality(Bound) + 1 <= Cardinality(Bound')
    BY <1>0, <1>2, BoundGrows DEF BoundAt, PoolTypeOK
  <1>7. Notifying' = Notifying
    BY <1>2 DEF Notifying
  <1>8. Drowsy' => Drowsy
    BY <1>0, <1>2 DEF Drowsy, Asleep, PoolTypeOK
  <1>9. Cardinality(Bound) + Cardinality(Notifying) + 1 <= Cardinality(Bound') + Cardinality(Notifying')
    BY <1>6, <1>7, CountsFinite
  <1> QED
    BY <1>0, <1>5, <1>8, <1>9, WakeupMoves

LEMMA WakeupSleep ==
    ASSUME PoolInv, NEW w \in Workers, Sleep(w)
    PROVE  WakeupInv'
  <1>0. PoolTypeOK
    BY DEF PoolInv
  <1>1. UNCHANGED <<queues, activeBy>> /\ \A p \in Priorities : ~Servable(p)
    BY DEF Sleep, poolVars
  <1>2. ServableWorks <= 0 /\ ServableWorks \in Int
    BY <1>0, <1>1, NothingServable, ServableType
  <1>3. ServableWorks' = ServableWorks
    BY <1>1 DEF ServableWorks
  <1> QED
    BY <1>2, <1>3, CountsFinite DEF WakeupInv

\* notify_all leaves nobody asleep.
LEMMA WakeupAll ==
    ASSUME NEW pc \in [Workers -> WorkerAt], wpc' = WakeAll(pc)
    PROVE  WakeupInv'
  <1>1. \A v \in Workers : wpc'[v] # "asleep"
    BY DEF WakeAll
  <1> QED
    BY <1>1 DEF WakeupInv, Asleep

LEMMA WakeupWorkers ==
    ASSUME PoolInv, PoolInv', WakeupInv, NEW w \in Workers,
           \/ Exit(w) \/ WakeSpuriously(w) \/ Finishes(w) \/ Deliver(w) \/ Finish(w)
           \/ NotifyRetry(w) \/ FailCall(w) \/ NotifyFailure(w)
    PROVE  WakeupInv'
  <1>0. PoolTypeOK /\ PoolTypeOK'
    BY DEF PoolInv
  <1>1. CASE Exit(w)
    BY <1>1 DEF Exit, poolVars, WakeupInv
  <1>2. CASE Finish(w) \/ NotifyFailure(w)
    <2>1. [wpc EXCEPT ![w] = "check"] \in [Workers -> WorkerAt]
      BY <1>0 DEF PoolTypeOK, WorkerAt
    <2> QED  BY <1>2, <2>1, WakeupAll DEF Finish, NotifyFailure
  <1>3. CASE WakeSpuriously(w) \/ Finishes(w) \/ Deliver(w) \/ FailCall(w) \/ NotifyRetry(w)
    <2>1. UNCHANGED <<mode, queues, activeBy, calling>>
      BY <1>3 DEF WakeSpuriously, Finishes, Deliver, FailCall, NotifyRetry, poolVars
    <2>2. /\ \A v \in Workers : wpc[v] \in BoundAt => wpc'[v] \in BoundAt
          /\ \A v \in Workers : wpc'[v] = "asleep" => wpc[v] = "asleep"
      <3>1. CASE WakeSpuriously(w) \/ Finishes(w) \/ Deliver(w) \/ FailCall(w)
        BY <1>0, <3>1 DEF WakeSpuriously, Finishes, Deliver, FailCall, GoTo, BoundAt, PoolTypeOK
      <3>2. CASE NotifyRetry(w)
        <4> DEFINE pc == [wpc EXCEPT ![w] = "check"]
        <4>1. /\ pc \in [Workers -> WorkerAt] /\ pc[w] = "check"
              /\ \A v \in Workers \ {w} : pc[v] = wpc[v]
          BY <1>0 DEF PoolTypeOK, WorkerAt
        <4>2. wpc' \in WakeOne(pc)
          BY <3>2 DEF NotifyRetry
        <4> HIDE DEF pc
        <4>3. \A v \in Workers : wpc'[v] = pc[v] \/ (pc[v] = "asleep" /\ wpc'[v] = "check")
          BY <4>1, <4>2, WakeFacts
        <4> QED  BY <4>1, <4>3 DEF BoundAt
      <3> QED  BY <1>3, <3>1, <3>2
    <2>3. Drowsy' => Drowsy
      BY <2>1, <2>2 DEF Drowsy, Asleep
    <2>4. Notifying' = Notifying
      BY <2>1 DEF Notifying
    <2> QED  BY <1>0, <2>1, <2>2, <2>3, <2>4, WakeupQuiet
  <1> QED
    BY <1>1, <1>2, <1>3

LEMMA WakeupOthers ==
    ASSUME PoolInv, PoolInv', WakeupInv,
           \/ \E c \in Callers : Poll(c) \/ ReturnCall(c)
           \/ Shutdown \/ Destructor \/ UNCHANGED allVars
    PROVE  WakeupInv'
  <1>0. PoolTypeOK /\ PoolTypeOK'
    BY DEF PoolInv
  <1>1. CASE Shutdown \/ NotifyStop \/ Joined
    BY <1>1 DEF Shutdown, NotifyStop, Joined, WakeupInv
  <1>2. CASE \/ \E c \in Callers : Poll(c) \/ ReturnCall(c) \/ Abandon(c)
             \/ UNCHANGED allVars
    <2>1. UNCHANGED <<mode, queues, activeBy, wpc>>
      BY <1>2 DEF Poll, ReturnCall, Abandon, allVars, poolVars
    <2>2. Notifying' = Notifying
      BY <1>0, <1>2 DEF Poll, ReturnCall, Abandon, allVars, poolVars, Notifying, PoolTypeOK
    <2>3. Drowsy' => Drowsy
      BY <2>1 DEF Drowsy, Asleep
    <2> QED  BY <1>0, <2>1, <2>2, <2>3, WakeupQuiet
  <1> QED
    BY <1>1, <1>2 DEF Destructor

LEMMA WakeupInitially == PoolInit => WakeupInv
  <1> SUFFICES ASSUME PoolInit PROVE WakeupInv
    OBVIOUS
  <1>1. Asleep(wpc) = {}
    BY DEF PoolInit, Asleep
  <1> QED
    BY <1>1 DEF WakeupInv

LEMMA WakeupNext == PoolInv /\ PoolInv' /\ WakeupInv /\ [PoolNext]_allVars => WakeupInv'
  <1> SUFFICES ASSUME PoolInv, PoolInv', WakeupInv, [PoolNext]_allVars PROVE WakeupInv'
    OBVIOUS
  <1>1. ASSUME NEW c \in Callers, Submit(c) \/ Poll(c) \/ CallerProceeds(c) PROVE WakeupInv'
    BY <1>1, WakeupSubmit, WakeupNotify, WakeupOthers DEF CallerProceeds
  <1>2. ASSUME NEW w \in Workers, WorkerStep(w) \/ WakeSpuriously(w) PROVE WakeupInv'
    BY <1>2, WakeupSleep, WakeupTake, WakeupUncount, WakeupWorkers DEF WorkerStep
  <1>3. CASE Shutdown \/ Destructor \/ UNCHANGED allVars
    BY <1>3, WakeupOthers
  <1> QED
    BY <1>1, <1>2, <1>3 DEF PoolNext

\* Whoever is bound to look or to notify is on the way.
LEMMA BoundOnTheWay == PoolInv /\ WakeupInv => NoLostWakeup
  <1> SUFFICES ASSUME PoolInv, WakeupInv, mode = "up", Asleep(wpc) # {}
               PROVE  ServableWorks <= OnTheWay
    BY DEF NoLostWakeup
  <1> DEFINE busy == {w \in Workers : wpc[w] \notin {"asleep", "run", "exited"}}
  <1>1. IsFiniteSet(busy) /\ Bound \subseteq busy
    <2>1. IsFiniteSet(Workers) /\ busy \subseteq Workers
      BY PoolConstants
    <2>2. IsFiniteSet(busy)
      BY <2>1, FS_Subset
    <2> QED  BY <2>2 DEF Bound
  <1>2. Cardinality(Bound) <= Cardinality(busy) /\ Cardinality(busy) \in Nat
    BY <1>1, FS_Subset, FS_CardinalityType
  <1>3. OnTheWay = Cardinality(busy) + Cardinality(Notifying)
    BY DEF OnTheWay, Notifying
  <1>4. ServableWorks <= Cardinality(Bound) + Cardinality(Notifying) /\ ServableWorks \in Int
    BY ServableType DEF WakeupInv, PoolInv
  <1> HIDE DEF busy
  <1> QED
    BY <1>2, <1>3, <1>4, CountsFinite

\* While a worker sleeps, each work that could be served has a thread on its way: notify_one after
\* a submission or a retry, where the code could have notified all, loses no work.
THEOREM WakeupsSuffice == PoolSpec => []NoLostWakeup
  <1>1. PoolSpec => []PoolInv
    BY PoolInitially, PoolStep, PTL DEF PoolSpec
  <1>2. PoolSpec => []WakeupInv
    BY <1>1, WakeupInitially, WakeupNext, PTL DEF PoolSpec
  <1> QED
    BY <1>1, <1>2, BoundOnTheWay, PTL

-----------------------------------------------------------------------------
(* The event log.  Sets of numbers, and the scan of a file.                *)

\* A set of numbers that is not empty has a least element, ...
LEMMA LeastOfNats ==
    ASSUME NEW S, S \subseteq Nat, S # {}
    PROVE  \E x \in S : \A y \in S : x <= y
  <1>1. IsWellFoundedOn(OpToRel(<, Nat), Nat)
    BY NatLessThanWellFounded
  <1>2. PICK x \in S : \A y \in S : ~(<<y, x>> \in OpToRel(<, Nat))
    BY <1>1, WFMin
  <1>3. \A y \in S : ~(y < x)
    BY <1>2 DEF OpToRel
  <1> QED BY <1>3

\* ... and a greatest one if it is bounded.
LEMMA GreatestOfBounded ==
    ASSUME NEW b \in Nat, NEW S, S \subseteq 0 .. b, S # {}
    PROVE  \E x \in S : \A y \in S : y <= x
  <1> DEFINE T == {t \in 0 .. b : b - t \in S}
  <1>1. PICK x \in S : TRUE
    OBVIOUS
  <1>2. b - x \in T
    BY <1>1
  <1>3. PICK t \in T : \A u \in T : t <= u
    <2>1. T \subseteq Nat /\ T # {}
      BY <1>2
    <2> QED BY <2>1, LeastOfNats
  <1>4. \A y \in S : b - y \in T
    OBVIOUS
  <1>5. b - t \in S /\ \A y \in S : y <= b - t
    BY <1>3, <1>4
  <1> QED BY <1>5

IsSeq(s) == \E S : s \in Seq(S)

\* Where a record may begin next.
LEMMA FindMagicFacts ==
    ASSUME NEW f, IsSeq(f), NEW o \in 1 .. Len(f) + 1
    PROVE  /\ FindMagic(f, o) \in o .. Len(f) + 1
           /\ FindMagic(f, o) <= Len(f) => f[FindMagic(f, o)].part = 1
           /\ \A i \in o .. Len(f) : i < FindMagic(f, o) => f[i].part # 1
  <1> DEFINE S == {i \in o .. Len(f) : f[i].part = 1} \cup {Len(f) + 1}
  <1>1. Len(f) \in Nat
    BY DEF IsSeq
  <1>2. S \subseteq Nat /\ S # {}
    BY <1>1
  <1>3. PICK x \in S : \A y \in S : x <= y
    BY <1>2, LeastOfNats
  <1>4. FindMagic(f, o) = CHOOSE z \in S : \A y \in S : z <= y
    BY DEF FindMagic, Min
  <1>5. FindMagic(f, o) \in S /\ \A y \in S : FindMagic(f, o) <= y
    BY <1>3, <1>4
  <1> QED BY <1>1, <1>5

\* What is read from a place depends on later places only.
LEMMA ReadsLater ==
    ASSUME NEW f, IsSeq(f), NEW o \in 1 .. Len(f) + RecordCells, NEW a, NEW b,
           \A p \in o + 1 .. Len(f) + RecordCells : a[p] = b[p]
    PROVE  ReadFrom(f, o, a) = ReadFrom(f, o, b)
  <1>1. Len(f) \in Nat
    BY DEF IsSeq
  <1>2. CASE Len(f) + 1 - o <= 0
    BY <1>2 DEF ReadFrom
  <1>3. CASE ~(Len(f) + 1 - o <= 0)
    <2>1. o + 1 \in 1 .. Len(f) + 1 /\ o + RecordCells \in o + 1 .. Len(f) + RecordCells
      BY <1>1, <1>3 DEF RecordCells
    <2>2. FindMagic(f, o + 1) \in o + 1 .. Len(f) + 1
      BY <2>1, FindMagicFacts
    <2>3. FindMagic(f, o + 1) \in o + 1 .. Len(f) + RecordCells
      BY <1>1, <2>2 DEF RecordCells
    <2>4. a[FindMagic(f, o + 1)] = b[FindMagic(f, o + 1)] /\ a[o + RecordCells] = b[o + RecordCells]
      BY <2>1, <2>3
    <2> QED BY <2>4 DEF ReadFrom
  <1> QED BY <1>2, <1>3

\* There is a scan of any file, ...
LEMMA ScanIs ==
    ASSUME NEW f, IsSeq(f)
    PROVE  Scan(f) = [o \in 1 .. Len(f) + RecordCells |-> ReadFrom(f, o, Scan(f))]
  <1> DEFINE N == Len(f) + RecordCells
             Part(g, n) == g = [o \in N + 1 - n .. N |-> ReadFrom(f, o, g)]
             Bad == {n \in 0 .. N : \A g : ~Part(g, n)}
  <1>1. N \in Nat
    BY DEF IsSeq, RecordCells
  <1>2. Bad = {}
    <2> SUFFICES ASSUME Bad # {} PROVE FALSE
      OBVIOUS
    <2> HIDE DEF N
    <2>1. PICK n \in Bad : \A y \in Bad : n <= y
      <3>1. Bad \subseteq Nat
        BY <1>1
      <3> QED BY <3>1, LeastOfNats
    <2>2. CASE n = 0
      <3> DEFINE g == [o \in {} |-> o]
      <3>1. g = [o \in N + 1 - n .. N |-> ReadFrom(f, o, g)]
        BY <1>1, <2>2
      <3> QED BY <2>1, <3>1
    <2>3. CASE n # 0
      <3>1. n - 1 \in 0 .. N /\ n - 1 \notin Bad /\ n \in 1 .. N
        <4>1. n \in 0 .. N
          BY <2>1
        <4>2. n \in 1 .. N /\ n - 1 \in 0 .. N /\ ~(n <= n - 1)
          BY <1>1, <2>3, <4>1
        <4> QED BY <2>1, <4>2
      <3>2. PICK g : Part(g, n - 1)
        BY <3>1
      <3> DEFINE x == N + 1 - n
                 h == [o \in x .. N |-> IF o = x THEN ReadFrom(f, x, g) ELSE g[o]]
      <3>3. x \in 1 .. N /\ N + 1 - (n - 1) = x + 1
        BY <1>1, <3>1
      <3>4. DOMAIN g = x + 1 .. N /\ \A o \in x + 1 .. N : g[o] = ReadFrom(f, o, g)
        BY <3>2, <3>3
      <3>5. \A o \in x .. N : o # x => o \in x + 1 .. N
        BY <1>1, <3>3
      <3> HIDE DEF x
      <3>6. \A o \in x + 1 .. N : h[o] = g[o]
        BY <1>1, <3>3
      <3>7. ASSUME NEW o \in x .. N PROVE h[o] = ReadFrom(f, o, h)
        <4>1. \A p \in o + 1 .. N : g[p] = h[p]
          BY <1>1, <3>3, <3>6
        <4>2. o \in 1 .. N
          BY <1>1, <3>3
        <4> HIDE DEF h
        <4>3. ReadFrom(f, o, g) = ReadFrom(f, o, h)
          BY <4>1, <4>2, ReadsLater DEF N
        <4>4. CASE o = x
          <5>1. h[o] = ReadFrom(f, x, g)
            BY <4>4 DEF h
          <5> QED BY <4>3, <4>4, <5>1
        <4>5. CASE o # x
          <5>1. o \in x + 1 .. N
            BY <3>5, <4>5
          <5> QED BY <3>4, <3>6, <4>3, <5>1
        <4> QED BY <4>4, <4>5
      <3>8. Part(h, n)
        BY <3>7 DEF x
      <3> QED BY <2>1, <3>8
    <2> QED BY <2>2, <2>3
  <1>3. PICK g : Part(g, N)
    BY <1>1, <1>2
  <1>4. g = [o \in 1 .. N |-> ReadFrom(f, o, g)]
    BY <1>1, <1>3
  <1> HIDE DEF N, Part
  <1>5. Scan(f) = CHOOSE scan : scan = [o \in 1 .. N |-> ReadFrom(f, o, scan)]
    BY DEF Scan, N
  <1>6. Scan(f) = [o \in 1 .. N |-> ReadFrom(f, o, Scan(f))]
    BY <1>4, <1>5
  <1> QED BY <1>6 DEF N

\* ... whose results are records of three fields, ...
Cells(f) == {f[i].of : i \in 1 .. Len(f)}
Results(S) == [events : Seq(S), corrupt : BOOLEAN, truncated : BOOLEAN]
LEMMA ScanShape ==
    ASSUME NEW f, IsSeq(f)
    PROVE  \A o \in 1 .. Len(f) + RecordCells : Scan(f)[o] \in Results(Cells(f))
  <1> DEFINE N == Len(f) + RecordCells
             Bad == {o \in 1 .. N : Scan(f)[o] \notin Results(Cells(f))}
  <1>1. N \in Nat /\ Len(f) \in Nat /\ N = Len(f) + 4
    BY DEF IsSeq, RecordCells
  <1>2. Bad = {}
    <2> SUFFICES ASSUME Bad # {} PROVE FALSE
      OBVIOUS
    <2> HIDE DEF N
    <2>1. PICK o \in Bad : \A y \in Bad : y <= o
      <3>1. Bad \subseteq 0 .. N
        BY <1>1
      <3> QED BY <1>1, <3>1, GreatestOfBounded
    <2>2. o \in 1 .. N /\ \A p \in o + 1 .. N : Scan(f)[p] \in Results(Cells(f))
      BY <1>1, <2>1
    <2>3. Scan(f)[o] = ReadFrom(f, o, Scan(f))
      BY <2>2, ScanIs DEF N
    <2>4. NothingLeft \in Results(Cells(f)) /\ TooShort \in Results(Cells(f))
      <3>1. <<>> \in Seq(Cells(f))
        OBVIOUS
      <3> QED BY <3>1 DEF NothingLeft, TooShort, Results
    <2>5. CASE Len(f) + 1 - o <= 0
      BY <2>1, <2>3, <2>4, <2>5 DEF ReadFrom
    <2>6. CASE ~(Len(f) + 1 - o <= 0)
      <3>1. o + 1 \in 1 .. Len(f) + 1 /\ o + RecordCells \in o + 1 .. N /\ o \in 1 .. Len(f)
        BY <1>1, <2>2, <2>6 DEF RecordCells
      <3>2. FindMagic(f, o + 1) \in o + 1 .. Len(f) + 1
        BY <3>1, FindMagicFacts
      <3>3. FindMagic(f, o + 1) \in o + 1 .. N
        BY <1>1, <3>2
      <3>4. PICK a \in Results(Cells(f)) : a = Scan(f)[FindMagic(f, o + 1)]
        BY <2>2, <3>3
      <3>5. PICK b \in Results(Cells(f)) : b = Scan(f)[o + RecordCells]
        BY <2>2, <3>1
      <3>6. Corrupt(a) \in Results(Cells(f)) /\ Corrupt(b) \in Results(Cells(f))
        BY DEF Corrupt, Results
      <3>7. f[o].of \in Cells(f)
        BY <3>1 DEF Cells
      <3>8. After(f[o].of, b) \in Results(Cells(f))
        <4>1. <<f[o].of>> \o b.events \in Seq(Cells(f))
          BY <3>7 DEF Results
        <4> QED BY <4>1 DEF After, Results
      <3>9. Scan(f)[o] \in {TooShort, Corrupt(a), Corrupt(b), After(f[o].of, b)}
        BY <2>3, <2>6, <3>4, <3>5 DEF ReadFrom
      <3> QED BY <2>1, <2>4, <3>6, <3>8, <3>9
    <2> QED BY <2>5, <2>6
  <1> QED BY <1>2

\* ... and which goes on as the record at a place says.
Begins(f, o) == f[o].part = 1 /\ HeaderIsWhole(f, o)
LEMMA ScanCases ==
    ASSUME NEW f, IsSeq(f), NEW o \in 1 .. Len(f) + 4
    PROVE  /\ o > Len(f) => Scan(f)[o] = NothingLeft
           /\ o \in {Len(f) - 1, Len(f)} => Scan(f)[o] = TooShort
           /\ o <= Len(f) - 2 /\ ~Begins(f, o) => Scan(f)[o] = Corrupt(Scan(f)[FindMagic(f, o + 1)])
           /\ o = Len(f) - 2 /\ Begins(f, o) => Scan(f)[o] = TooShort
           /\ o <= Len(f) - 3 /\ Begins(f, o) /\ ~ChecksumMatches(f, o) => Scan(f)[o] = Corrupt(Scan(f)[o + 4])
           /\ o <= Len(f) - 3 /\ Begins(f, o) /\ ChecksumMatches(f, o) => Scan(f)[o] = After(f[o].of, Scan(f)[o + 4])
  <1>1. Len(f) \in Nat /\ RecordCells = 4 /\ MinimumCells = 3 /\ o \in Nat
    BY DEF IsSeq, RecordCells, MinimumCells
  <1>2. Scan(f)[o] = ReadFrom(f, o, Scan(f))
    BY <1>1, ScanIs
  <1>3. o > Len(f) <=> Len(f) + 1 - o <= 0
    BY <1>1
  <1>4. o >= Len(f) - 1 <=> Len(f) + 1 - o < 3
    BY <1>1
  <1>5. o >= Len(f) - 2 <=> Len(f) + 1 - o < 4
    BY <1>1
  <1>6. ReadFrom(f, o, Scan(f)) =
           IF o > Len(f) THEN NothingLeft
           ELSE IF o >= Len(f) - 1 THEN TooShort
           ELSE IF ~Begins(f, o) THEN Corrupt(Scan(f)[FindMagic(f, o + 1)])
           ELSE IF o >= Len(f) - 2 THEN TooShort
           ELSE IF ~ChecksumMatches(f, o) THEN Corrupt(Scan(f)[o + 4])
           ELSE After(f[o].of, Scan(f)[o + 4])
    BY <1>1, <1>3, <1>4, <1>5 DEF ReadFrom, Begins
  <1> HIDE DEF NothingLeft, TooShort, Corrupt, After, Begins
  <1>7. PICK l \in Nat : l = Len(f)
    BY <1>1
  <1> QED BY <1>1, <1>2, <1>6, <1>7

EventsAt(f, n, o) ==
    /\ o > n - 2 => Scan(f)[o].events = <<>>
    /\ o = n - 2 /\ Begins(f, o) => Scan(f)[o].events = <<>>
    /\ o <= n - 2 /\ ~Begins(f, o) => Scan(f)[o].events = Scan(f)[FindMagic(f, o + 1)].events
    /\ o <= n - 3 /\ Begins(f, o) /\ ~ChecksumMatches(f, o) =>
         Scan(f)[o].events = Scan(f)[o + 4].events
    /\ o <= n - 3 /\ Begins(f, o) /\ ChecksumMatches(f, o) =>
         Scan(f)[o].events = <<f[o].of>> \o Scan(f)[o + 4].events

\* The same for what is read only, by the number of cells.
LEMMA ScanEvents ==
    ASSUME NEW f, IsSeq(f), NEW n, n = Len(f), NEW o \in 1 .. n + 4
    PROVE  EventsAt(f, n, o)
  <1>1. n \in Nat /\ RecordCells = 4 /\ o \in Nat
    BY DEF IsSeq, RecordCells
  <1>2. \A r \in Results(Cells(f)) : Corrupt(r).events = r.events
    BY DEF Results, Corrupt
  <1>3. \A r \in Results(Cells(f)) : \A e : After(e, r).events = <<e>> \o r.events
    BY DEF Results, After
  <1>4. NothingLeft.events = <<>> /\ TooShort.events = <<>>
    BY DEF NothingLeft, TooShort
  <1>7. \A p \in 1 .. n + 4 : Scan(f)[p] \in Results(Cells(f))
    BY <1>1, ScanShape
  <1>8. ASSUME o > n - 2 PROVE Scan(f)[o].events = <<>>
    <2>1. o > n \/ o \in {n - 1, n}
      BY <1>1, <1>8
    <2>2. Scan(f)[o] \in {NothingLeft, TooShort}
      BY <2>1, ScanCases
    <2> QED BY <1>4, <2>2
  <1>9. ASSUME o = n - 2, Begins(f, o) PROVE Scan(f)[o].events = <<>>
    <2>1. Scan(f)[o] = TooShort
      BY <1>9, ScanCases
    <2> QED BY <1>4, <2>1
  <1>10. ASSUME o <= n - 2, ~Begins(f, o)
         PROVE  Scan(f)[o].events = Scan(f)[FindMagic(f, o + 1)].events
    <2>1. o + 1 \in 1 .. n + 1
      BY <1>1, <1>10
    <2>2. FindMagic(f, o + 1) \in o + 1 .. n + 1
      BY <2>1, FindMagicFacts
    <2>3. FindMagic(f, o + 1) \in 1 .. n + 4
      BY <1>1, <2>2
    <2>4. Scan(f)[o] = Corrupt(Scan(f)[FindMagic(f, o + 1)])
      BY <1>10, ScanCases
    <2> QED BY <1>2, <1>7, <2>3, <2>4
  <1>11. ASSUME o <= n - 3, Begins(f, o), ~ChecksumMatches(f, o)
         PROVE  Scan(f)[o].events = Scan(f)[o + 4].events
    <2>1. o + 4 \in 1 .. n + 4
      BY <1>1, <1>11
    <2>2. Scan(f)[o] = Corrupt(Scan(f)[o + 4])
      BY <1>11, ScanCases
    <2> QED BY <1>2, <1>7, <2>1, <2>2
  <1>12. ASSUME o <= n - 3, Begins(f, o), ChecksumMatches(f, o)
         PROVE  Scan(f)[o].events = <<f[o].of>> \o Scan(f)[o + 4].events
    <2>1. o + 4 \in 1 .. n + 4
      BY <1>1, <1>12
    <2>2. Scan(f)[o] = After(f[o].of, Scan(f)[o + 4])
      BY <1>12, ScanCases
    <2> QED BY <1>3, <1>7, <2>1, <2>2
  <1> QED BY <1>8, <1>9, <1>10, <1>11, <1>12 DEF EventsAt

-----------------------------------------------------------------------------
(* What is read of a file that grows.                                       *)

\* s is some of es, in order, all of them written from cell k on.
From(s, es, k) ==
    \E h \in [1 .. Len(s) -> 1 .. Len(es)] :
        /\ \A i, j \in 1 .. Len(s) : i < j => h[i] < h[j]
        /\ \A i \in 1 .. Len(s) : s[i] = es[h[i]] /\ 4 * h[i] - 3 >= k

LEMMA FromNothing ==
    ASSUME NEW es, NEW k
    PROVE  From(<<>>, es, k)
  <1> DEFINE h == [i \in {} |-> i]
  <1>1. h \in [1 .. Len(<<>>) -> 1 .. Len(es)]
    OBVIOUS
  <1>2. \A i \in 1 .. Len(<<>>) : FALSE
    OBVIOUS
  <1> QED BY <1>1, <1>2 DEF From

LEMMA FromEarlier ==
    ASSUME NEW es, IsSeq(es), NEW s, IsSeq(s), NEW k \in Int, NEW l \in Int, l <= k, From(s, es, k)
    PROVE  From(s, es, l)
  <1>1. PICK h \in [1 .. Len(s) -> 1 .. Len(es)] :
          /\ \A i, j \in 1 .. Len(s) : i < j => h[i] < h[j]
          /\ \A i \in 1 .. Len(s) : s[i] = es[h[i]] /\ 4 * h[i] - 3 >= k
    BY DEF From
  <1>2. \A i \in 1 .. Len(s) : 4 * h[i] - 3 >= l
    <2> SUFFICES ASSUME NEW i \in 1 .. Len(s) PROVE 4 * h[i] - 3 >= l
      OBVIOUS
    <2>1. h[i] \in Int /\ 4 * h[i] - 3 >= k
      BY <1>1 DEF IsSeq
    <2> QED BY <2>1
  <1> QED BY <1>1, <1>2 DEF From

\* One record more in front.
LEMMA FromNext ==
    ASSUME NEW es, IsSeq(es), NEW s, IsSeq(s), NEW n \in 1 .. Len(es), From(s, es, 4 * n + 1)
    PROVE  From(<<es[n]>> \o s, es, 4 * n - 3)
  <1>1. PICK h \in [1 .. Len(s) -> 1 .. Len(es)] :
          /\ \A i, j \in 1 .. Len(s) : i < j => h[i] < h[j]
          /\ \A i \in 1 .. Len(s) : s[i] = es[h[i]] /\ 4 * h[i] - 3 >= 4 * n + 1
    BY DEF From
  <1> DEFINE t == <<es[n]>> \o s
             g == [i \in 1 .. Len(t) |-> IF i = 1 THEN n ELSE h[i - 1]]
  <1>2. /\ Len(s) \in Nat /\ Len(es) \in Nat /\ Len(t) = Len(s) + 1
        /\ t[1] = es[n] /\ \A i \in 1 .. Len(s) : t[i + 1] = s[i]
    BY DEF IsSeq
  <1>3. \A i \in 1 .. Len(t) : i # 1 => i - 1 \in 1 .. Len(s) /\ t[i] = s[i - 1]
    <2> SUFFICES ASSUME NEW i \in 1 .. Len(t), i # 1 PROVE i - 1 \in 1 .. Len(s) /\ t[i] = s[i - 1]
      OBVIOUS
    <2>1. i - 1 \in 1 .. Len(s) /\ (i - 1) + 1 = i
      BY <1>2
    <2> QED BY <1>2, <2>1
  <1>4. \A i \in 1 .. Len(s) : h[i] \in 1 .. Len(es) /\ h[i] > n
    <2> SUFFICES ASSUME NEW i \in 1 .. Len(s) PROVE h[i] \in 1 .. Len(es) /\ h[i] > n
      OBVIOUS
    <2>1. h[i] \in 1 .. Len(es) /\ 4 * h[i] - 3 >= 4 * n + 1
      BY <1>1
    <2> QED BY <1>2, <2>1
  <1> HIDE DEF t
  <1>5. g \in [1 .. Len(t) -> 1 .. Len(es)]
    BY <1>3, <1>4
  <1>6. ASSUME NEW i \in 1 .. Len(t), NEW j \in 1 .. Len(t), i < j PROVE g[i] < g[j]
    <2>1. j # 1 /\ g[j] = h[j - 1] /\ j - 1 \in 1 .. Len(s)
      BY <1>2, <1>3, <1>6
    <2>2. CASE i = 1
      BY <1>4, <2>1, <2>2
    <2>3. CASE i # 1
      <3>1. i - 1 \in 1 .. Len(s) /\ i - 1 < j - 1 /\ g[i] = h[i - 1]
        BY <1>2, <1>3, <1>6, <2>3
      <3> QED BY <1>1, <2>1, <3>1
    <2> QED BY <2>2, <2>3
  <1>7. ASSUME NEW i \in 1 .. Len(t) PROVE t[i] = es[g[i]] /\ 4 * g[i] - 3 >= 4 * n - 3
    <2>1. CASE i = 1
      BY <1>2, <2>1
    <2>2. CASE i # 1
      <3>1. i - 1 \in 1 .. Len(s) /\ g[i] = h[i - 1] /\ t[i] = s[i - 1]
        BY <1>2, <1>3, <2>2
      <3>2. t[i] = es[g[i]] /\ g[i] \in Int /\ g[i] > n
        BY <1>1, <1>2, <1>4, <3>1
      <3> QED BY <3>2
    <2> QED BY <2>1, <2>2
  <1> QED BY <1>5, <1>6, <1>7 DEF From, t

\* All the cells of some records, ...
LEMMA SerializedIs ==
    ASSUME NEW es, IsSeq(es)
    PROVE  IsSeq(SerializeAll(es)) /\ Len(SerializeAll(es)) = 4 * Len(es)
  <1> DEFINE all == SerializeAll(es)
             S == {all[n] : n \in 1 .. 4 * Len(es)}
  <1>1. Len(es) \in Nat /\ 4 * Len(es) \in Nat /\ RecordCells = 4
    BY DEF IsSeq, RecordCells
  <1>2. all = [n \in 1 .. 4 * Len(es) |-> Cell(es[((n - 1) \div 4) + 1], ((n - 1) % 4) + 1)]
    BY <1>1 DEF SerializeAll
  <1>3. PICK l \in Nat : l = 4 * Len(es)
    BY <1>1
  <1>4. DOMAIN all = 1 .. l /\ all = [n \in DOMAIN all |-> all[n]]
    BY <1>2, <1>3
  <1>5. S = {all[n] : n \in 1 .. l}
    BY <1>3
  <1> HIDE DEF all, S
  <1>6. all \in [1 .. l -> S]
    BY <1>4, <1>5
  <1>7. all \in Seq(S)
    BY <1>6, SeqDef
  <1>8. Len(all) = l
    BY <1>4, <1>7, LenProperties
  <1> QED BY <1>3, <1>7, <1>8 DEF IsSeq, all

\* The cells of records as they are written.
LEMMA WrittenIs ==
    ASSUME NEW es, IsSeq(es), NEW c \in 0 .. 4 * Len(es)
    PROVE  /\ IsSeq(Written(es, c)) /\ Len(Written(es, c)) = c
           /\ \A i \in 1 .. c : \E n \in 1 .. Len(es) :
                 /\ Written(es, c)[i].of = es[n] /\ Written(es, c)[i].part = i + 4 - 4 * n
                 /\ i + 4 - 4 * n \in 1 .. 4
  <1> DEFINE all == SerializeAll(es)
  <1>1. Len(es) \in Nat /\ 4 * Len(es) \in Nat /\ RecordCells = 4
    BY DEF IsSeq, RecordCells
  <1>2. all = [n \in 1 .. 4 * Len(es) |-> Cell(es[((n - 1) \div 4) + 1], ((n - 1) % 4) + 1)]
    BY <1>1 DEF SerializeAll
  <1>3. PICK S : all \in Seq(S) /\ Len(all) = 4 * Len(es)
    BY SerializedIs DEF IsSeq
  <1> HIDE DEF all
  <1>4. /\ Written(es, c) \in Seq(S) /\ Len(Written(es, c)) = c
        /\ \A i \in 1 .. c : Written(es, c)[i] = all[i]
    BY <1>1, <1>3 DEF Written, all
  <1>5. ASSUME NEW i \in 1 .. c
        PROVE  \E n \in 1 .. Len(es) :
                 /\ Written(es, c)[i].of = es[n] /\ Written(es, c)[i].part = i + 4 - 4 * n
                 /\ i + 4 - 4 * n \in 1 .. 4
    <2> DEFINE n == ((i - 1) \div 4) + 1
    <2>1. i \in Nat /\ i >= 1 /\ i <= 4 * Len(es)
      BY <1>1
    <2>2. n \in 1 .. Len(es) /\ ((i - 1) % 4) + 1 = i + 4 - 4 * n /\ i + 4 - 4 * n \in 1 .. 4
      BY <1>1, <2>1
    <2>3. Written(es, c)[i] = Cell(es[n], i + 4 - 4 * n)
      <3>1. i \in 1 .. 4 * Len(es)
        BY <2>1, <1>1
      <3>2. all[i] = Cell(es[n], ((i - 1) % 4) + 1)
        BY <1>2, <3>1
      <3> HIDE DEF n
      <3> QED BY <1>4, <2>2, <3>2
    <2> HIDE DEF n
    <2> QED BY <2>2, <2>3 DEF Cell
  <1> QED BY <1>4, <1>5 DEF IsSeq

\* Two files that agree on the cells of a place agree on what begins there.
LEMMA SameThere ==
    ASSUME NEW f, IsSeq(f), NEW g, IsSeq(g), NEW o \in Nat, o >= 1
    PROVE  /\ (o + 1 <= Len(f) /\ o + 1 <= Len(g) /\ \A i \in o .. o + 1 : f[i] = g[i])
                => Begins(f, o) = Begins(g, o)
           /\ (o + 3 <= Len(f) /\ o + 3 <= Len(g) /\ \A i \in o .. o + 3 : f[i] = g[i])
                => Begins(f, o) = Begins(g, o) /\ ChecksumMatches(f, o) = ChecksumMatches(g, o)
  <1>1. Len(f) \in Nat /\ Len(g) \in Nat /\ RecordCells = 4 /\ HeaderCells = 2
    BY DEF IsSeq, RecordCells, HeaderCells
  <1>2. ASSUME NEW n \in {1, 3}, o + n <= Len(f), o + n <= Len(g), \A i \in o .. o + n : f[i] = g[i]
        PROVE  SubSeq(f, o, o + n) = SubSeq(g, o, o + n) /\ f[o] = g[o]
    BY <1>1, <1>2 DEF IsSeq
  <1>3. \A x : /\ HeaderIsWhole(x, o) = (SubSeq(x, o, o + 1) = SubSeq(Serialize(x[o].of), 1, 2))
               /\ ChecksumMatches(x, o) = (SubSeq(x, o, o + 3) = Serialize(x[o].of))
    BY <1>1 DEF HeaderIsWhole, ChecksumMatches
  <1>4. ASSUME o + 1 <= Len(f), o + 1 <= Len(g), \A i \in o .. o + 1 : f[i] = g[i]
        PROVE  Begins(f, o) = Begins(g, o)
    <2>1. SubSeq(f, o, o + 1) = SubSeq(g, o, o + 1) /\ f[o] = g[o]
      BY <1>2, <1>4
    <2>2. HeaderIsWhole(f, o) = HeaderIsWhole(g, o)
      BY <1>3, <2>1
    <2> QED BY <2>1, <2>2 DEF Begins
  <1>5. ASSUME o + 3 <= Len(f), o + 3 <= Len(g), \A i \in o .. o + 3 : f[i] = g[i]
        PROVE  Begins(f, o) = Begins(g, o) /\ ChecksumMatches(f, o) = ChecksumMatches(g, o)
    <2>1. SubSeq(f, o, o + 3) = SubSeq(g, o, o + 3) /\ f[o] = g[o]
      BY <1>2, <1>5
    <2>2. o + 1 <= Len(f) /\ o + 1 <= Len(g) /\ \A i \in o .. o + 1 : f[i] = g[i]
      BY <1>1, <1>5
    <2>3. Begins(f, o) = Begins(g, o)
      BY <1>4, <2>2
    <2>4. ChecksumMatches(f, o) = ChecksumMatches(g, o)
      BY <1>3, <2>1
    <2> QED BY <2>3, <2>4
  <1> QED BY <1>4, <1>5

\* The cells of a whole record are numbered.
LEMMA WholeRecord ==
    ASSUME NEW f, IsSeq(f), NEW o \in Nat, o >= 1, o + 3 <= Len(f), ChecksumMatches(f, o)
    PROVE  \A i \in o .. o + 3 : f[i] = Cell(f[o].of, i - o + 1)
  <1>1. Len(f) \in Nat /\ RecordCells = 4
    BY DEF IsSeq, RecordCells
  <1>2. SubSeq(f, o, o + 3) = [i \in 1 .. 4 |-> Cell(f[o].of, i)]
    BY <1>1 DEF ChecksumMatches, Serialize
  <1> SUFFICES ASSUME NEW i \in o .. o + 3 PROVE f[i] = Cell(f[o].of, i - o + 1)
    OBVIOUS
  <1>3. i - o + 1 \in 1 .. 4 /\ o + (i - o + 1) - 1 = i
    BY <1>1
  <1>4. \A n \in 1 .. 4 : SubSeq(f, o, o + 3)[n] = f[o + n - 1]
    BY <1>1 DEF IsSeq
  <1>5. SubSeq(f, o, o + 3)[i - o + 1] = f[i]
    BY <1>3, <1>4
  <1> QED BY <1>2, <1>3, <1>5

\* Sequences one after the other.
LEMMA ConcatAt ==
    ASSUME NEW S, NEW s \in Seq(S), NEW t \in Seq(S)
    PROVE  /\ \A i \in 1 .. Len(s) : (s \o t)[i] = s[i]
           /\ \A i \in 1 .. Len(t) : (s \o t)[Len(s) + i] = t[i]
  OBVIOUS

\* The places of the first cell of record n and of the record after it.
LEMMA FirstCell ==
    ASSUME NEW o \in Int, NEW l \in Int, NEW n \in Int, NEW q \in Int,
           q = o + 4, o - l + 4 - 4 * n = 1
    PROVE  q - l = 4 * n + 1 /\ o - l = 4 * n - 3
  OBVIOUS
LEMMA ConcatThree ==
    ASSUME NEW S, NEW a \in Seq(S), NEW b \in Seq(S), NEW c \in Seq(S)
    PROVE  a \o (b \o c) = (a \o b) \o c
  BY ConcatAssociative, SMTT(30)

\* After an append, in whole or in part, the same is read as before and then some of
\* what was appended, whatever the file ended with.
Before(f, o) == IF o <= Len(f) THEN Scan(f)[o].events ELSE <<>>
Reads(f, es, both, o) ==
    \E S : \E s \in Seq(S) : From(s, es, o - Len(f)) /\ Scan(both)[o].events = Before(f, o) \o s

LEMMA AppendedFrom ==
    ASSUME NEW f, IsSeq(f), NEW es, IsSeq(es), NEW c \in 1 .. 4 * Len(es),
           NEW both, both = f \o Written(es, c)
    PROVE  \A o \in 1 .. Len(f) + c + 4 : Reads(f, es, both, o)
  <1> DEFINE g == Written(es, c)
             Bad == {o \in 1 .. Len(f) + c + 4 : ~Reads(f, es, both, o)}
  <1>1. Len(es) \in Nat /\ Len(f) \in Nat /\ c \in Nat /\ c >= 1 /\ RecordCells = 4
    BY DEF IsSeq, RecordCells
  <1>2. /\ IsSeq(g) /\ Len(g) = c
        /\ \A i \in 1 .. c : \E n \in 1 .. Len(es) :
              /\ g[i].of = es[n] /\ g[i].part = i + 4 - 4 * n /\ i + 4 - 4 * n \in 1 .. 4
    <2>1. c \in 0 .. 4 * Len(es)
      BY <1>1
    <2> QED BY <2>1, WrittenIs
  <1> HIDE DEF g
  <1>3. PICK l \in Nat : l = Len(f)
    BY <1>1
  <1>4. /\ IsSeq(both) /\ Len(both) = l + c
        /\ \A i \in 1 .. l : both[i] = f[i]
        /\ \A i \in 1 .. c : both[l + i] = g[i]
    <2>1. PICK S, T : f \in Seq(S) /\ g \in Seq(T)
      BY <1>2 DEF IsSeq
    <2>2. f \in Seq(S \cup T) /\ g \in Seq(S \cup T)
      BY <2>1
    <2>3. both = f \o g
      BY DEF g
    <2>4. both \in Seq(S \cup T) /\ Len(both) = l + c
      BY <1>2, <1>3, <2>2, <2>3, ConcatProperties
    <2>6. /\ \A i \in 1 .. Len(f) : both[i] = f[i]
          /\ \A i \in 1 .. Len(g) : both[Len(f) + i] = g[i]
      BY <2>2, <2>3, ConcatAt
    <2>7. /\ \A i \in 1 .. l : both[i] = f[i]
          /\ \A i \in 1 .. c : both[l + i] = g[i]
      BY <1>2, <1>3, <2>6
    <2> QED BY <2>4, <2>7 DEF IsSeq
  <1>5. both[l + 1].part = 1
    <2>0. PICK i \in 1 .. c : i = 1
      BY <1>1
    <2>5. PICK n \in 1 .. Len(es) : g[i].part = i + 4 - 4 * n /\ i + 4 - 4 * n \in 1 .. 4
      BY <1>2
    <2>1. g[1].part = 1 + 4 - 4 * n /\ 1 + 4 - 4 * n \in 1 .. 4
      BY <2>0, <2>5
    <2>2. n \in Nat /\ n >= 1
      BY <1>1
    <2>3. 1 + 4 - 4 * n = 1
      BY <2>1, <2>2
    <2>4. 1 \in 1 .. c
      BY <1>1
    <2> QED BY <1>4, <2>1, <2>3, <2>4
  <1> USE <1>1, <1>3
  \* Where both go on at the next magic.
  <1>6. ASSUME NEW o \in 1 .. l
        PROVE  /\ FindMagic(both, o + 1) \in o + 1 .. l + 1
               /\ FindMagic(f, o + 1) = FindMagic(both, o + 1)
    <2> DEFINE m == FindMagic(f, o + 1)
               k == FindMagic(both, o + 1)
    <2>1. o + 1 \in 1 .. Len(f) + 1 /\ o + 1 \in 1 .. Len(both) + 1
      BY <1>4
    <2>2. /\ m \in o + 1 .. l + 1 /\ (m <= l => f[m].part = 1)
          /\ \A i \in o + 1 .. l : i < m => f[i].part # 1
      BY <2>1, FindMagicFacts
    <2>3. /\ k \in o + 1 .. l + c + 1 /\ (k <= l + c => both[k].part = 1)
          /\ \A i \in o + 1 .. l + c : i < k => both[i].part # 1
      BY <1>4, <2>1, FindMagicFacts
    <2> HIDE DEF m, k
    <2>4. ~(l + 1 < k)
      <3>1. l + 1 \in o + 1 .. l + c
        OBVIOUS
      <3> QED BY <1>5, <2>3, <3>1
    <2>5. ~(k < m)
      <3> SUFFICES ASSUME k < m PROVE FALSE
        OBVIOUS
      <3>1. k \in o + 1 .. l /\ k \in 1 .. l
        BY <2>2, <2>3
      <3> QED BY <1>4, <2>2, <2>3, <3>1
    <2>6. ~(m < k)
      <3> SUFFICES ASSUME m < k PROVE FALSE
        OBVIOUS
      <3>1. m \in o + 1 .. l /\ m \in 1 .. l /\ m \in o + 1 .. l + c
        BY <2>2, <2>3, <2>4
      <3> QED BY <1>4, <2>2, <2>3, <3>1
    <2>7. m = k
      BY <2>2, <2>3, <2>5, <2>6
    <2> QED BY <2>2, <2>7 DEF m, k
  \* No record lies in both f and what was appended.
  <1>7. ASSUME NEW o \in 1 .. l, o + 3 > l, o + 3 <= l + c
        PROVE  ~ChecksumMatches(both, o)
    <2> SUFFICES ASSUME ChecksumMatches(both, o) PROVE FALSE
      OBVIOUS
    <2>1. \A i \in o .. o + 3 : both[i] = Cell(both[o].of, i - o + 1)
      <3>1. o \in Nat /\ o >= 1 /\ o + 3 <= Len(both)
        BY <1>4, <1>7
      <3> QED BY <1>4, <3>1, WholeRecord
    <2>2. l + 1 \in o .. o + 3 /\ l + 1 - o + 1 # 1
      BY <1>7
    <2>3. both[l + 1].part = l + 1 - o + 1
      <3> DEFINE k == l + 1
      <3>3. k \in o .. o + 3
        BY <2>2
      <3>4. both[k] = Cell(both[o].of, k - o + 1)
        BY <2>1, <3>3
      <3>1. both[l + 1] = Cell(both[o].of, l + 1 - o + 1)
        BY <3>4
      <3>2. \A e, p : Cell(e, p).part = p
        BY DEF Cell
      <3> QED BY <3>1, <3>2
    <2> QED BY <1>5, <2>2, <2>3
  <1>0. PICK L \in Nat : L = l + c
    OBVIOUS
  <1> USE <1>0
  <1>8. ASSUME NEW o \in 1 .. L + 4, Before(f, o) = <<>>, Scan(both)[o].events = <<>>
        PROVE  Reads(f, es, both, o)
    <2>1. From(<<>>, es, o - Len(f)) /\ <<>> \in Seq({}) /\ <<>> \o <<>> = <<>>
      BY FromNothing
    <2> QED BY <1>8, <2>1 DEF Reads
  <1>9. ASSUME NEW o \in 1 .. L + 4, NEW p \in o + 1 .. L + 4, Reads(f, es, both, p),
               Before(f, o) = Before(f, p), Scan(both)[o].events = Scan(both)[p].events
        PROVE  Reads(f, es, both, o)
    <2>1. PICK S : \E s \in Seq(S) : From(s, es, p - Len(f)) /\ Scan(both)[p].events = Before(f, p) \o s
      BY <1>9 DEF Reads
    <2>2. PICK s \in Seq(S) : From(s, es, p - Len(f)) /\ Scan(both)[p].events = Before(f, p) \o s
      BY <2>1
    <2>3. IsSeq(s) /\ p - Len(f) \in Int /\ o - Len(f) \in Int /\ o - Len(f) <= p - Len(f)
      BY DEF IsSeq
    <2>4. From(s, es, o - Len(f))
      BY <2>2, <2>3, FromEarlier
    <2> QED BY <1>9, <2>2, <2>4 DEF Reads
  <1>10. \A o \in 1 .. l + 4 : EventsAt(f, l, o)
    BY ScanEvents
  <1>11. \A o \in 1 .. L + 4 : EventsAt(both, L, o)
    BY <1>4, ScanEvents
  \* What is read of f alone ends with f.
  <1>12. \A o \in Int : /\ o <= l => Before(f, o) = Scan(f)[o].events
                        /\ o > l => Before(f, o) = <<>>
    BY DEF Before
  <1>13. \A o \in 1 .. l + 4 : Before(f, o) = Scan(f)[o].events
    <2> SUFFICES ASSUME NEW o \in 1 .. l + 4, o > l PROVE <<>> = Scan(f)[o].events
      BY <1>12
    <2>1. o > l - 2
      OBVIOUS
    <2> QED BY <1>10, <2>1 DEF EventsAt
  <1>14. ASSUME NEW o \in 1 .. L + 4, o > l, \A p \in o + 1 .. L + 4 : Reads(f, es, both, p)
        PROVE  Reads(f, es, both, o)
    <2>0. EventsAt(both, L, o) /\ l < L
      BY <1>0, <1>11
    <2>1. Before(f, o) = <<>> /\ \A p \in o + 1 .. L + 4 : Before(f, p) = <<>>
      <3>1. o > l /\ \A p \in o + 1 .. L + 4 : p \in Int /\ p > l
        BY <1>14
      <3> QED BY <1>12, <3>1
    <2>2. CASE o > L - 2 \/ (o = L - 2 /\ Begins(both, o))
      BY <1>8, <2>0, <2>1, <2>2 DEF EventsAt
    <2>3. CASE o <= L - 2 /\ ~Begins(both, o)
      <3>0. Len(both) = L
        BY <1>4
      <3>4. o + 1 \in 1 .. L + 1
        BY <2>3
      <3>1. o + 1 \in 1 .. Len(both) + 1
        BY <3>0, <3>4
      <3>2. FindMagic(both, o + 1) \in o + 1 .. L + 1
        BY <1>4, <3>1, FindMagicFacts
      <3>3. FindMagic(both, o + 1) \in o + 1 .. L + 4
        BY <3>2
      <3> QED BY <1>9, <2>0, <1>14, <2>1, <2>3, <3>3 DEF EventsAt
    <2>4. CASE o <= L - 3 /\ Begins(both, o) /\ ~ChecksumMatches(both, o)
      <3>1. o + 4 \in o + 1 .. L + 4
        BY <2>4
      <3> QED BY <1>9, <2>0, <1>14, <2>1, <2>4, <3>1 DEF EventsAt
    <2>5. CASE o <= L - 3 /\ Begins(both, o) /\ ChecksumMatches(both, o)
      <3>1. o + 4 \in o + 1 .. L + 4 /\ o - l \in 1 .. c
        BY <1>14, <2>5
      <3>2. both[o] = g[o - l]
        <4>1. PICK i \in 1 .. c : i = o - l
          BY <3>1
        <4>2. both[l + i] = g[i]
          BY <1>4
        <4>3. l + i = o
          BY <4>1
        <4> QED BY <4>1, <4>2, <4>3
      <3>3. PICK n \in 1 .. Len(es) : g[o - l].of = es[n] /\ g[o - l].part = o - l + 4 - 4 * n
        BY <1>2, <3>1
      <3>4. o - l + 4 - 4 * n = 1 /\ n \in Int
        BY <2>5, <3>2, <3>3, SMTT(30) DEF Begins
      <3>5. PICK q \in o + 1 .. L + 4 : q = o + 4
        BY <3>1
      <3>11. PICK S : \E s \in Seq(S) : From(s, es, q - Len(f)) /\ Scan(both)[q].events = <<>> \o s
        BY <1>14, <2>1 DEF Reads
      <3>6. PICK s \in Seq(S) : From(s, es, q - Len(f)) /\ Scan(both)[q].events = <<>> \o s
        BY <3>11
      <3>7. q - Len(f) = 4 * n + 1 /\ o - Len(f) = 4 * n - 3
        <4>1. o \in Int /\ l \in Int /\ n \in Int
          BY <3>4
        <4>2. q \in Int /\ q = o + 4 /\ o - l + 4 - 4 * n = 1
          BY <3>4, <3>5
        <4> HIDE <1>0, <1>1, <1>3
        <4>3. q - l = 4 * n + 1 /\ o - l = 4 * n - 3
          BY <4>1, <4>2, FirstCell, SMTT(30)
        <4> QED BY <1>3, <4>3
      <3>8. From(<<es[n]>> \o s, es, o - Len(f))
        <4>1. IsSeq(s) /\ From(s, es, 4 * n + 1)
          BY <3>6, <3>7 DEF IsSeq
        <4>2. From(<<es[n]>> \o s, es, 4 * n - 3)
          BY <4>1, FromNext
        <4> QED BY <3>7, <4>2
      <3>9. Scan(both)[o].events = <<es[n]>> \o s
        <4>1. Scan(both)[o].events = <<both[o].of>> \o Scan(both)[o + 4].events
          BY <2>0, <2>5 DEF EventsAt
        <4>2. Scan(both)[o + 4].events = s
          BY <3>5, <3>6
        <4> QED BY <3>2, <3>3, <4>1, <4>2
      <3>10. <<es[n]>> \o s \in Seq(S \cup {es[n]}) /\ <<>> \o (<<es[n]>> \o s) = <<es[n]>> \o s
        OBVIOUS
      <3> QED BY <2>1, <3>8, <3>9, <3>10 DEF Reads
    <2> QED BY <2>2, <2>3, <2>4, <2>5
  <1>15. ASSUME NEW o \in 1 .. l, \A p \in o + 1 .. L + 4 : Reads(f, es, both, p)
        PROVE  Reads(f, es, both, o)
    <2>1. Before(f, o) = Scan(f)[o].events /\ o \in 1 .. L + 4 /\ o \in 1 .. l + 4
      BY <1>13
    <2>0. EventsAt(both, L, o) /\ EventsAt(f, l, o) /\ l < L
      BY <1>10, <1>11, <2>1
    <2>2. o > l - 2 => Before(f, o) = <<>>
      BY <2>0, <2>1 DEF EventsAt
    <2>3. o <= l - 1 => Begins(both, o) = Begins(f, o)
      <3> SUFFICES ASSUME o <= l - 1 PROVE Begins(both, o) = Begins(f, o)
        OBVIOUS
      <3>1. o + 1 <= Len(f) /\ o + 1 <= Len(both) /\ o \in Nat /\ o >= 1 /\ \A i \in o .. o + 1 : f[i] = both[i]
        BY <1>4
      <3> QED BY <1>4, <3>1, SameThere
    <2>4. o <= l - 3 => ChecksumMatches(both, o) = ChecksumMatches(f, o)
      <3> SUFFICES ASSUME o <= l - 3 PROVE ChecksumMatches(both, o) = ChecksumMatches(f, o)
        OBVIOUS
      <3>1. o + 3 <= Len(f) /\ o + 3 <= Len(both) /\ o \in Nat /\ o >= 1 /\ \A i \in o .. o + 3 : f[i] = both[i]
        BY <1>4
      <3> QED BY <1>4, <3>1, SameThere
    <2>5. CASE o > L - 2
      BY <1>8, <2>0, <2>1, <2>2, <2>5 DEF EventsAt
    <2>6. CASE o = L - 2 /\ Begins(both, o)
      <3>1. o > l - 2
        BY <2>6
      <3> QED BY <1>8, <2>0, <2>1, <2>2, <2>6, <3>1 DEF EventsAt
    <2>7. CASE o <= L - 2 /\ ~Begins(both, o)
      <3> DEFINE m == FindMagic(both, o + 1)
      <3>1. m \in o + 1 .. l + 1 /\ FindMagic(f, o + 1) = m
        BY <1>6
      <3> HIDE DEF m
      <3>2. m \in o + 1 .. L + 4 /\ m \in 1 .. l + 4
        BY <3>1
      <3>3. Before(f, m) = Scan(f)[m].events
        BY <1>13, <3>2
      <3>4. Before(f, o) = Before(f, m)
        <4>1. CASE o <= l - 2
          BY <2>0, <2>1, <2>3, <2>7, <3>1, <3>3, <4>1 DEF EventsAt
        <4>2. CASE o > l - 2
          <5>1. m > l - 2
            BY <3>1, <4>2
          <5>2. Scan(f)[m].events = <<>>
            BY <1>10, <3>2, <5>1 DEF EventsAt
          <5> QED BY <2>2, <3>3, <4>2, <5>2
        <4> QED BY <4>1, <4>2
      <3>5. Scan(both)[o].events = Scan(both)[m].events
        BY <2>0, <2>7 DEF m, EventsAt
      <3> QED BY <1>9, <1>15, <2>1, <3>2, <3>4, <3>5
    <2>8. CASE o <= L - 3 /\ Begins(both, o) /\ ~ChecksumMatches(both, o)
      <3>1. o + 4 \in o + 1 .. L + 4 /\ o + 4 \in 1 .. l + 4
        BY <2>8
      <3>2. Before(f, o + 4) = Scan(f)[o + 4].events
        BY <1>13, <3>1
      <3>3. Before(f, o) = Before(f, o + 4)
        <4>1. CASE o <= l - 3
          <5>1. o <= l - 1
            BY <4>1
          <5>2. Begins(f, o) /\ ~ChecksumMatches(f, o)
            BY <2>3, <2>4, <2>8, <4>1, <5>1
          <5>3. Scan(f)[o].events = Scan(f)[o + 4].events
            BY <2>0, <4>1, <5>2 DEF EventsAt
          <5> QED BY <2>1, <3>2, <5>3
        <4>2. CASE o = l - 2
          <5>1. o + 4 > l - 2
            BY <4>2
          <5>2. Scan(f)[o + 4].events = <<>>
            BY <1>10, <3>1, <5>1 DEF EventsAt
          <5>5. o <= l - 1
            BY <4>2
          <5>3. Begins(f, o)
            BY <2>3, <2>8, <5>5
          <5>4. Scan(f)[o].events = <<>>
            BY <2>0, <4>2, <5>3 DEF EventsAt
          <5> QED BY <2>1, <3>2, <5>2, <5>4
        <4>3. CASE o > l - 2
          <5>1. o + 4 > l - 2
            BY <4>3
          <5>2. Scan(f)[o + 4].events = <<>>
            BY <1>10, <3>1, <5>1 DEF EventsAt
          <5> QED BY <2>2, <3>2, <4>3, <5>2
        <4> QED BY <4>1, <4>2, <4>3
      <3>4. Scan(both)[o].events = Scan(both)[o + 4].events
        BY <2>0, <2>1, <2>8 DEF EventsAt
      <3> QED BY <1>9, <1>15, <2>1, <3>1, <3>3, <3>4
    <2>9. CASE o <= L - 3 /\ Begins(both, o) /\ ChecksumMatches(both, o)
      <3>1. o <= l - 3
        BY <1>7, <2>9
      <3>2. o + 4 \in o + 1 .. L + 4 /\ o + 4 \in 1 .. l + 4
        BY <2>9
      <3>3. both[o] = f[o] /\ Before(f, o + 4) = Scan(f)[o + 4].events
        BY <1>4, <1>13, <3>2
      <3>4. Before(f, o) = <<f[o].of>> \o Before(f, o + 4)
        <4>3. o <= l - 1
          BY <3>1
        <4>1. Begins(f, o) /\ ChecksumMatches(f, o)
          BY <2>3, <2>4, <2>9, <3>1, <4>3
        <4>2. Scan(f)[o].events = <<f[o].of>> \o Scan(f)[o + 4].events
          BY <2>0, <3>1, <4>1 DEF EventsAt
        <4> QED BY <2>1, <3>3, <4>2
      <3>5. PICK q \in o + 1 .. L + 4 : q = o + 4
        BY <3>2
      <3>12. PICK S : \E s \in Seq(S) : From(s, es, q - Len(f)) /\ Scan(both)[q].events = Before(f, q) \o s
        BY <1>15 DEF Reads
      <3>6. PICK s \in Seq(S) : From(s, es, q - Len(f)) /\ Scan(both)[q].events = Before(f, q) \o s
        BY <3>12
      <3>7. From(s, es, o - Len(f))
        <4>1. IsSeq(s) /\ q - Len(f) \in Int /\ o - Len(f) \in Int /\ o - Len(f) <= q - Len(f)
          BY DEF IsSeq
        <4> QED BY <3>6, <4>1, FromEarlier
      <3>8. Before(f, o + 4) \in Seq(Cells(f))
        <4>1. Scan(f)[o + 4] \in Results(Cells(f))
          BY <3>2, ScanShape
        <4> QED BY <3>3, <4>1 DEF Results
      <3>9. <<f[o].of>> \o (Before(f, o + 4) \o s) = (<<f[o].of>> \o Before(f, o + 4)) \o s
        <4> DEFINE T == S \cup Cells(f) \cup {f[o].of}
        <4>1. S \subseteq T /\ Cells(f) \subseteq T /\ f[o].of \in T
          OBVIOUS
        <4> HIDE DEF T
        <4>2. PICK e : e = f[o].of
          OBVIOUS
        <4>3. PICK x : x = Before(f, o + 4)
          OBVIOUS
        <4>4. <<e>> \in Seq(T)
          BY <4>1, <4>2
        <4>5. x \in Seq(T) /\ s \in Seq(T)
          BY <3>8, <4>1, <4>3, SeqMonotonic
        <4>6. <<e>> \o (x \o s) = (<<e>> \o x) \o s
          BY <4>4, <4>5, ConcatThree, SMTT(30)
        <4> QED BY <4>2, <4>3, <4>6
      <3>10. Scan(both)[o].events = <<both[o].of>> \o Scan(both)[o + 4].events
        BY <2>0, <2>1, <2>9 DEF EventsAt
      <3>11. Scan(both)[o].events = Before(f, o) \o s
        BY <3>3, <3>4, <3>5, <3>6, <3>9, <3>10
      <3> QED BY <3>7, <3>11 DEF Reads
    <2> QED BY <2>5, <2>6, <2>7, <2>8, <2>9
  <1>16. Bad = {}
    <2> SUFFICES ASSUME Bad # {} PROVE FALSE
      OBVIOUS
    <2>1. PICK o \in Bad : \A y \in Bad : y <= o
      <3>1. Bad \subseteq 0 .. L + 4 /\ L + 4 \in Nat
        OBVIOUS
      <3> QED BY <3>1, GreatestOfBounded
    <2>2. o \in 1 .. L + 4 /\ \A p \in o + 1 .. L + 4 : Reads(f, es, both, p)
      BY <2>1
    <2>3. o > l \/ o \in 1 .. l
      BY <2>2
    <2> QED BY <1>14, <1>15, <2>1, <2>2, <2>3
  <1> QED BY <1>16

\* s is some of es, in order.
Drawn(s, es) ==
    \E h \in [1 .. Len(s) -> 1 .. Len(es)] :
        /\ \A i, j \in 1 .. Len(s) : i < j => h[i] < h[j]
        /\ \A i \in 1 .. Len(s) : s[i] = es[h[i]]

\* The same for the whole file.
LEMMA Appended ==
    ASSUME NEW f, IsSeq(f), NEW es, IsSeq(es), NEW c \in 0 .. 4 * Len(es)
    PROVE  \E S : \E s \in Seq(S) : Drawn(s, es) /\ Events(f \o Written(es, c)) = Events(f) \o s
  <1>1. Len(es) \in Nat /\ Len(f) \in Nat /\ c \in Nat
    BY DEF IsSeq
  <1>2. PICK T : f \in Seq(T)
    BY DEF IsSeq
  <1>3. Events(f) \in Seq(Cells(f))
    <2>1. 1 \in 1 .. Len(f) + RecordCells
      BY <1>1 DEF RecordCells
    <2> QED BY <2>1, ScanShape DEF Events, Replay, Results
  <1>4. CASE c = 0
    <2>1. IsSeq(Written(es, c)) /\ Len(Written(es, c)) = 0
      BY <1>4, WrittenIs
    <2>2. Written(es, c) = <<>>
      BY <2>1 DEF IsSeq
    <2>3. f \o Written(es, c) = f
      BY <1>2, <2>2
    <2>4. Drawn(<<>>, es) /\ <<>> \in Seq({}) /\ Events(f) \o <<>> = Events(f)
      <3>1. From(<<>>, es, 0)
        BY FromNothing
      <3>2. Drawn(<<>>, es)
        BY <3>1 DEF From, Drawn
      <3> QED BY <1>3, <3>2
    <2> QED BY <2>3, <2>4
  <1>5. CASE c # 0
    <2>1. c \in 1 .. 4 * Len(es)
      BY <1>1, <1>5
    <2>2. PICK both : both = f \o Written(es, c)
      OBVIOUS
    <2>3. \A o \in 1 .. Len(f) + c + 4 : Reads(f, es, both, o)
      BY <2>1, <2>2, AppendedFrom
    <2>4. 1 \in 1 .. Len(f) + c + 4
      BY <1>1
    <2>5. PICK S : \E s \in Seq(S) : From(s, es, 1 - Len(f)) /\ Scan(both)[1].events = Before(f, 1) \o s
      BY <2>3, <2>4 DEF Reads
    <2>6. PICK s \in Seq(S) : From(s, es, 1 - Len(f)) /\ Scan(both)[1].events = Before(f, 1) \o s
      BY <2>5
    <2>7. Drawn(s, es)
      BY <2>6 DEF From, Drawn
    <2>8. Before(f, 1) = Events(f)
      <3>1. 1 > Len(f) => 1 > Len(f) - 2 /\ 1 \in 1 .. Len(f) + 4
        BY <1>1
      <3>2. 1 > Len(f) => Scan(f)[1].events = <<>>
        BY <3>1, ScanEvents DEF EventsAt
      <3>3. ~(1 <= Len(f)) => 1 > Len(f)
        BY <1>1
      <3> QED BY <3>2, <3>3 DEF Before, Events, Replay
    <2> QED BY <2>2, <2>6, <2>7, <2>8 DEF Events, Replay
  <1> QED BY <1>4, <1>5

\* The first elements of a sequence.
LEMMA FromFirst ==
    ASSUME NEW S, NEW s \in Seq(S), NEW c \in 0 .. Len(s)
    PROVE  SubSeq(s, 1, c) = [n \in 1 .. c |-> s[n]]
  <1>1. SubSeq(s, 1, c) \in Seq(S) /\ Len(SubSeq(s, 1, c)) = c
    OBVIOUS
  <1>2. \A n \in 1 .. c : SubSeq(s, 1, c)[n] = s[n]
    OBVIOUS
  <1>3. PICK t \in Seq(S) : t = SubSeq(s, 1, c)
    BY <1>1
  <1>4. Len(t) = c /\ \A n \in 1 .. c : t[n] = s[n]
    BY <1>1, <1>2, <1>3
  <1>5. t = [n \in 1 .. Len(t) |-> t[n]]
    BY SMT
  <1> QED BY <1>3, <1>4, <1>5

\* Only the records that have begun matter.
LEMMA WrittenShort ==
    ASSUME NEW es, IsSeq(es), NEW k \in 0 .. Len(es), NEW c \in 0 .. 4 * k
    PROVE  Written(es, c) = Written(SubSeq(es, 1, k), c)
  <1> DEFINE t == SubSeq(es, 1, k)
             At(x, n) == Cell(x[((n - 1) \div 4) + 1], ((n - 1) % 4) + 1)
  <1>1. Len(es) \in Nat /\ k \in Nat /\ c \in Nat /\ RecordCells = 4
    BY DEF IsSeq, RecordCells
  <1>2. IsSeq(t) /\ Len(t) = k /\ \A i \in 1 .. k : t[i] = es[i]
    BY <1>1 DEF IsSeq
  <1>3. c \in 0 .. 4 * Len(es) /\ c \in 0 .. 4 * Len(t)
    BY <1>1, <1>2
  <1> HIDE DEF t
  <1>4. ASSUME NEW n \in 1 .. c PROVE At(es, n) = At(t, n)
    <2>1. ((n - 1) \div 4) + 1 \in 1 .. k
      BY <1>1
    <2> QED BY <1>2, <2>1
  <1>5. ASSUME NEW x, x \in {es, t}
        PROVE  Written(x, c) = [n \in 1 .. c |-> At(x, n)]
    <2>1. IsSeq(x) /\ c \in 0 .. 4 * Len(x) /\ Len(x) \in Nat
      BY <1>2, <1>3, <1>5 DEF IsSeq
    <2>2. SerializeAll(x) = [n \in 1 .. 4 * Len(x) |-> At(x, n)]
      BY <1>1, <2>1 DEF SerializeAll
    <2> HIDE DEF At
    <2>3. Written(x, c) = [n \in 1 .. c |-> SerializeAll(x)[n]]
      <3>1. PICK all : all = SerializeAll(x)
        OBVIOUS
      <3>2. PICK S : all \in Seq(S) /\ c \in 0 .. Len(all)
        <4>1. IsSeq(SerializeAll(x)) /\ Len(SerializeAll(x)) = 4 * Len(x)
          BY <2>1, SerializedIs
        <4> QED BY <2>1, <3>1, <4>1 DEF IsSeq
      <3>3. SubSeq(all, 1, c) = [n \in 1 .. c |-> all[n]]
        BY <3>2, FromFirst
      <3> QED BY <3>1, <3>3 DEF Written
    <2>4. \A n \in 1 .. c : SerializeAll(x)[n] = At(x, n)
      BY <2>1, <2>2
    <2> QED BY <2>3, <2>4
  <1> HIDE DEF At
  <1> QED BY <1>4, <1>5 DEF t

-----------------------------------------------------------------------------
(* Records whose ids and watermarks are in order.                           *)

Split(E) ==
    /\ IsSeq(E)
    /\ \A i \in 1 .. Len(E) :
         /\ E[i].id \in Nat
         /\ IsMarker(E[i]) => E[i].watermark \in Nat /\ E[i].watermark < E[i].id
    /\ \A i, j \in 1 .. Len(E) : j < i =>
         /\ E[j].id <= E[i].id
         /\ IsMarker(E[i]) => E[j].id <= E[i].watermark

\* Some of the records of such a sequence are such a sequence.
LEMMA SplitDrawn ==
    ASSUME NEW E, Split(E), NEW s, IsSeq(s), Drawn(s, E)
    PROVE  Split(s)
  <1>1. PICK h \in [1 .. Len(s) -> 1 .. Len(E)] :
          /\ \A i, j \in 1 .. Len(s) : i < j => h[i] < h[j]
          /\ \A i \in 1 .. Len(s) : s[i] = E[h[i]]
    BY DEF Drawn
  <1>2. \A i \in 1 .. Len(s) :
          /\ s[i].id \in Nat
          /\ IsMarker(s[i]) => s[i].watermark \in Nat /\ s[i].watermark < s[i].id
    BY <1>1 DEF Split
  <1>3. \A i, j \in 1 .. Len(s) : j < i =>
          /\ s[j].id <= s[i].id
          /\ IsMarker(s[i]) => s[j].id <= s[i].watermark
    BY <1>1 DEF Split
  <1> QED BY <1>2, <1>3 DEF Split

\* es may follow E: its ids are as great, and so are the watermarks of its markers.
Follows(E, es) ==
    \A i \in 1 .. Len(E), j \in 1 .. Len(es) :
        E[i].id <= es[j].id /\ (IsMarker(es[j]) => E[i].id <= es[j].watermark)

LEMMA SplitConcat ==
    ASSUME NEW E, Split(E), NEW s, Split(s), Follows(E, s)
    PROVE  Split(E \o s)
  <1>1. Len(E) \in Nat /\ Len(s) \in Nat
    BY DEF Split, IsSeq
  <1>2. /\ IsSeq(E \o s) /\ Len(E \o s) = Len(E) + Len(s)
        /\ \A i \in 1 .. Len(E) : (E \o s)[i] = E[i]
        /\ \A i \in 1 .. Len(s) : (E \o s)[Len(E) + i] = s[i]
    <2>1. PICK S, T : E \in Seq(S) /\ s \in Seq(T)
      BY DEF Split, IsSeq
    <2>2. E \in Seq(S \cup T) /\ s \in Seq(S \cup T)
      BY <2>1
    <2> QED BY <2>2, ConcatAt DEF IsSeq
  <1>3. PICK t : t = E \o s
    OBVIOUS
  <1>4. PICK m \in Nat, n \in Nat : m = Len(E) /\ n = Len(s)
    BY <1>1
  <1>5. \A i \in 1 .. m + n :
          \/ i \in 1 .. m /\ t[i] = E[i]
          \/ \E k \in 1 .. n : i = m + k /\ t[i] = s[k]
    <2>1. ASSUME NEW i \in 1 .. m PROVE t[i] = E[i]
      BY <1>2, <1>3, <1>4
    <2>2. ASSUME NEW i \in 1 .. m + n, i > m PROVE \E k \in 1 .. n : i = m + k /\ t[i] = s[k]
      <3>1. PICK k \in 1 .. n : k = i - m
        BY <2>2
      <3>2. t[m + k] = s[k]
        BY <1>2, <1>3, <1>4
      <3>3. i = m + k
        BY <3>1
      <3> QED BY <3>2, <3>3
    <2> SUFFICES ASSUME NEW i \in 1 .. m + n
                 PROVE  (i \in 1 .. m /\ t[i] = E[i]) \/ \E k \in 1 .. n : i = m + k /\ t[i] = s[k]
      OBVIOUS
    <2>3. i \in 1 .. m \/ i > m
      OBVIOUS
    <2> QED BY <2>1, <2>2, <2>3
  <1>6. \A i \in 1 .. m + n :
          /\ t[i].id \in Nat
          /\ IsMarker(t[i]) => t[i].watermark \in Nat /\ t[i].watermark < t[i].id
    BY <1>4, <1>5 DEF Split
  <1>7. ASSUME NEW i \in 1 .. m + n, NEW j \in 1 .. m + n, j < i
        PROVE  /\ t[j].id <= t[i].id
               /\ IsMarker(t[i]) => t[j].id <= t[i].watermark
    <2>1. CASE i \in 1 .. m /\ t[i] = E[i]
      <3>1. j \in 1 .. m /\ t[j] = E[j]
        BY <1>5, <1>7, <2>1
      <3> QED BY <1>4, <1>7, <2>1, <3>1 DEF Split
    <2>2. ASSUME NEW k \in 1 .. n, i = m + k, t[i] = s[k]
          PROVE  /\ t[j].id <= t[i].id
                 /\ IsMarker(t[i]) => t[j].id <= t[i].watermark
      <3>1. CASE j \in 1 .. m /\ t[j] = E[j]
        BY <1>4, <2>2, <3>1 DEF Follows
      <3>2. ASSUME NEW l \in 1 .. n, j = m + l, t[j] = s[l]
            PROVE  /\ t[j].id <= t[i].id
                   /\ IsMarker(t[i]) => t[j].id <= t[i].watermark
        <4>1. l < k
          BY <1>7, <2>2, <3>2
        <4> QED BY <1>4, <2>2, <3>2, <4>1 DEF Split
      <3> QED BY <1>5, <3>1, <3>2
    <2> QED BY <1>5, <2>1, <2>2
  <1> QED BY <1>2, <1>3, <1>4, <1>6, <1>7 DEF Split

\* What may follow E, in part and in order, after E.
LEMMA SplitAppended ==
    ASSUME NEW E, Split(E), NEW es, Split(es), Follows(E, es), NEW s, IsSeq(s), Drawn(s, es)
    PROVE  Split(E \o s)
  <1>1. Split(s)
    BY SplitDrawn
  <1>2. Follows(E, s)
    BY DEF Follows, Drawn
  <1> QED BY <1>1, <1>2, SplitConcat

-----------------------------------------------------------------------------
(* What compaction keeps.                                                   *)

\* The elements of a finite set of numbers are ranked.
Below(K, i) == {j \in K : j < i}
LEMMA RankedNumbers ==
    ASSUME NEW K, K \subseteq Nat, IsFiniteSet(K)
    PROVE  /\ Cardinality(K) \in Nat
           /\ \A n \in Nat : n < Cardinality(K) => \E i \in K : Cardinality(Below(K, i)) = n
           /\ \A i \in K : Cardinality(Below(K, i)) \in Nat
           /\ \A i, j \in K : i <= j => Cardinality(Below(K, i)) <= Cardinality(Below(K, j))
  <1>4. /\ Cardinality(K) \in Nat
        /\ \A i \in K : IsFiniteSet(Below(K, i)) /\ Cardinality(Below(K, i)) \in Nat
    <2> SUFFICES ASSUME NEW i \in K PROVE IsFiniteSet(Below(K, i)) /\ Cardinality(Below(K, i)) \in Nat
      BY FS_CardinalityType
    <2>1. Below(K, i) \in SUBSET K
      BY DEF Below
    <2>2. IsFiniteSet(Below(K, i))
      BY <2>1, FS_Subset
    <2> QED BY <2>2, FS_CardinalityType
  <1>5. \A i, j \in K : i < j => Cardinality(Below(K, i)) < Cardinality(Below(K, j))
    <2> SUFFICES ASSUME NEW i \in K, NEW j \in K, i < j
                 PROVE  Cardinality(Below(K, i)) < Cardinality(Below(K, j))
      OBVIOUS
    <2>1. ~(i < i) /\ \A x \in K : x < i => x < j
      <3>0. i \in Nat /\ ~(i < i)
        OBVIOUS
      <3> SUFFICES ASSUME NEW x \in K, x < i PROVE x < j
        BY <3>0
      <3>1. x \in Nat /\ i \in Nat /\ j \in Nat
        OBVIOUS
      <3> QED BY <3>0, <3>1
    <2>4. Below(K, i) \in SUBSET Below(K, j) /\ i \in Below(K, j) /\ i \notin Below(K, i)
      BY <2>1 DEF Below
    <2>2. IsFiniteSet(Below(K, j)) /\ Cardinality(Below(K, i)) \in Nat /\ Cardinality(Below(K, j)) \in Nat
      BY <1>4
    <2>3. Cardinality(Below(K, i)) <= Cardinality(Below(K, j)) /\ Cardinality(Below(K, i)) # Cardinality(Below(K, j))
      BY <2>2, <2>4, FS_Subset
    <2> QED BY <2>2, <2>3
  <1>6. \A i \in K : Cardinality(Below(K, i)) < Cardinality(K)
    <2> SUFFICES ASSUME NEW i \in K PROVE Cardinality(Below(K, i)) < Cardinality(K)
      OBVIOUS
    <2>1. Below(K, i) \in SUBSET K /\ i \notin Below(K, i)
      BY DEF Below
    <2>2. Cardinality(Below(K, i)) <= Cardinality(K) /\ Cardinality(Below(K, i)) # Cardinality(K)
      BY <2>1, FS_Subset
    <2> QED BY <1>4, <2>2
  <1>7. \A n \in Nat : n < Cardinality(K) => \E i \in K : Cardinality(Below(K, i)) = n
    <2> PICK c \in Nat : c = Cardinality(K)
      BY <1>4
    <2> DEFINE f == [i \in K |-> Cardinality(Below(K, i))]
    <2>1. \A i \in K : f[i] = Cardinality(Below(K, i)) /\ f[i] \in 0 .. c - 1
      BY <1>4, <1>6
    <2>2. \A i, j \in K : f[i] = f[j] => i = j
      <3> SUFFICES ASSUME NEW i \in K, NEW j \in K, f[i] = f[j], i # j PROVE FALSE
        OBVIOUS
      <3>1. f[i] < f[j] \/ f[j] < f[i]
        <4>1. i < j \/ j < i
          OBVIOUS
        <4> QED BY <1>5, <2>1, <4>1, EmptySeq
      <3>2. f[i] \in Int /\ f[j] \in Int
        BY <2>1
      <3> HIDE DEF f
      <3> QED BY <3>1, <3>2
    <2>3. f \in [K -> 0 .. c - 1]
      BY <2>1
    <2> HIDE DEF f
    <2>4. f \in Injection(K, 0 .. c - 1)
      BY <2>2, <2>3 DEF Injection, IsInjective
    <2>5. IsFiniteSet(0 .. c - 1) /\ Cardinality(0 .. c - 1) = c
      <3>1. c - 1 \in Int /\ 0 \in Int /\ (IF 0 > c - 1 THEN 0 ELSE (c - 1) - 0 + 1) = c
        OBVIOUS
      <3> QED BY <3>1, FS_Interval
    <2>6. f \in Surjection(K, 0 .. c - 1)
      BY <2>4, <2>5, FS_Injection
    <2>7. \A n \in 0 .. c - 1 : \E i \in K : f[i] = n
      BY <2>6 DEF Surjection
    <2>8. ASSUME NEW n \in Nat, n < Cardinality(K) PROVE n \in 0 .. c - 1
      BY <2>8
    <2> QED BY <2>1, <2>7, <2>8
  <1>8. \A i, j \in K : i <= j => Cardinality(Below(K, i)) <= Cardinality(Below(K, j))
    <2> SUFFICES ASSUME NEW i \in K, NEW j \in K, i <= j
                 PROVE  Cardinality(Below(K, i)) <= Cardinality(Below(K, j))
      OBVIOUS
    <2>1. i < j \/ i = j
      OBVIOUS
    <2> QED BY <1>4, <1>5, <2>1
  <1> QED BY <1>4, <1>7, <1>8

\* So what is kept is some of the records, in order.
LEMMA RetainedDrawn ==
    ASSUME NEW es, IsSeq(es)
    PROVE  IsSeq(Retained(es)) /\ Drawn(Retained(es), es)
  <1> DEFINE K == Kept(es)
             At(n) == CHOOSE i \in K : Cardinality(Below(K, i)) = n - 1
             r == Retained(es)
  <1>1. K \subseteq 1 .. Len(es) /\ K \subseteq Nat /\ IsFiniteSet(K)
    <2>1. PICK l \in Nat : l = Len(es) /\ DOMAIN es = 1 .. l
      BY DEF IsSeq
    <2>2. IsFiniteSet(1 .. l)
      BY FS_Interval
    <2>3. K \in SUBSET (1 .. l)
      BY <2>1 DEF Kept
    <2> QED BY <2>1, <2>2, <2>3, FS_Subset
  <1>2. PICK c \in Nat : c = Cardinality(K)
    BY <1>1, RankedNumbers
  <1>3. r = [n \in 1 .. c |-> es[At(n)]]
    BY <1>2 DEF Retained, Below
  <1>4. ASSUME NEW n \in 1 .. c PROVE At(n) \in K /\ Cardinality(Below(K, At(n))) = n - 1
    <2>1. n - 1 \in Nat /\ n - 1 < Cardinality(K)
      BY <1>2
    <2>2. \E i \in K : Cardinality(Below(K, i)) = n - 1
      BY <1>1, <2>1, RankedNumbers
    <2> QED BY <2>2
  <1>5. IsSeq(r) /\ Len(r) = c
    <2> DEFINE S == {r[n] : n \in 1 .. c}
    <2> HIDE DEF At
    <2>1. DOMAIN r = 1 .. c /\ r = [n \in DOMAIN r |-> r[n]]
      BY <1>3
    <2> HIDE DEF r
    <2>2. r \in [1 .. c -> S]
      BY <2>1
    <2> HIDE DEF S
    <2>3. r \in Seq(S)
      BY <2>2, SeqDef
    <2> QED BY <2>1, <2>3, LenProperties DEF IsSeq
  <1> DEFINE h == [n \in 1 .. Len(r) |-> At(n)]
  <1>6. h \in [1 .. Len(r) -> 1 .. Len(es)]
    BY <1>1, <1>4, <1>5
  <1>7. ASSUME NEW i \in 1 .. Len(r), NEW j \in 1 .. Len(r), i < j PROVE h[i] < h[j]
    <2>1. /\ At(i) \in K /\ Cardinality(Below(K, At(i))) = i - 1
          /\ At(j) \in K /\ Cardinality(Below(K, At(j))) = j - 1
      BY <1>4, <1>5
    <2>2. PICK a \in Nat, b \in Nat : a = At(i) /\ b = At(j)
      BY <1>1, <2>1
    <2>3. ~(b <= a)
      <3> SUFFICES ASSUME b <= a PROVE FALSE
        OBVIOUS
      <3> HIDE DEF At
      <3>1. a \in K /\ b \in K
        BY <2>1, <2>2
      <3>2. Cardinality(Below(K, b)) <= Cardinality(Below(K, a))
        BY <1>1, <3>1, RankedNumbers
      <3>3. j - 1 <= i - 1
        BY <2>1, <2>2, <3>2
      <3> QED BY <1>7, <1>5, <3>3
    <2> HIDE DEF At
    <2> QED BY <2>2, <2>3
  <1>8. ASSUME NEW i \in 1 .. Len(r) PROVE r[i] = es[h[i]]
    <2> HIDE DEF At
    <2> QED BY <1>3, <1>5
  <1> HIDE DEF h, r
  <1> QED BY <1>5, <1>6, <1>7, <1>8 DEF Drawn, r

\* The records that compaction writes, ...
LEMMA CompactedSplit ==
    ASSUME NEW E, Split(E), NEW id \in Nat, \A i \in 1 .. Len(E) : E[i].id <= id,
           NEW last, last.id = id, ~IsMarker(last)
    PROVE  /\ Split(Append(Retained(E), last))
           /\ \A i \in 1 .. Len(Append(Retained(E), last)) : Append(Retained(E), last)[i].id <= id
  <1>1. IsSeq(E)
    BY DEF Split
  <1>2. IsSeq(Retained(E)) /\ Drawn(Retained(E), E)
    BY <1>1, RetainedDrawn
  <1>3. PICK s : s = Retained(E)
    OBVIOUS
  <1>4. Split(s) /\ IsSeq(s)
    BY <1>2, <1>3, SplitDrawn
  <1>5. \A i \in 1 .. Len(s) : s[i].id <= id
    BY <1>2, <1>3 DEF Drawn
  <1>6. PICK t : t = <<last>>
    OBVIOUS
  <1>7. Split(t) /\ Follows(s, t)
    <2>1. Len(t) = 1 /\ t[1] = last /\ IsSeq(t)
      <3>1. <<last>> \in Seq({last})
        OBVIOUS
      <3> QED BY <1>6, <3>1 DEF IsSeq
    <2>2. \A i \in 1 .. Len(t) : i = 1
      BY <2>1
    <2>3. Split(t)
      BY <2>1, <2>2 DEF Split
    <2>4. Follows(s, t)
      BY <1>5, <2>1, <2>2 DEF Follows
    <2> QED BY <2>3, <2>4
  <1>8. PICK S : s \in Seq(S) /\ last \in S
    <2>1. PICK S : s \in Seq(S)
      BY <1>4 DEF IsSeq
    <2>2. s \in Seq(S \cup {last})
      BY <2>1
    <2> QED BY <2>2
  <1>9. Append(s, last) = s \o t
    BY <1>6, <1>8, AppendIsConcat
  <1>10. Split(Append(s, last))
    BY <1>4, <1>7, <1>9, SplitConcat
  <1>11. \A i \in 1 .. Len(Append(s, last)) : Append(s, last)[i].id <= id
    BY <1>5, <1>8
  <1> QED BY <1>3, <1>10, <1>11

\* ... and what the repository notes of them.
LEMMA NotedIs ==
    ASSUME NEW es, IsSeq(es), NEW start
    PROVE  NotedUpTo(start, es) = [n \in 0 .. Len(es) |->
               IF n = 0 THEN start ELSE Noted(NotedUpTo(start, es)[n - 1], es[n].id)]
  <1> DEFINE Part(g, m) == g = [n \in 0 .. m |-> IF n = 0 THEN start ELSE Noted(g[n - 1], es[n].id)]
             Bad == {m \in 0 .. Len(es) : \A g : ~Part(g, m)}
  <1>1. Len(es) \in Nat
    BY DEF IsSeq
  <1>2. Bad = {}
    <2> SUFFICES ASSUME Bad # {} PROVE FALSE
      OBVIOUS
    <2>1. PICK m \in Bad : \A y \in Bad : m <= y
      <3>1. Bad \subseteq Nat
        BY <1>1
      <3> QED BY <3>1, LeastOfNats
    <2>2. CASE m = 0
      <3> DEFINE g == [n \in 0 .. 0 |-> start]
      <3>1. \A n \in 0 .. 0 : n = 0
        OBVIOUS
      <3>2. g = [n \in 0 .. m |-> IF n = 0 THEN start ELSE Noted(g[n - 1], es[n].id)]
        BY <2>2, <3>1
      <3> QED BY <2>1, <3>2
    <2>3. CASE m # 0
      <3>1. m - 1 \in 0 .. Len(es) /\ m - 1 \notin Bad /\ m \in 1 .. Len(es)
        <4>1. m \in 0 .. Len(es)
          BY <2>1
        <4>2. m \in 1 .. Len(es) /\ m - 1 \in 0 .. Len(es) /\ ~(m <= m - 1)
          BY <1>1, <2>3, <4>1
        <4> QED BY <2>1, <4>2
      <3>2. PICK g : Part(g, m - 1)
        BY <3>1
      <3> DEFINE h == [n \in 0 .. m |-> IF n = m THEN Noted(g[m - 1], es[m].id) ELSE g[n]]
      <3>3. m \in Nat /\ m >= 1
        BY <3>1
      <3>4. \A n \in 0 .. m - 1 : n \in 0 .. m /\ n # m /\ h[n] = g[n]
        BY <3>3
      <3>5. ASSUME NEW n \in 0 .. m
            PROVE  h[n] = IF n = 0 THEN start ELSE Noted(h[n - 1], es[n].id)
        <4>1. CASE n = 0
          <5>1. n \in 0 .. m - 1
            BY <3>3, <4>1
          <5> HIDE DEF h
          <5> QED BY <3>2, <3>4, <4>1, <5>1
        <4>2. CASE n # 0 /\ n # m
          <5>1. n \in 0 .. m - 1 /\ n - 1 \in 0 .. m - 1
            BY <3>3, <4>2
          <5>2. g[n] = Noted(g[n - 1], es[n].id)
            BY <3>2, <4>2, <5>1
          <5> HIDE DEF h
          <5> QED BY <3>4, <4>2, <5>1, <5>2
        <4>3. CASE n = m
          <5>1. m - 1 \in 0 .. m - 1 /\ m \in 0 .. m /\ m # 0
            BY <3>3
          <5>2. h[m] = Noted(g[m - 1], es[m].id)
            BY <5>1
          <5>3. h[m - 1] = g[m - 1]
            BY <3>4, <5>1
          <5> HIDE DEF h
          <5> QED BY <4>3, <5>1, <5>2, <5>3
        <4> QED BY <4>1, <4>2, <4>3
      <3>6. h = [n \in 0 .. m |-> h[n]]
        OBVIOUS
      <3> HIDE DEF h
      <3>7. Part(h, m)
        BY <3>5, <3>6
      <3> QED BY <2>1, <3>7
    <2> QED BY <2>2, <2>3
  <1>3. PICK g : Part(g, Len(es))
    BY <1>1, <1>2
  <1>4. NotedUpTo(start, es) =
           CHOOSE noted : noted = [n \in 0 .. Len(es) |->
               IF n = 0 THEN start ELSE Noted(noted[n - 1], es[n].id)]
    BY DEF NotedUpTo
  <1> QED BY <1>3, <1>4

\* What it notes is bounded by the greatest id.
LEMMA NotedBound ==
    ASSUME NEW es, IsSeq(es), NEW b \in Nat, NEW a \in 0 .. b, NEW c,
           \A i \in 1 .. Len(es) : es[i].id \in 0 .. b
    PROVE  NotedUpTo([applied |-> a, contiguous |-> c], es)[Len(es)].applied \in 0 .. b
  <1> DEFINE R == [applied : 0 .. b, contiguous : {c, FALSE}]
             start == [applied |-> a, contiguous |-> c]
             noted == NotedUpTo(start, es)
             Bad == {n \in 0 .. Len(es) : noted[n] \notin R}
  <1>1. Len(es) \in Nat
    BY DEF IsSeq
  <1>2. \A n \in 0 .. Len(es) :
           noted[n] = IF n = 0 THEN start ELSE Noted(noted[n - 1], es[n].id)
    <2>1. noted = [n \in 0 .. Len(es) |->
               IF n = 0 THEN start ELSE Noted(noted[n - 1], es[n].id)]
      BY NotedIs
    <2> HIDE DEF noted
    <2> QED BY <2>1
  <1> HIDE DEF noted
  <1>3. ASSUME NEW s \in R, NEW id \in 0 .. b PROVE Noted(s, id) \in R
    BY DEF Noted
  <1>6. start \in R
    OBVIOUS
  <1>7. \A r \in R : r.applied \in 0 .. b
    OBVIOUS
  <1> HIDE DEF R, start
  <1>4. Bad = {}
    <2> SUFFICES ASSUME Bad # {} PROVE FALSE
      OBVIOUS
    <2>1. PICK n \in Bad : \A y \in Bad : n <= y
      <3>1. Bad \subseteq Nat
        BY <1>1
      <3> QED BY <3>1, LeastOfNats
    <2>2. CASE n = 0
      <3>1. noted[n] = start /\ start \in R
        BY <1>1, <1>2, <1>6, <2>2
      <3> QED BY <2>1, <3>1
    <2>3. CASE n # 0
      <3>1. n - 1 \in 0 .. Len(es) /\ n - 1 \notin Bad /\ n \in 1 .. Len(es)
        <4>1. n \in 0 .. Len(es)
          BY <2>1
        <4>2. n \in 1 .. Len(es) /\ n - 1 \in 0 .. Len(es) /\ ~(n <= n - 1)
          BY <1>1, <2>3, <4>1
        <4> QED BY <2>1, <4>2
      <3>2. noted[n - 1] \in R
        BY <3>1
      <3>3. noted[n] = Noted(noted[n - 1], es[n].id)
        BY <1>2, <2>1, <2>3
      <3>4. noted[n] \in R
        BY <1>3, <3>1, <3>2, <3>3
      <3> QED BY <2>1, <3>4
    <2> QED BY <2>2, <2>3
  <1>5. noted[Len(es)] \in R
    BY <1>1, <1>4
  <1> QED BY <1>5, <1>7 DEF noted, start

-----------------------------------------------------------------------------
(* What recovery cuts off.                                                  *)

\* From o on the records follow each other, and reading stops where they end.
Straight(f, o) ==
    \A m \in Nat, l \in Nat :
        ~Scan(f)[o].corrupt /\ m = Len(Scan(f)[o].events) /\ l = o + 4 * m - 1 =>
            l <= Len(f) /\ Scan(SubSeq(f, 1, l))[o].events = Scan(f)[o].events

\* The first cells of a file.
LEMMA PrefixFacts ==
    ASSUME NEW f, IsSeq(f), NEW l \in 0 .. Len(f)
    PROVE  /\ IsSeq(SubSeq(f, 1, l)) /\ Len(SubSeq(f, 1, l)) = l
           /\ \A i \in 1 .. l : SubSeq(f, 1, l)[i] = f[i]
  BY DEF IsSeq

\* Reading stops here, ...
LEMMA StraightEnd ==
    ASSUME NEW f, IsSeq(f), NEW o \in 1 .. Len(f) + 1, Scan(f)[o].events = <<>>
    PROVE  Straight(f, o)
  <1>1. Len(f) \in Nat
    BY DEF IsSeq
  <1> SUFFICES ASSUME NEW l \in Nat, l = o - 1
               PROVE  l <= Len(f) /\ Scan(SubSeq(f, 1, l))[o].events = <<>>
    <2>1. \A m \in Nat : m = Len(<<>>) => m = 0
      OBVIOUS
    <2> QED BY <1>1, <2>1 DEF Straight
  <1>2. l \in 0 .. Len(f) /\ l <= Len(f)
    BY <1>1
  <1>3. PICK k : k = SubSeq(f, 1, l)
    OBVIOUS
  <1>4. IsSeq(k) /\ Len(k) = l
    BY <1>2, <1>3, PrefixFacts
  <1>5. o \in 1 .. l + 4 /\ o > l - 2
    BY <1>1
  <1>6. EventsAt(k, l, o)
    BY <1>4, <1>5, ScanEvents
  <1> QED BY <1>2, <1>3, <1>5, <1>6 DEF EventsAt

\* One record more: where the prefix ends.
LEMMA OneMore ==
    ASSUME NEW o \in Nat, NEW q \in Nat, q = o + 4, NEW m \in Nat, NEW p \in Nat, m = p + 1,
           NEW l \in Nat, l = o + 4 * m - 1
    PROVE  l = q + 4 * p - 1 /\ l >= o + 3
  OBVIOUS

\* ... or goes on with a record.
LEMMA StraightNext ==
    ASSUME NEW f, IsSeq(f), NEW o \in 1 .. Len(f), o <= Len(f) - 3,
           Begins(f, o), ChecksumMatches(f, o), Straight(f, o + 4)
    PROVE  Straight(f, o)
  <1>1. PICK n \in Nat : n = Len(f)
    BY DEF IsSeq
  <1>2. PICK q \in Nat : q = o + 4
    BY <1>1
  <1>3. o \in Nat /\ o \in 1 .. n + 4 /\ q \in 1 .. n + 4
    BY <1>1, <1>2
  <1>4. Scan(f)[o] = After(f[o].of, Scan(f)[q])
    BY <1>1, <1>2, <1>3, ScanCases
  <1>5. PICK r \in Results(Cells(f)) : r = Scan(f)[q]
    BY <1>1, <1>3, ScanShape DEF RecordCells
  <1>6. Scan(f)[o].corrupt = r.corrupt /\ Scan(f)[o].events = <<f[o].of>> \o r.events
    BY <1>4, <1>5 DEF After, Results
  <1> SUFFICES ASSUME NEW m \in Nat, NEW l \in Nat, ~r.corrupt, m = Len(Scan(f)[o].events),
                      l = o + 4 * m - 1
               PROVE  l <= Len(f) /\ Scan(SubSeq(f, 1, l))[o].events = Scan(f)[o].events
    BY <1>6 DEF Straight
  <1>7. PICK p \in Nat : p = Len(r.events)
    BY <1>5 DEF Results
  <1>8. m = p + 1
    <2>1. r.events \in Seq(Cells(f))
      BY <1>5 DEF Results
    <2>2. PICK e : e = f[o].of
      OBVIOUS
    <2>3. PICK x \in Seq(Cells(f)) : x = r.events
      BY <2>1
    <2>4. Len(<<e>> \o x) = Len(x) + 1
      <3>1. <<e>> \in Seq(Cells(f) \cup {e}) /\ x \in Seq(Cells(f) \cup {e})
        OBVIOUS
      <3> QED BY <3>1
    <2> QED BY <1>6, <1>7, <2>2, <2>3, <2>4
  <1>9. l = q + 4 * p - 1 /\ l >= o + 3
    BY <1>2, <1>3, <1>8, OneMore
  <1>10. PICK k : k = SubSeq(f, 1, l)
    OBVIOUS
  <1>11. l <= Len(f) /\ Scan(k)[q].events = r.events
    BY <1>2, <1>5, <1>7, <1>9, <1>10 DEF Straight
  <1>12. IsSeq(k) /\ Len(k) = l /\ \A i \in 1 .. l : k[i] = f[i]
    <2>1. IsSeq(f)
      BY <1>1
    <2>2. l \in 0 .. Len(f)
      BY <1>11, <2>1 DEF IsSeq
    <2>3. /\ IsSeq(SubSeq(f, 1, l)) /\ Len(SubSeq(f, 1, l)) = l
          /\ \A i \in 1 .. l : SubSeq(f, 1, l)[i] = f[i]
      BY <2>1, <2>2, PrefixFacts
    <2> QED BY <1>10, <2>3
  <1>13. Begins(k, o) /\ ChecksumMatches(k, o)
    <2>1. o + 3 <= Len(k) /\ o + 3 <= Len(f) /\ o >= 1
      BY <1>1, <1>3, <1>9, <1>12
    <2>2. \A i \in o .. o + 3 : i \in 1 .. l
      BY <1>3, <1>9
    <2>3. \A i \in o .. o + 3 : f[i] = k[i]
      BY <1>12, <2>2
    <2> QED BY <1>3, <1>12, <2>1, <2>3, SameThere
  <1>14. EventsAt(k, l, o) /\ o <= l - 3
    <2>1. o \in 1 .. l + 4 /\ o <= l - 3
      BY <1>3, <1>9
    <2> QED BY <1>12, <2>1, ScanEvents
  <1>15. Scan(k)[o].events = <<k[o].of>> \o Scan(k)[q].events
    BY <1>2, <1>13, <1>14 DEF EventsAt
  <1>16. k[o] = f[o]
    <2>1. o \in 1 .. l
      BY <1>3, <1>9
    <2> QED BY <1>12, <2>1
  <1> QED BY <1>6, <1>10, <1>11, <1>15, <1>16

\* So it is from every place.
LEMMA AllStraight ==
    ASSUME NEW f, IsSeq(f)
    PROVE  \A o \in 1 .. Len(f) + 1 : Straight(f, o)
  <1>1. PICK n \in Nat : n = Len(f)
    BY DEF IsSeq
  <1> DEFINE Bad == {o \in 1 .. n + 1 : ~Straight(f, o)}
  <1>2. Bad = {}
    <2> SUFFICES ASSUME Bad # {} PROVE FALSE
      OBVIOUS
    <2>1. PICK o \in Bad : \A y \in Bad : y <= o
      <3>1. Bad \subseteq 0 .. n + 1 /\ n + 1 \in Nat
        BY <1>1
      <3> QED BY <3>1, GreatestOfBounded
    <2>2. o \in 1 .. n + 1 /\ o \in Nat /\ o \in 1 .. n + 4
      BY <1>1, <2>1
    <2>3. EventsAt(f, n, o)
      BY <1>1, <2>2, ScanEvents
    <2>4. CASE Scan(f)[o].events = <<>>
      BY <1>1, <2>1, <2>2, <2>4, StraightEnd
    <2>5. CASE Scan(f)[o].corrupt
      BY <2>1, <2>5 DEF Straight
    <2>6. CASE Scan(f)[o].events # <<>> /\ ~Scan(f)[o].corrupt
      <3>0. \A r \in Results(Cells(f)) : Corrupt(r).corrupt
        BY DEF Results, Corrupt
      <3>1. o <= n - 2
        BY <1>1, <2>2, <2>3, <2>6 DEF EventsAt
      <3>2. Begins(f, o)
        <4> SUFFICES ASSUME ~Begins(f, o) PROVE FALSE
          OBVIOUS
        <4>1. o + 1 \in 1 .. Len(f) + 1
          BY <1>1, <2>2, <3>1
        <4>2. FindMagic(f, o + 1) \in o + 1 .. n + 1
          BY <1>1, <4>1, FindMagicFacts
        <4>3. FindMagic(f, o + 1) \in 1 .. Len(f) + RecordCells
          BY <1>1, <2>2, <4>2 DEF RecordCells
        <4>4. Scan(f)[o] = Corrupt(Scan(f)[FindMagic(f, o + 1)])
          BY <1>1, <2>2, <3>1, ScanCases
        <4> QED BY <2>6, <3>0, <4>3, <4>4, ScanShape
      <3>3. o <= n - 3
        <4>1. o # n - 2
          BY <2>3, <2>6, <3>2 DEF EventsAt
        <4> QED BY <1>1, <2>2, <3>1, <4>1
      <3>4. ChecksumMatches(f, o)
        <4> SUFFICES ASSUME ~ChecksumMatches(f, o) PROVE FALSE
          OBVIOUS
        <4>1. o + 4 \in 1 .. Len(f) + RecordCells
          BY <1>1, <2>2, <3>3 DEF RecordCells
        <4>2. Scan(f)[o] = Corrupt(Scan(f)[o + 4])
          BY <1>1, <2>2, <3>2, <3>3, ScanCases
        <4> QED BY <2>6, <3>0, <4>1, <4>2, ScanShape
      <3>5. Straight(f, o + 4)
        <4>1. o + 4 \in 1 .. n + 1 /\ ~(o + 4 <= o)
          BY <1>1, <2>2, <3>3
        <4> QED BY <2>1, <4>1
      <3>6. o \in 1 .. Len(f) /\ o <= Len(f) - 3
        BY <1>1, <2>2, <3>3
      <3>7. Straight(f, o)
        BY <3>2, <3>4, <3>5, <3>6, StraightNext
      <3> QED BY <2>1, <3>7
    <2> QED BY <2>4, <2>5, <2>6
  <1> QED BY <1>1, <1>2

\* Recovery keeps what was read.
LEMMA Recovers ==
    ASSUME NEW f, IsSeq(f)
    PROVE  IsSeq(Recovered(f)) /\ Events(Recovered(f)) = Events(f)
  <1>1. PICK n \in Nat : n = Len(f)
    BY DEF IsSeq
  <1>2. 1 \in 1 .. Len(f) + RecordCells /\ 1 \in 1 .. Len(f) + 1
    BY <1>1 DEF RecordCells
  <1>3. PICK r \in Results(Cells(f)) : r = Scan(f)[1]
    BY <1>2, ScanShape
  <1>4. CASE r.truncated /\ ~r.corrupt
    <2>1. PICK m \in Nat : m = Len(r.events)
      BY <1>3 DEF Results
    <2>2. PICK l \in Nat : l = 4 * m
      OBVIOUS
    <2>3. Straight(f, 1) /\ l = 1 + 4 * m - 1
      BY <1>2, <2>2, AllStraight
    <2>4. l <= Len(f) /\ Scan(SubSeq(f, 1, l))[1].events = Scan(f)[1].events
      BY <1>3, <1>4, <2>1, <2>3 DEF Straight
    <2>5. Recovered(f) = SubSeq(f, 1, l)
      BY <1>3, <1>4, <2>1, <2>2 DEF Recovered, Replay, RecordCells
    <2>6. IsSeq(SubSeq(f, 1, l))
      BY <1>1, <2>4, PrefixFacts
    <2> QED BY <2>4, <2>5, <2>6 DEF Events, Replay
  <1>5. CASE ~(r.truncated /\ ~r.corrupt)
    BY <1>3, <1>5 DEF Recovered, Replay
  <1> QED BY <1>4, <1>5

-----------------------------------------------------------------------------
(* What the records do to each key.                                         *)

\* A projection of the keys, and what one record does to one of them.
IsView(v) == v = [k \in Keys |-> v[k]]
Step(x, e, k, w) == IF Touches(e, k) /\ ~Skipped(e, w) THEN Effect(x, e) ELSE x

\* The projections after each of some records follow each other.
LEMMA ApplyingIs ==
    ASSUME NEW es, IsSeq(es), NEW v, NEW w
    PROVE  Applying(v, es, w) = [n \in 0 .. Len(es) |->
               IF n = 0 THEN v
               ELSE IF Skipped(es[n], w) THEN Applying(v, es, w)[n - 1]
               ELSE Apply(Applying(v, es, w)[n - 1], es[n])]
  <1> DEFINE Go(x, n) == IF Skipped(es[n], w) THEN x ELSE Apply(x, es[n])
             Part(g, m) == g = [n \in 0 .. m |-> IF n = 0 THEN v ELSE Go(g[n - 1], n)]
             Bad == {m \in 0 .. Len(es) : \A g : ~Part(g, m)}
  <1>4. Applying(v, es, w) =
           CHOOSE after : after = [n \in 0 .. Len(es) |-> IF n = 0 THEN v ELSE Go(after[n - 1], n)]
    BY DEF Applying
  <1> HIDE DEF Go
  <1>1. Len(es) \in Nat
    BY DEF IsSeq
  <1>2. Bad = {}
    <2> SUFFICES ASSUME Bad # {} PROVE FALSE
      OBVIOUS
    <2>1. PICK m \in Bad : \A y \in Bad : m <= y
      <3>1. Bad \subseteq Nat
        BY <1>1
      <3> QED BY <3>1, LeastOfNats
    <2>2. CASE m = 0
      <3> DEFINE g == [n \in 0 .. 0 |-> v]
      <3>1. \A n \in 0 .. 0 : n = 0
        OBVIOUS
      <3>2. g = [n \in 0 .. m |-> IF n = 0 THEN v ELSE Go(g[n - 1], n)]
        BY <2>2, <3>1
      <3> QED BY <2>1, <3>2
    <2>3. CASE m # 0
      <3>1. m - 1 \in 0 .. Len(es) /\ m - 1 \notin Bad /\ m \in 1 .. Len(es)
        <4>1. m \in 0 .. Len(es)
          BY <2>1
        <4>2. m \in 1 .. Len(es) /\ m - 1 \in 0 .. Len(es) /\ ~(m <= m - 1)
          BY <1>1, <2>3, <4>1
        <4> QED BY <2>1, <4>2
      <3>2. PICK g : Part(g, m - 1)
        BY <3>1
      <3> DEFINE h == [n \in 0 .. m |-> IF n = m THEN Go(g[m - 1], m) ELSE g[n]]
      <3>3. m \in Nat /\ m >= 1
        BY <3>1
      <3>4. \A n \in 0 .. m - 1 : n \in 0 .. m /\ n # m /\ h[n] = g[n]
        BY <3>3
      <3>5. ASSUME NEW n \in 0 .. m
            PROVE  h[n] = IF n = 0 THEN v ELSE Go(h[n - 1], n)
        <4>1. CASE n = 0
          <5>1. n \in 0 .. m - 1
            BY <3>3, <4>1
          <5> HIDE DEF h
          <5> QED BY <3>2, <3>4, <4>1, <5>1
        <4>2. CASE n # 0 /\ n # m
          <5>1. n \in 0 .. m - 1 /\ n - 1 \in 0 .. m - 1
            BY <3>3, <4>2
          <5>2. g[n] = Go(g[n - 1], n)
            BY <3>2, <4>2, <5>1
          <5> HIDE DEF h
          <5> QED BY <3>4, <4>2, <5>1, <5>2
        <4>3. CASE n = m
          <5>1. m - 1 \in 0 .. m - 1 /\ m \in 0 .. m /\ m # 0
            BY <3>3
          <5>2. h[m] = Go(g[m - 1], m)
            BY <5>1
          <5>3. h[m - 1] = g[m - 1]
            BY <3>4, <5>1
          <5> HIDE DEF h
          <5> QED BY <4>3, <5>1, <5>2, <5>3
        <4> QED BY <4>1, <4>2, <4>3
      <3>6. h = [n \in 0 .. m |-> h[n]]
        OBVIOUS
      <3> HIDE DEF h
      <3>7. Part(h, m)
        BY <3>5, <3>6
      <3> QED BY <2>1, <3>7
    <2> QED BY <2>2, <2>3
  <1>3. PICK g : Part(g, Len(es))
    BY <1>1, <1>2
  <1>5. Part(Applying(v, es, w), Len(es))
    BY <1>3, <1>4
  <1> QED BY <1>5 DEF Go

\* Key by key.
LEMMA ApplyingAt ==
    ASSUME NEW es, IsSeq(es), NEW v, IsView(v), NEW w
    PROVE  /\ Applying(v, es, w)[0] = v
           /\ \A n \in 0 .. Len(es) : IsView(Applying(v, es, w)[n])
           /\ \A n \in 1 .. Len(es), k \in Keys :
                 Applying(v, es, w)[n][k] = Step(Applying(v, es, w)[n - 1][k], es[n], k, w)
  <1>1. PICK l \in Nat : l = Len(es)
    BY DEF IsSeq
  <1>2. PICK r : r = Applying(v, es, w)
    OBVIOUS
  <1>3. \A n \in 0 .. l : r[n] = IF n = 0 THEN v ELSE IF Skipped(es[n], w) THEN r[n - 1] ELSE Apply(r[n - 1], es[n])
    <2>1. r = [n \in 0 .. l |-> IF n = 0 THEN v ELSE IF Skipped(es[n], w) THEN r[n - 1] ELSE Apply(r[n - 1], es[n])]
      BY <1>1, <1>2, ApplyingIs
    <2> QED BY <2>1
  <1>4. r[0] = v
    <2>1. 0 \in 0 .. l
      BY <1>1
    <2> QED BY <1>3, <2>1
  <1>5. ASSUME NEW x, IsView(x), NEW e
        PROVE  IsView(Apply(x, e)) /\ \A k \in Keys : Apply(x, e)[k] = IF Touches(e, k) THEN Effect(x[k], e) ELSE x[k]
    <2>1. CASE e.key \in Keys
      <3>1. Apply(x, e) = [k \in Keys |-> IF k = e.key THEN Effect(x[k], e) ELSE x[k]]
        BY <1>5, <2>1 DEF Apply, IsView
      <3> QED BY <3>1 DEF IsView, Touches
    <2>2. CASE e.key \notin Keys
      BY <1>5, <2>2 DEF Apply, Touches
    <2> QED BY <2>1, <2>2
  <1>6. ASSUME NEW n \in 1 .. l, IsView(r[n - 1])
        PROVE  IsView(r[n]) /\ \A k \in Keys : r[n][k] = Step(r[n - 1][k], es[n], k, w)
    <2>1. r[n] = IF Skipped(es[n], w) THEN r[n - 1] ELSE Apply(r[n - 1], es[n])
      <3>1. n \in 0 .. l /\ n # 0
        OBVIOUS
      <3> QED BY <1>3, <3>1
    <2>2. CASE Skipped(es[n], w)
      BY <1>6, <2>1, <2>2 DEF Step
    <2>3. CASE ~Skipped(es[n], w)
      BY <1>5, <1>6, <2>1, <2>3 DEF Step
    <2> QED BY <2>2, <2>3
  <1> DEFINE Bad == {n \in 0 .. l : ~IsView(r[n])}
  <1>7. Bad = {}
    <2> SUFFICES ASSUME Bad # {} PROVE FALSE
      OBVIOUS
    <2>1. PICK n \in Bad : \A y \in Bad : n <= y
      <3>1. Bad \subseteq Nat
        OBVIOUS
      <3> QED BY <3>1, LeastOfNats
    <2>2. n # 0
      BY <1>4, <2>1
    <2>3. n \in 1 .. l /\ n - 1 \in 0 .. l /\ ~(n <= n - 1)
      BY <2>1, <2>2
    <2>4. IsView(r[n - 1])
      BY <2>1, <2>3
    <2> QED BY <1>6, <2>1, <2>3, <2>4
  <1>8. \A n \in 1 .. l : n - 1 \in 0 .. l
    OBVIOUS
  <1>9. \A n \in 0 .. l : IsView(r[n])
    BY <1>7
  <1>10. \A n \in 1 .. l, k \in Keys : r[n][k] = Step(r[n - 1][k], es[n], k, w)
    BY <1>6, <1>8, <1>9
  <1> QED BY <1>1, <1>2, <1>4, <1>9, <1>10

-----------------------------------------------------------------------------
(* What is read of a file that only whole calls and the last one wrote.     *)

\* A piece of a sequence.
LEMMA Piece ==
    ASSUME NEW S, NEW s \in Seq(S), NEW a \in 1 .. Len(s) + 1, NEW b \in a - 1 .. Len(s)
    PROVE  /\ SubSeq(s, a, b) \in Seq(S) /\ Len(SubSeq(s, a, b)) = b - a + 1
           /\ SubSeq(s, a, b) = [i \in 1 .. b - a + 1 |-> s[a + i - 1]]
  <1>1. SubSeq(s, a, b) \in Seq(S) /\ Len(SubSeq(s, a, b)) = b - a + 1
    OBVIOUS
  <1>2. \A i \in 1 .. b - a + 1 : SubSeq(s, a, b)[i] = s[a + i - 1]
    OBVIOUS
  <1>3. PICK t \in Seq(S) : t = SubSeq(s, a, b)
    BY <1>1
  <1>4. Len(t) = b - a + 1 /\ \A i \in 1 .. b - a + 1 : t[i] = s[a + i - 1]
    BY <1>1, <1>2, <1>3
  <1>5. t = [i \in 1 .. Len(t) |-> t[i]]
    BY SMT
  <1>6. t = [i \in 1 .. b - a + 1 |-> s[a + i - 1]]
    BY <1>4, <1>5
  <1> QED BY <1>1, <1>3, <1>6

\* The cells of record n.
LEMMA WrittenAt ==
    ASSUME NEW es, IsSeq(es), NEW c \in 0 .. 4 * Len(es), NEW n \in 1 .. Len(es), NEW p \in 1 .. 4,
           NEW i \in 1 .. c, i = 4 * n - 4 + p
    PROVE  Written(es, c)[i] = Cell(es[n], p)
  <1>1. Len(es) \in Nat /\ 4 * Len(es) \in Nat /\ RecordCells = 4
    BY DEF IsSeq, RecordCells
  <1>2. PICK all : all = SerializeAll(es)
    OBVIOUS
  <1>3. all = [m \in 1 .. 4 * Len(es) |-> Cell(es[((m - 1) \div 4) + 1], ((m - 1) % 4) + 1)]
    BY <1>1, <1>2 DEF SerializeAll
  <1>4. PICK S : all \in Seq(S) /\ Len(all) = 4 * Len(es)
    BY <1>2, SerializedIs DEF IsSeq
  <1>5. Written(es, c)[i] = all[i]
    BY <1>1, <1>2, <1>4 DEF Written
  <1>6. i \in 1 .. 4 * Len(es)
    BY <1>1
  <1>7. ((i - 1) \div 4) + 1 = n /\ ((i - 1) % 4) + 1 = p
    BY <1>1
  <1>8. all[i] = Cell(es[((i - 1) \div 4) + 1], ((i - 1) % 4) + 1)
    BY <1>3, <1>6
  <1> QED BY <1>5, <1>7, <1>8

\* Two cells of it are enough for a header, four for the whole record.
LEMMA WrittenBegins ==
    ASSUME NEW es, IsSeq(es), NEW c \in 0 .. 4 * Len(es), NEW n \in 1 .. Len(es),
           NEW o \in 1 .. c, o = 4 * n - 3, NEW f, f = Written(es, c)
    PROVE  /\ o + 1 <= c => Begins(f, o)
           /\ o + 3 <= c => ChecksumMatches(f, o) /\ f[o].of = es[n]
  <1>1. Len(es) \in Nat /\ c \in Nat /\ RecordCells = 4 /\ HeaderCells = 2
    BY DEF IsSeq, RecordCells, HeaderCells
  <1>2. IsSeq(f) /\ Len(f) = c
    BY WrittenIs
  <1>3. \A p \in 1 .. 4 : o + p - 1 <= c => f[o + p - 1] = Cell(es[n], p)
    <2> SUFFICES ASSUME NEW p \in 1 .. 4, o + p - 1 <= c PROVE f[o + p - 1] = Cell(es[n], p)
      OBVIOUS
    <2>1. PICK i \in 1 .. c : i = o + p - 1 /\ i = 4 * n - 4 + p
      BY <1>1
    <2>2. Written(es, c)[i] = Cell(es[n], p)
      BY <2>1, WrittenAt
    <2> QED BY <2>1, <2>2
  <1>4. f[o] = Cell(es[n], 1)
    <2>1. PICK p \in 1 .. 4 : p = 1
      OBVIOUS
    <2>2. o + p - 1 = o /\ o <= c
      BY <2>1
    <2> QED BY <1>3, <2>1, <2>2
  <1>5. f[o].part = 1 /\ f[o].of = es[n]
    BY <1>4 DEF Cell
  <1>6. Serialize(es[n]) = [p \in 1 .. 4 |-> Cell(es[n], p)]
    BY <1>1 DEF Serialize
  <1>9. PICK S : f \in Seq(S)
    BY <1>2 DEF IsSeq
  <1>7. ASSUME o + 1 <= c PROVE Begins(f, o)
    <2>1. SubSeq(f, o, o + 1) = [p \in 1 .. 2 |-> f[o + p - 1]]
      <3>1. PICK b \in o - 1 .. Len(f) : b = o + 1 /\ b - o + 1 = 2
        BY <1>1, <1>2, <1>7
      <3>2. o \in 1 .. Len(f) + 1
        BY <1>1, <1>2
      <3> QED BY <1>9, <3>1, <3>2, Piece
    <2>2. \A p \in 1 .. 2 : p \in 1 .. 4 /\ o + p - 1 <= c
      BY <1>1, <1>7
    <2>3. SubSeq(f, o, o + 1) = [p \in 1 .. 2 |-> Cell(es[n], p)]
      BY <1>3, <2>1, <2>2
    <2>6. SubSeq(Serialize(es[n]), 1, 2) = [p \in 1 .. 2 |-> Cell(es[n], p)]
      <3>1. PICK t : t = Serialize(es[n])
        OBVIOUS
      <3> DEFINE T == {Cell(es[n], p) : p \in 1 .. 4}
      <3>2. t \in [1 .. 4 -> T]
        BY <1>6, <3>1
      <3>5. \A p \in 1 .. 4 : t[p] = Cell(es[n], p)
        BY <1>6, <3>1
      <3> HIDE DEF T
      <3>3. t \in Seq(T) /\ Len(t) = 4
        <4>1. t \in Seq(T) /\ DOMAIN t = 1 .. 4
          BY <3>2, SeqDef
        <4> QED BY <4>1, LenProperties
      <3>4. SubSeq(t, 1, 2) = [p \in 1 .. 2 |-> t[p]]
        <4>1. PICK q \in 0 .. Len(t) : q = 2
          BY <3>3
        <4> QED BY <3>3, <4>1, FromFirst
      <3> QED BY <3>1, <3>4, <3>5
    <2>4. o + HeaderCells - 1 = o + 1
      BY <1>1
    <2>5. HeaderIsWhole(f, o)
      BY <1>1, <1>5, <2>3, <2>4, <2>6 DEF HeaderIsWhole
    <2> QED BY <1>5, <2>5 DEF Begins
  <1>8. ASSUME o + 3 <= c PROVE ChecksumMatches(f, o)
    <2>1. SubSeq(f, o, o + 3) = [p \in 1 .. 4 |-> f[o + p - 1]]
      <3>1. PICK b \in o - 1 .. Len(f) : b = o + 3 /\ b - o + 1 = 4
        BY <1>1, <1>2, <1>8
      <3>2. o \in 1 .. Len(f) + 1
        BY <1>1, <1>2
      <3> QED BY <1>9, <3>1, <3>2, Piece
    <2>2. \A p \in 1 .. 4 : o + p - 1 <= c
      BY <1>1, <1>8
    <2>3. SubSeq(f, o, o + 3) = [p \in 1 .. 4 |-> Cell(es[n], p)]
      BY <1>3, <2>1, <2>2
    <2>4. o + RecordCells - 1 = o + 3
      BY <1>1
    <2> QED BY <1>5, <1>6, <2>3, <2>4 DEF ChecksumMatches
  <1> QED BY <1>5, <1>7, <1>8

\* One element.
LEMMA OneElement ==
    ASSUME NEW S, NEW e \in S
    PROVE  <<e>> \in Seq(S) /\ Len(<<e>>) = 1 /\ <<e>>[1] = e
  OBVIOUS

\* One more record of a piece.
LEMMA NextPiece ==
    ASSUME NEW S, NEW es \in Seq(S), NEW m \in 0 .. Len(es), NEW k \in 1 .. m
    PROVE  <<es[k]>> \o SubSeq(es, k + 1, m) = SubSeq(es, k, m)
  <1>1. PICK l \in Nat : l = Len(es)
    OBVIOUS
  <1>2. m \in 0 .. l /\ m \in Nat /\ k \in Nat /\ k >= 1 /\ k <= m
    BY <1>1
  <1>3. PICK a \in 1 .. l + 1 : a = k + 1
    BY <1>2
  <1>4. PICK d \in Nat : d = m - k
    BY <1>2
  <1>5. PICK s \in Seq(S) : s = SubSeq(es, a, m) /\ Len(s) = d /\ \A i \in 1 .. d : s[i] = es[k + i]
    <2>1. m \in a - 1 .. l /\ m - a + 1 = d /\ \A i \in 1 .. d : a + i - 1 = k + i
      BY <1>2, <1>3, <1>4
    <2>2. /\ SubSeq(es, a, m) \in Seq(S) /\ Len(SubSeq(es, a, m)) = d
          /\ SubSeq(es, a, m) = [i \in 1 .. d |-> es[a + i - 1]]
      BY <1>1, <2>1, Piece
    <2> QED BY <2>1, <2>2
  <1>6. PICK t \in Seq(S) : t = SubSeq(es, k, m) /\ Len(t) = d + 1 /\ \A i \in 1 .. d + 1 : t[i] = es[k + i - 1]
    <2>1. k \in 1 .. l + 1 /\ m \in k - 1 .. l /\ m - k + 1 = d + 1
      BY <1>2, <1>4
    <2>2. /\ SubSeq(es, k, m) \in Seq(S) /\ Len(SubSeq(es, k, m)) = d + 1
          /\ SubSeq(es, k, m) = [i \in 1 .. d + 1 |-> es[k + i - 1]]
      BY <1>1, <2>1, Piece
    <2> QED BY <2>2
  <1>7. PICK e \in S : e = es[k]
    BY <1>1, <1>2
  <1>8. PICK h \in Seq(S) : h = <<e>> /\ Len(h) = 1 /\ h[1] = e
    BY OneElement
  <1>9. PICK u \in Seq(S) : u = h \o s /\ Len(u) = 1 + d
    <2>1. h \o s \in Seq(S) /\ Len(h \o s) = Len(h) + Len(s)
      BY ConcatProperties
    <2>2. Len(h \o s) = 1 + d
      BY <1>5, <1>8, <2>1
    <2> QED BY <2>1, <2>2
  <1>10. (\A i \in 1 .. 1 : u[i] = h[i]) /\ \A i \in 1 .. d : u[1 + i] = s[i]
    BY <1>5, <1>8, <1>9, ConcatAt
  <1>11. ASSUME NEW i \in 1 .. d + 1 PROVE u[i] = t[i]
    <2>1. CASE i = 1
      <3>1. k + i - 1 = k /\ i \in 1 .. 1
        BY <1>2, <2>1
      <3>2. u[i] = e
        BY <1>8, <1>10, <2>1, <3>1
      <3> QED BY <1>6, <1>7, <3>1, <3>2
    <2>2. CASE i # 1
      <3>1. PICK j \in 1 .. d : i = 1 + j
        BY <1>4, <2>2
      <3>2. k + i - 1 = k + j
        BY <1>2, <3>1
      <3>3. u[1 + j] = s[j] /\ s[j] = es[k + j] /\ t[i] = es[k + i - 1]
        BY <1>5, <1>6, <1>10, <3>1
      <3>4. u[1 + j] = u[i]
        BY <3>1
      <3>5. es[k + i - 1] = es[k + j]
        BY <3>2
      <3> QED BY <3>3, <3>4, <3>5
    <2> QED BY <2>1, <2>2
  <1>12. Len(u) = Len(t) /\ \A i \in 1 .. Len(u) : u[i] = t[i]
    <2>1. Len(u) = 1 + d /\ 1 + d = d + 1 /\ Len(t) = d + 1
      BY <1>5, <1>6, <1>9
    <2>2. 1 .. Len(u) = 1 .. d + 1
      BY <2>1
    <2> QED BY <1>11, <2>1, <2>2
  <1>13. u = t
    BY <1>12, SeqEqual
  <1> QED BY <1>3, <1>5, <1>6, <1>7, <1>8, <1>9, <1>13

\* The whole records are read, and what is left of the next one is noticed.
LEMMA WrittenReads ==
    ASSUME NEW es, IsSeq(es), NEW m \in 0 .. Len(es), NEW c \in 0 .. 4 * Len(es),
           4 * m <= c, c <= 4 * m + 3, NEW f, f = Written(es, c)
    PROVE  /\ Events(f) = SubSeq(es, 1, m)
           /\ ~Replay(f).corrupt /\ (Replay(f).truncated <=> c # 4 * m)
  <1> DEFINE Gives(r, n) ==
                /\ r.events = SubSeq(es, n + 1, m)
                /\ ~r.corrupt /\ (r.truncated <=> c # 4 * m)
             Bad == {n \in 0 .. m : ~Gives(Scan(f)[4 * n + 1], n)}
  <1>1. Len(es) \in Nat /\ c \in Nat /\ m \in Nat /\ RecordCells = 4
    BY DEF IsSeq, RecordCells
  <1>2. IsSeq(f) /\ Len(f) = c
    BY WrittenIs
  <1>3. PICK S : es \in Seq(S)
    BY DEF IsSeq
  <1>4. Gives(Scan(f)[4 * m + 1], m)
    <2>1. SubSeq(es, m + 1, m) = <<>>
      BY <1>1, <1>3
    <2>2. PICK o \in 1 .. c + 4 : o = 4 * m + 1
      BY <1>1
    <2>3. CASE c = 4 * m
      <3>1. o > c
        BY <1>1, <2>2, <2>3
      <3>2. Scan(f)[o] = NothingLeft
        BY <1>2, <3>1, ScanCases
      <3>3. NothingLeft.events = <<>> /\ NothingLeft.corrupt = FALSE /\ NothingLeft.truncated = FALSE
        BY DEF NothingLeft
      <3> QED BY <2>1, <2>2, <2>3, <3>2, <3>3
    <2>4. CASE c # 4 * m
      <3>1. Scan(f)[o] = TooShort
        <4>1. CASE c <= 4 * m + 2
          <5>1. o \in {c - 1, c}
            BY <1>1, <2>2, <2>4, <4>1
          <5> QED BY <1>2, <5>1, ScanCases
        <4>2. CASE c = 4 * m + 3
          <5>1. PICK n \in 1 .. Len(es) : n = m + 1
            BY <1>1, <4>2
          <5>2. o \in 1 .. c /\ o = 4 * n - 3 /\ o + 1 <= c /\ o = c - 2
            BY <1>1, <2>2, <4>2, <5>1
          <5>3. Begins(f, o)
            BY <5>2, WrittenBegins
          <5> QED BY <1>2, <5>2, <5>3, ScanCases
        <4> QED BY <1>1, <4>1, <4>2
      <3>2. TooShort.events = <<>> /\ TooShort.corrupt = FALSE /\ TooShort.truncated = TRUE
        BY DEF NothingLeft, TooShort
      <3> QED BY <2>1, <2>2, <2>4, <3>1, <3>2
    <2> QED BY <2>3, <2>4
  <1>5. Bad = {}
    <2> SUFFICES ASSUME Bad # {} PROVE FALSE
      OBVIOUS
    <2>1. PICK n \in Bad : \A y \in Bad : y <= n
      <3>1. Bad \subseteq 0 .. m
        OBVIOUS
      <3> QED BY <1>1, <3>1, GreatestOfBounded
    <2>2. n \in 0 .. m /\ n # m
      BY <1>4, <2>1
    <2>3. PICK k \in 1 .. m : k = n + 1
      BY <2>2
    <2>4. Gives(Scan(f)[4 * k + 1], k)
      <3>1. k \in 0 .. m /\ ~(k <= n)
        BY <2>2, <2>3
      <3>2. k \notin Bad
        BY <2>1, <3>1
      <3> QED BY <3>1, <3>2
    <2>5. PICK o \in 1 .. c : o = 4 * k - 3 /\ o = 4 * n + 1
      <3>1. n \in Int /\ 4 * k - 3 = 4 * n + 1
        BY <2>2, <2>3
      <3>2. 4 * k <= 4 * m /\ k >= 1
        BY <2>3
      <3>3. 4 * k - 3 \in 1 .. c
        BY <1>1, <2>3, <3>2
      <3> QED BY <3>1, <3>3
    <2>6. o + 4 = 4 * k + 1 /\ o + 1 <= c /\ o + 3 <= c /\ o <= c - 3 /\ k \in 1 .. Len(es) /\ o \in 1 .. c + 4
      BY <1>1, <2>3, <2>5
    <2>7. Begins(f, o) /\ ChecksumMatches(f, o) /\ f[o].of = es[k]
      <3>1. PICK i \in 1 .. Len(es) : i = k
        BY <2>6
      <3>2. o = 4 * i - 3
        BY <2>5, <3>1
      <3>3. /\ o + 1 <= c => Begins(f, o)
            /\ o + 3 <= c => ChecksumMatches(f, o) /\ f[o].of = es[i]
        BY <3>2, WrittenBegins, SMTT(30)
      <3> QED BY <2>6, <3>1, <3>3
    <2>8. Scan(f)[o] = After(es[k], Scan(f)[o + 4])
      BY <1>2, <2>6, <2>7, ScanCases
    <2>9. <<es[k]>> \o SubSeq(es, k + 1, m) = SubSeq(es, n + 1, m)
      <3>1. <<es[k]>> \o SubSeq(es, k + 1, m) = SubSeq(es, k, m)
        BY <1>3, NextPiece
      <3> QED BY <2>3, <3>1
    <2>10. PICK q \in Results(Cells(f)) : q = Scan(f)[o + 4]
      <3>1. o + 4 \in 1 .. Len(f) + RecordCells
        BY <1>1, <1>2, <2>6
      <3> QED BY <1>2, <3>1, ScanShape
    <2>11. After(es[k], q).events = <<es[k]>> \o q.events /\ After(es[k], q).corrupt = q.corrupt
           /\ After(es[k], q).truncated = q.truncated
      BY DEF Results, After
    <2>12. Gives(q, k)
      BY <2>4, <2>6, <2>10
    <2>13. Gives(After(es[k], q), n)
      BY <2>9, <2>11, <2>12
    <2>14. Gives(Scan(f)[4 * n + 1], n)
      BY <2>5, <2>8, <2>10, <2>13
    <2> QED BY <2>1, <2>14
  <1>6. Gives(Scan(f)[1], 0)
    <2>1. PICK n \in 0 .. m : n = 0
      BY <1>1
    <2>2. n \notin Bad
      BY <1>5
    <2>3. 4 * n + 1 = 1
      BY <2>1
    <2> QED BY <2>1, <2>2, <2>3
  <1> QED BY <1>6 DEF Replay, Events

\* So a file that only whole records were written to is read as they were.
LEMMA WholeReads ==
    ASSUME NEW es, IsSeq(es), NEW f, f = Written(es, 4 * Len(es))
    PROVE  Events(f) = es /\ IsValid(f)
  <1>1. PICK S : es \in Seq(S)
    BY DEF IsSeq
  <1>2. PICK m \in 0 .. Len(es) : m = Len(es)
    BY <1>1
  <1>3. PICK c \in 0 .. 4 * Len(es) : c = 4 * Len(es)
    BY <1>1
  <1>4. 4 * m <= c /\ c <= 4 * m + 3 /\ c = 4 * m
    BY <1>1, <1>2, <1>3
  <1>5. Events(f) = SubSeq(es, 1, m) /\ ~Replay(f).corrupt /\ (Replay(f).truncated <=> c # 4 * m)
    BY <1>3, <1>4, WrittenReads
  <1>6. SubSeq(es, 1, m) = es
    <2>1. SubSeq(es, 1, m) = [n \in 1 .. m |-> es[n]]
      BY <1>1, FromFirst
    <2>2. es = [n \in 1 .. Len(es) |-> es[n]]
      BY <1>1, SMT
    <2> QED BY <1>2, <2>1, <2>2
  <1> QED BY <1>4, <1>5, <1>6 DEF IsValid

\* Two sequences of records, one after the other.
LEMMA Both ==
    ASSUME NEW E, IsSeq(E), NEW es, IsSeq(es)
    PROVE  /\ IsSeq(E \o es) /\ Len(E \o es) = Len(E) + Len(es)
           /\ \A i \in 1 .. Len(E) : (E \o es)[i] = E[i]
           /\ \A i \in 1 .. Len(es) : (E \o es)[Len(E) + i] = es[i]
  <1>1. PICK S, T : E \in Seq(S) /\ es \in Seq(T)
    BY DEF IsSeq
  <1>2. E \in Seq(S \cup T) /\ es \in Seq(S \cup T)
    BY <1>1
  <1>3. /\ \A i \in 1 .. Len(E) : (E \o es)[i] = E[i]
        /\ \A i \in 1 .. Len(es) : (E \o es)[Len(E) + i] = es[i]
    BY <1>2, ConcatAt
  <1>4. E \o es \in Seq(S \cup T) /\ Len(E \o es) = Len(E) + Len(es)
    BY <1>2, ConcatProperties
  <1> QED BY <1>3, <1>4 DEF IsSeq

\* Their cells follow each other.
LEMMA WrittenBoth ==
    ASSUME NEW E, IsSeq(E), NEW es, IsSeq(es), NEW c \in 0 .. 4 * Len(es)
    PROVE  /\ 4 * Len(E) + c \in 0 .. 4 * Len(E \o es)
           /\ Written(E, 4 * Len(E)) \o Written(es, c) = Written(E \o es, 4 * Len(E) + c)
  <1>1. PICK l \in Nat, n \in Nat : l = Len(E) /\ n = Len(es)
    BY DEF IsSeq
  <1>2. PICK d \in 0 .. 4 * n : d = c
    BY <1>1
  <1>3. PICK all : all = E \o es
    OBVIOUS
  <1>4. /\ IsSeq(all) /\ Len(all) = l + n
        /\ \A i \in 1 .. l : all[i] = E[i]
        /\ \A i \in 1 .. n : all[l + i] = es[i]
    BY <1>1, <1>3, Both
  <1>5. PICK a \in 0 .. 4 * l : a = 4 * l
    BY <1>1
  <1>6. PICK b \in 0 .. 4 * (l + n) : b = 4 * l + d /\ a <= b /\ b = a + d
    BY <1>2, <1>5
  <1>7. PICK f, g, h : f = Written(E, a) /\ g = Written(es, d) /\ h = Written(all, b)
    OBVIOUS
  <1>8. IsSeq(f) /\ Len(f) = a
    BY <1>1, <1>5, <1>7, WrittenIs
  <1>9. IsSeq(g) /\ Len(g) = d
    BY <1>1, <1>2, <1>7, WrittenIs
  <1>10. IsSeq(h) /\ Len(h) = b
    <2>1. b \in 0 .. 4 * Len(all)
      BY <1>4
    <2> QED BY <1>4, <1>7, <2>1, WrittenIs
  <1>11. PICK u : u = f \o g
    OBVIOUS
  <1>12. /\ IsSeq(u) /\ Len(u) = a + d
         /\ \A i \in 1 .. a : u[i] = f[i]
         /\ \A i \in 1 .. d : u[a + i] = g[i]
    <2>1. /\ IsSeq(f \o g) /\ Len(f \o g) = Len(f) + Len(g)
          /\ \A i \in 1 .. Len(f) : (f \o g)[i] = f[i]
          /\ \A i \in 1 .. Len(g) : (f \o g)[Len(f) + i] = g[i]
      <3>1. IsSeq(f) /\ IsSeq(g)
        BY <1>8, <1>9
      <3> QED BY <3>1, Both
    <2> QED BY <1>8, <1>9, <1>11, <2>1
  <1>13. ASSUME NEW i \in 1 .. b PROVE u[i] = h[i]
    <2>1. PICK k \in 1 .. l + n, p \in 1 .. 4 : i = 4 * k - 4 + p
      <3>1. PICK x \in Nat, y \in 0 .. 3 : i - 1 = 4 * x + y
        <4>1. (i - 1) \div 4 \in Nat /\ (i - 1) % 4 \in 0 .. 3
              /\ i - 1 = 4 * ((i - 1) \div 4) + ((i - 1) % 4)
          OBVIOUS
        <4> QED BY <4>1
      <3>2. x + 1 \in 1 .. l + n /\ y + 1 \in 1 .. 4 /\ i = 4 * (x + 1) - 4 + (y + 1)
        BY <1>6, <3>1
      <3> QED BY <3>2
    <2>2. h[i] = Cell(all[k], p)
      <3>1. k \in 1 .. Len(all) /\ b \in 0 .. 4 * Len(all)
        BY <1>4
      <3> QED BY <1>4, <1>7, <2>1, <3>1, WrittenAt, ZenonT(60)
    <2>3. CASE k <= l
      <3>1. k \in 1 .. l /\ i \in 1 .. a
        BY <1>5, <2>1, <2>3
      <3>2. f[i] = Cell(E[k], p)
        <4>1. k \in 1 .. Len(E) /\ a \in 0 .. 4 * Len(E)
          BY <1>1, <3>1
        <4>2. IsSeq(E)
          OBVIOUS
        <4>3. i \in 1 .. a /\ i = 4 * k - 4 + p
          BY <2>1, <3>1
        <4>4. Written(E, a)[i] = Cell(E[k], p)
          BY <4>1, <4>2, <4>3, WrittenAt, ZenonT(60)
        <4> QED BY <1>7, <4>4
      <3> QED BY <1>4, <1>12, <2>2, <3>1, <3>2
    <2>4. CASE k > l
      <3>1. PICK q \in 1 .. n, j \in 1 .. d : k = l + q /\ i = a + j /\ j = 4 * q - 4 + p
        <4>1. k - l \in 1 .. n /\ i - a \in 1 .. d /\ k = l + (k - l) /\ i = a + (i - a)
              /\ i - a = 4 * (k - l) - 4 + p
          BY <1>5, <1>6, <2>1, <2>4
        <4> QED BY <4>1
      <3>2. g[j] = Cell(es[q], p)
        <4>1. q \in 1 .. Len(es) /\ d \in 0 .. 4 * Len(es)
          BY <1>1
        <4>2. IsSeq(es)
          OBVIOUS
        <4>3. j \in 1 .. d /\ j = 4 * q - 4 + p
          BY <3>1
        <4>4. Written(es, d)[j] = Cell(es[q], p)
          BY <4>1, <4>2, <4>3, WrittenAt, ZenonT(60)
        <4> QED BY <1>7, <4>4
      <3>3. all[k] = es[q]
        BY <1>4, <3>1
      <3>4. u[i] = g[j]
        BY <1>12, <3>1
      <3> QED BY <2>2, <3>2, <3>3, <3>4
    <2> QED BY <2>3, <2>4
  <1>14. u = h
    <2>1. PICK S, T : u \in Seq(S) /\ h \in Seq(T)
      BY <1>10, <1>12 DEF IsSeq
    <2>2. u \in Seq(S \cup T) /\ h \in Seq(S \cup T)
      BY <2>1
    <2>3. Len(u) = Len(h) /\ \A i \in 1 .. Len(u) : u[i] = h[i]
      BY <1>6, <1>10, <1>12, <1>13
    <2> QED BY <2>2, <2>3, SeqEqual
  <1>15. Written(E, a) \o Written(es, d) = Written(all, b)
    BY <1>7, <1>11, <1>14
  <1>16. 4 * Len(E) = a /\ 4 * Len(E) + c = b /\ 4 * Len(E \o es) = 4 * (l + n)
    BY <1>1, <1>2, <1>3, <1>4, <1>5, <1>6
  <1> QED BY <1>2, <1>3, <1>6, <1>15, <1>16

\* Recovery cuts off the last record if it is not whole.
LEMMA WrittenRecovers ==
    ASSUME NEW es, IsSeq(es), NEW m \in 0 .. Len(es), NEW c \in 0 .. 4 * Len(es),
           4 * m <= c, c <= 4 * m + 3
    PROVE  LET t == SubSeq(es, 1, m)
           IN  IsSeq(t) /\ Len(t) = m /\ Recovered(Written(es, c)) = Written(t, 4 * m)
  <1>1. PICK l \in Nat : l = Len(es)
    BY DEF IsSeq
  <1>2. PICK f : f = Written(es, c)
    OBVIOUS
  <1>3. IsSeq(f) /\ Len(f) = c
    BY <1>2, WrittenIs
  <1>4. Events(f) = SubSeq(es, 1, m) /\ ~Replay(f).corrupt /\ (Replay(f).truncated <=> c # 4 * m)
    BY <1>2, WrittenReads
  <1>5. PICK t : t = SubSeq(es, 1, m)
    OBVIOUS
  <1>6. IsSeq(t) /\ Len(t) = m
    BY <1>5, PrefixFacts
  <1>7. PICK a \in 0 .. 4 * m : a = 4 * m
    BY <1>1
  <1>8. Written(es, a) = Written(t, a)
    BY <1>5, WrittenShort
  <1>9. Recovered(f) = Written(es, a)
    <2>1. CASE c = a
      BY <1>2, <1>4, <1>7, <2>1 DEF Recovered
    <2>2. CASE c # a
      <3>1. Recovered(f) = SubSeq(f, 1, a)
        <4>1. Replay(f).truncated /\ ~Replay(f).corrupt /\ Replay(f).events = t
          BY <1>4, <1>5, <1>7, <2>2 DEF Events
        <4> QED BY <1>6, <1>7, <4>1 DEF Recovered, RecordCells
      <3>2. PICK all : all = SerializeAll(es)
        OBVIOUS
      <3>3. PICK S : all \in Seq(S) /\ Len(all) = 4 * l
        BY <1>1, <3>2, SerializedIs DEF IsSeq
      <3>4. c \in 0 .. Len(all) /\ a \in 0 .. Len(all) /\ a \in 0 .. c
        BY <1>1, <1>7, <3>3
      <3>5. f = [n \in 1 .. c |-> all[n]] /\ Written(es, a) = [n \in 1 .. a |-> all[n]]
        BY <1>2, <3>2, <3>3, <3>4, FromFirst DEF Written
      <3>6. PICK T : f \in Seq(T)
        BY <1>3 DEF IsSeq
      <3>7. SubSeq(f, 1, a) = [n \in 1 .. a |-> f[n]]
        <4>1. a \in 0 .. Len(f)
          BY <1>3, <3>4
        <4> QED BY <3>6, <4>1, FromFirst
      <3>8. \A n \in 1 .. a : n \in 1 .. c
        BY <3>4
      <3> QED BY <3>1, <3>5, <3>7, <3>8
    <2> QED BY <2>1, <2>2
  <1> QED BY <1>2, <1>5, <1>6, <1>7, <1>8, <1>9

-----------------------------------------------------------------------------
(* What compaction drops has no effect in the end.                          *)

\* The records that the calls append: what they are about and what they carry.
Fits(e) ==
    /\ e.key \in Keys =>
         \/ e.key[1] = "status" /\ e.type \in {"GameImported", "ShallowAnalysisCompleted", "AnalysisCompleted"}
         \/ e.key[1] = "drills" /\ e.type \in {"DrillCreated", "DrillAttempted", "DrillSessionUpdated"}
         \/ e.key[1] = "job" /\ e.type = "AnalysisJobStateChanged"
         \/ e.key[1] = "line" /\ e.type \in LineTypes
    /\ e.type = "ShallowAnalysisCompleted" => e.value = "shallow"
    /\ e.type = "DrillCreated" => e.value = NewDrill
    /\ IsMarker(e) => e.key = <<>>

IsDrill(d) == d = [made |-> d.made, tries |-> d.tries, hint |-> d.hint, since |-> d.since]
Shape(k, x) == k[1] = "drills" => IsDrill(x)

\* The records of a key that replace what others set, and values that differ in that only.
Closers(k) ==
    IF k[1] = "status" THEN {"ShallowAnalysisCompleted", "AnalysisCompleted"}
    ELSE IF k[1] = "drills" THEN {"DrillSessionUpdated"}
    ELSE IF k[1] = "job" THEN {"AnalysisJobStateChanged"}
    ELSE LineTypes
Near(k, a, b) ==
    \/ a = b
    \/ k[1] = "status" /\ a \notin {"absent", "complete"} /\ b \notin {"absent", "complete"}
    \/ k[1] = "drills" /\ a.made /\ b.made /\ a.tries = b.tries
    \/ k[1] \in {"job", "line"}

\* What a session replaces, and an attempt adds.
LEMMA TrainedIs ==
    ASSUME NEW d, IsDrill(d), NEW e
    PROVE  /\ IsDrill(Trained(d, e)) /\ Trained(d, e).made = d.made
           /\ e.type # "DrillAttempted" =>
                Trained(d, e) = [made |-> d.made, tries |-> d.tries, hint |-> e.value.hint, since |-> e.value.since]
           /\ e.type = "DrillAttempted" => Trained(d, e).tries = Append(d.tries, e.value)
  <1>1. PICK m, t, h, s : d = [made |-> m, tries |-> t, hint |-> h, since |-> s]
    BY DEF IsDrill
  <1>2. CASE e.type = "DrillAttempted"
    <2>1. PICK u : u = Append(d.tries, e.value)
      OBVIOUS
    <2>2. Trained(d, e) = [d EXCEPT !.tries = u]
      BY <1>2, <2>1 DEF Trained
    <2>3. Trained(d, e) = [made |-> m, tries |-> u, hint |-> h, since |-> s]
      BY <1>1, <2>2
    <2> QED BY <1>1, <1>2, <2>1, <2>3 DEF IsDrill
  <1>3. CASE e.type # "DrillAttempted"
    <2>1. PICK a, b : a = e.value.hint /\ b = e.value.since
      OBVIOUS
    <2>2. Trained(d, e) = [d EXCEPT !.hint = a, !.since = b]
      BY <1>3, <2>1 DEF Trained
    <2>3. Trained(d, e) = [made |-> m, tries |-> t, hint |-> a, since |-> b]
      BY <1>1, <2>2
    <2> QED BY <1>1, <1>3, <2>1, <2>3 DEF IsDrill
  <1> QED BY <1>2, <1>3

\* A record of a drill.
LEMMA DrillEffect ==
    ASSUME NEW e, NEW d, IsDrill(d), e.type \in {"DrillCreated", "DrillAttempted", "DrillSessionUpdated"},
           e.type = "DrillCreated" => e.value = NewDrill
    PROVE  /\ IsDrill(Effect(d, e))
           /\ e.type = "DrillCreated" => Effect(d, e) = NewDrill
           /\ e.type # "DrillCreated" /\ ~d.made => Effect(d, e) = d
           /\ e.type # "DrillCreated" /\ d.made => Effect(d, e) = Trained(d, e)
  <1>1. IsDrill(NewDrill)
    <2>1. PICK yes, no, none, zero : yes = TRUE /\ no = FALSE /\ none = <<>> /\ zero = 0
      OBVIOUS
    <2>2. PICK d0 : d0 = [made |-> no, tries |-> none, hint |-> zero, since |-> zero]
      OBVIOUS
    <2>3. NewDrill = [d0 EXCEPT !.made = yes]
      BY <2>1, <2>2 DEF NewDrill, NoDrill
    <2>4. [d0 EXCEPT !.made = yes] = [made |-> yes, tries |-> none, hint |-> zero, since |-> zero]
      BY <2>2
    <2> QED BY <2>3, <2>4 DEF IsDrill
  <1>2. CASE e.type = "DrillCreated"
    BY <1>1, <1>2 DEF Effect, Ignores
  <1>3. CASE e.type # "DrillCreated"
    <2>1. Ignores(d, e) <=> ~d.made
      BY <1>3 DEF Ignores
    <2>2. Effect(d, e) = IF ~d.made THEN d ELSE Trained(d, e)
      BY <1>3, <2>1 DEF Effect
    <2> QED BY <1>3, <2>2, TrainedIs
  <1> QED BY <1>2, <1>3

\* The same record keeps such values such, or makes them equal.
LEMMA SameRecord ==
    ASSUME NEW k \in Keys, NEW e, e.key = k, Fits(e), NEW a, Shape(k, a), NEW b, Shape(k, b), Near(k, a, b)
    PROVE  /\ Near(k, Effect(a, e), Effect(b, e))
           /\ Shape(k, Effect(a, e)) /\ Shape(k, Effect(b, e))
           /\ e.type \in Closers(k) => Effect(a, e) = Effect(b, e)
  <1>1. CASE k[1] = "status"
    <2>1. e.type \in {"GameImported", "ShallowAnalysisCompleted", "AnalysisCompleted"}
      BY <1>1 DEF Fits
    <2>2. \A x : Effect(x, e) = IF Ignores(x, e) THEN x ELSE e.value
      BY <2>1 DEF Effect
    <2>3. a \notin {"absent", "complete"} => ~Ignores(a, e)
      BY <2>1 DEF Ignores
    <2>4. b \notin {"absent", "complete"} => ~Ignores(b, e)
      BY <2>1 DEF Ignores
    <2>5. Effect(a, e) = Effect(b, e)
      BY <1>1, <2>2, <2>3, <2>4 DEF Near
    <2> QED BY <1>1, <2>5 DEF Near, Shape
  <1>2. CASE k[1] = "drills"
    <2>1. /\ e.type \in {"DrillCreated", "DrillAttempted", "DrillSessionUpdated"}
          /\ e.type = "DrillCreated" => e.value = NewDrill
      BY <1>2 DEF Fits
    <2>2. IsDrill(a) /\ IsDrill(b)
      BY <1>2 DEF Shape
    <2>3. IsDrill(Effect(a, e)) /\ IsDrill(Effect(b, e))
      BY <2>1, <2>2, DrillEffect
    <2>4. CASE a = b
      BY <1>2, <2>3, <2>4 DEF Near, Shape
    <2>5. CASE a # b /\ e.type = "DrillCreated"
      <3>1. Effect(a, e) = Effect(b, e)
        BY <2>1, <2>2, <2>5, DrillEffect
      <3> QED BY <1>2, <2>3, <3>1 DEF Near, Shape
    <2>6. CASE a # b /\ e.type # "DrillCreated"
      <3>1. a.made /\ b.made /\ a.tries = b.tries
        BY <1>2, <2>6 DEF Near
      <3>2. Effect(a, e) = Trained(a, e) /\ Effect(b, e) = Trained(b, e)
        BY <2>1, <2>2, <2>6, <3>1, DrillEffect
      <3>3. CASE e.type = "DrillAttempted"
        <4>1. /\ Trained(a, e).made = a.made /\ Trained(a, e).tries = Append(a.tries, e.value)
              /\ Trained(b, e).made = b.made /\ Trained(b, e).tries = Append(b.tries, e.value)
          BY <2>2, <3>3, TrainedIs
        <4>2. Near(k, Effect(a, e), Effect(b, e))
          BY <1>2, <3>1, <3>2, <4>1 DEF Near
        <4>3. e.type \notin Closers(k)
          BY <1>2, <3>3 DEF Closers
        <4> QED BY <1>2, <2>3, <4>2, <4>3 DEF Shape
      <3>4. CASE e.type # "DrillAttempted"
        <4>1. a.made = b.made
          <5>1. a.made = NewDrill.made /\ b.made = NewDrill.made
            BY <3>1 DEF NewDrill, NoDrill
          <5> QED BY <5>1
        <4>2. Trained(a, e) = Trained(b, e)
          BY <2>2, <3>1, <3>4, <4>1, TrainedIs
        <4> QED BY <1>2, <2>3, <3>2, <4>2 DEF Near, Shape
      <3> QED BY <3>3, <3>4
    <2> QED BY <2>4, <2>5, <2>6
  <1>3. CASE k[1] \in {"job", "line"}
    <2>1. e.type \in {"AnalysisJobStateChanged"} \cup LineTypes
      BY <1>3 DEF Fits
    <2>2. \A x : Effect(x, e) = e.value
      BY <2>1 DEF Effect, Ignores, LineTypes
    <2> QED BY <1>3, <2>2 DEF Near, Shape
  <1> QED BY <1>1, <1>2, <1>3 DEF Fits

\* And so does a record that compaction may drop on one side.
LEMMA DroppedRecord ==
    ASSUME NEW k \in Keys, NEW e, e.key = k, Fits(e), ReplacedBy(e) # {}, NEW a, Shape(k, a), NEW b, Near(k, a, b)
    PROVE  Near(k, Effect(a, e), b) /\ Shape(k, Effect(a, e))
  <1>1. CASE k[1] = "status"
    <2>1. e.type \in {"GameImported", "ShallowAnalysisCompleted", "AnalysisCompleted"}
      BY <1>1 DEF Fits
    <2>2. e.type = "ShallowAnalysisCompleted"
      BY <2>1 DEF ReplacedBy, LineTypes, LastOnly
    <2>3. Effect(a, e) = IF a \in {"absent", "complete"} THEN a ELSE e.value
      BY <2>2 DEF Effect, Ignores
    <2>4. CASE a \in {"absent", "complete"}
      <3>1. Effect(a, e) = a
        BY <2>3, <2>4
      <3> QED BY <1>1, <3>1 DEF Shape
    <2>5. CASE a \notin {"absent", "complete"}
      <3>1. Effect(a, e) = "shallow" /\ b \notin {"absent", "complete"}
        BY <1>1, <2>2, <2>3, <2>5 DEF Near, Fits
      <3> QED BY <1>1, <3>1 DEF Near, Shape
    <2> QED BY <2>4, <2>5
  <1>2. CASE k[1] = "drills"
    <2>1. e.type \in {"DrillCreated", "DrillAttempted", "DrillSessionUpdated"}
      BY <1>2 DEF Fits
    <2>2. e.type = "DrillSessionUpdated"
      BY <2>1 DEF ReplacedBy, LineTypes, LastOnly
    <2>3. IsDrill(a)
      BY <1>2 DEF Shape
    <2>4. IsDrill(Effect(a, e))
      BY <2>1, <2>2, <2>3, DrillEffect
    <2>5. CASE ~a.made
      <3>1. Effect(a, e) = a
        BY <2>1, <2>2, <2>3, <2>5, DrillEffect
      <3> QED BY <1>2, <2>4, <3>1 DEF Shape
    <2>6. CASE a.made
      <3>1. Effect(a, e) = Trained(a, e)
        BY <2>1, <2>2, <2>3, <2>6, DrillEffect
      <3>2. Trained(a, e) = [made |-> a.made, tries |-> a.tries, hint |-> e.value.hint, since |-> e.value.since]
        BY <2>2, <2>3, TrainedIs
      <3>3. Effect(a, e).made /\ Effect(a, e).tries = a.tries
        <4>1. PICK m, t, h, s : m = a.made /\ t = a.tries /\ h = e.value.hint /\ s = e.value.since
          OBVIOUS
        <4>2. Effect(a, e) = [made |-> m, tries |-> t, hint |-> h, since |-> s]
          BY <3>1, <3>2, <4>1
        <4> QED BY <2>6, <4>1, <4>2
      <3>4. b.made /\ b.tries = a.tries
        BY <1>2, <2>6 DEF Near
      <3> QED BY <1>2, <2>4, <3>3, <3>4 DEF Near, Shape
    <2> QED BY <2>5, <2>6
  <1>3. CASE k[1] \in {"job", "line"}
    BY <1>3 DEF Near, Shape
  <1> QED BY <1>1, <1>2, <1>3 DEF Fits

\* What may be dropped closes, and what replaces it does.
LEMMA DropsClose ==
    ASSUME NEW k \in Keys, NEW e, e.key = k, Fits(e)
    PROVE  /\ e.type # "LogCompacted" /\ ReplacedBy(e) \subseteq Closers(k)
           /\ ReplacedBy(e) # {} => e.type \in Closers(k)
  BY DEF Fits, ReplacedBy, LineTypes, LastOnly, Closers

\* How many of some numbers are at most n.
Ranked(K, l) ==
    /\ IsFiniteSet(K) /\ Cardinality(Below(K, 1)) = 0 /\ Below(K, l + 1) = K
    /\ \A n \in 1 .. l + 1 : IsFiniteSet(Below(K, n)) /\ Cardinality(Below(K, n)) \in Nat
    /\ \A n \in 1 .. l : n \notin K => Below(K, n + 1) = Below(K, n)
    /\ \A n \in 1 .. l : n \in K => Cardinality(Below(K, n + 1)) = Cardinality(Below(K, n)) + 1
LEMMA RankSteps ==
    ASSUME NEW l \in Nat, NEW K, K \subseteq 1 .. l
    PROVE  Ranked(K, l)
  <1>7. \A j \in K : j \in Int /\ 1 <= j /\ j <= l
    OBVIOUS
  <1>8. \A i, j : j \in Below(K, i) <=> j \in K /\ j < i
    BY DEF Below
  <1>1. IsFiniteSet(K)
    <2>1. IsFiniteSet(1 .. l) /\ K \in SUBSET (1 .. l)
      BY FS_Interval
    <2> QED BY <2>1, FS_Subset
  <1>2. Below(K, 1) = {}
    <2>1. \A j \in K : ~(j < 1)
      BY <1>7
    <2>2. \A j : j \notin Below(K, 1)
      BY <1>8, <2>1
    <2> QED BY <2>2
  <1>3. Below(K, l + 1) = K
    <2>1. \A j \in K : j < l + 1
      BY <1>7
    <2> QED BY <1>8, <2>1
  <1>4. ASSUME NEW n \in 1 .. l + 1 PROVE IsFiniteSet(Below(K, n)) /\ Cardinality(Below(K, n)) \in Nat
    <2>1. Below(K, n) \in SUBSET K
      BY DEF Below
    <2> QED BY <1>1, <2>1, FS_Subset, FS_CardinalityType
  <1>5. ASSUME NEW n \in 1 .. l, n \notin K PROVE Below(K, n + 1) = Below(K, n)
    <2>1. \A j \in K : j # n
      BY <1>5
    <2>2. \A j \in K : j < n + 1 <=> j < n
      BY <1>7, <2>1
    <2>3. \A j : j \in Below(K, n + 1) <=> j \in Below(K, n)
      BY <1>8, <2>2
    <2> QED BY <2>3
  <1>6. ASSUME NEW n \in 1 .. l, n \in K PROVE Cardinality(Below(K, n + 1)) = Cardinality(Below(K, n)) + 1
    <2>1. Below(K, n + 1) = Below(K, n) \cup {n} /\ n \notin Below(K, n)
      <3>1. \A j \in K : j < n + 1 <=> j < n \/ j = n
        BY <1>7
      <3>2. ~(n < n)
        OBVIOUS
      <3> QED BY <1>6, <1>8, <3>1, <3>2
    <2>2. IsFiniteSet(Below(K, n))
      BY <1>4
    <2> QED BY <2>1, <2>2, FS_AddElement
  <1> QED BY <1>1, <1>2, <1>3, <1>4, <1>5, <1>6, FS_EmptySet DEF Ranked

\* The place of a record that is kept.
LEMMA RetainedAt ==
    ASSUME NEW es, IsSeq(es)
    PROVE  /\ Len(Retained(es)) = Cardinality(Kept(es))
           /\ \A n \in Kept(es), m \in Nat : m = Cardinality(Below(Kept(es), n)) + 1 =>
                 m \in 1 .. Cardinality(Kept(es)) /\ Retained(es)[m] = es[n]
  <1>1. PICK l \in Nat : l = Len(es) /\ DOMAIN es = 1 .. l
    BY DEF IsSeq
  <1>2. PICK K : K = Kept(es)
    OBVIOUS
  <1>3. K \subseteq 1 .. l
    BY <1>1, <1>2 DEF Kept
  <1>0. Ranked(K, l)
    BY <1>3, RankSteps
  <1>4. PICK c \in Nat : c = Cardinality(K)
    BY <1>0, FS_CardinalityType DEF Ranked
  <1> DEFINE At(m) == CHOOSE i \in K : Cardinality(Below(K, i)) = m - 1
  <1>5. PICK r : r = Retained(es)
    OBVIOUS
  <1>6. r = [m \in 1 .. c |-> es[At(m)]]
    BY <1>2, <1>4, <1>5 DEF Retained, Below
  <1>7. ASSUME NEW i \in K, NEW j \in K, i < j
        PROVE  Cardinality(Below(K, i)) # Cardinality(Below(K, j))
    <2>1. i \in 1 .. l /\ j \in 1 .. l /\ i + 1 \in 1 .. l + 1
      BY <1>3
    <2>2. Below(K, i + 1) \subseteq Below(K, j)
      <3>1. \A x \in K : x < i + 1 => x < j
        BY <1>3, <1>7, <2>1
      <3> QED BY <3>1 DEF Below
    <2>6. i \in 1 .. l + 1 /\ j \in 1 .. l + 1
      BY <2>1
    <2>3. IsFiniteSet(Below(K, j)) /\ Cardinality(Below(K, j)) \in Nat /\ Cardinality(Below(K, i)) \in Nat
      BY <1>0, <2>6 DEF Ranked
    <2>4. Cardinality(Below(K, i + 1)) <= Cardinality(Below(K, j))
      BY <2>2, <2>3, FS_Subset
    <2>5. Cardinality(Below(K, i + 1)) = Cardinality(Below(K, i)) + 1
      BY <1>0, <2>1 DEF Ranked
    <2> QED BY <2>3, <2>4, <2>5
  <1>8. ASSUME NEW n \in K, NEW m \in Nat, m = Cardinality(Below(K, n)) + 1
        PROVE  m \in 1 .. c /\ r[m] = es[n]
    <2>1. n \in 1 .. l /\ n + 1 \in 1 .. l + 1 /\ l + 1 \in 1 .. l + 1
      BY <1>3
    <2>2. Cardinality(Below(K, n)) \in Nat /\ m - 1 = Cardinality(Below(K, n))
      <3>1. n \in 1 .. l + 1
        BY <2>1
      <3>2. Cardinality(Below(K, n)) \in Nat
        BY <1>0, <3>1 DEF Ranked
      <3> QED BY <1>8, <3>2
    <2>3. m \in 1 .. c
      <3>5. Cardinality(Below(K, n + 1)) = Cardinality(Below(K, n)) + 1
        BY <1>0, <2>1 DEF Ranked
      <3>1. Cardinality(Below(K, n + 1)) = m
        BY <1>8, <3>5
      <3>2. Below(K, n + 1) \subseteq K
        BY DEF Below
      <3>3. IsFiniteSet(K)
        BY <1>0 DEF Ranked
      <3>4. m <= c
        BY <1>4, <3>1, <3>2, <3>3, FS_Subset
      <3> QED BY <1>8, <2>2, <3>4
    <2>4. At(m) \in K /\ Cardinality(Below(K, At(m))) = m - 1
      BY <2>2
    <2>5. PICK i \in K : i = At(m)
      BY <2>4
    <2>6. Cardinality(Below(K, i)) = Cardinality(Below(K, n))
      BY <2>2, <2>4, <2>5
    <2>7. i = n
      <3>1. i \in Int /\ n \in Int
        BY <1>3
      <3>2. ~(i < n) /\ ~(n < i)
        BY <1>7, <2>6
      <3> QED BY <3>1, <3>2
    <2> HIDE DEF At
    <2>8. r[m] = es[At(m)]
      BY <1>6, <2>3
    <2> QED BY <2>3, <2>5, <2>7, <2>8
  <1>9. Len(r) = c
    <2> DEFINE S == {r[m] : m \in 1 .. c}
    <2> HIDE DEF At
    <2>1. DOMAIN r = 1 .. c /\ r = [m \in DOMAIN r |-> r[m]]
      BY <1>6
    <2>2. r \in [1 .. c -> S]
      BY <2>1
    <2> HIDE DEF S
    <2>3. r \in Seq(S)
      BY <2>2, SeqDef
    <2> QED BY <2>1, <2>3, LenProperties
  <1> QED BY <1>2, <1>4, <1>5, <1>8, <1>9

\* The projections after what is kept of the first n records.
LEMMA RetainedRun ==
    ASSUME NEW es, IsSeq(es), NEW v, IsView(v), NEW w
    PROVE  \E g : /\ g[0] = v
                  /\ \A n \in 1 .. Len(es), k \in Keys :
                        g[n][k] = IF n \in Kept(es) THEN Step(g[n - 1][k], es[n], k, w) ELSE g[n - 1][k]
                  /\ g[Len(es)] = Applying(v, Retained(es), w)[Len(Retained(es))]
  <1>1. PICK l \in Nat : l = Len(es) /\ DOMAIN es = 1 .. l
    BY DEF IsSeq
  <1>2. PICK K : K = Kept(es)
    OBVIOUS
  <1>3. K \subseteq 1 .. l
    BY <1>1, <1>2 DEF Kept
  <1>0. Ranked(K, l)
    BY <1>3, RankSteps
  <1>4. PICK R : R = Retained(es) /\ IsSeq(R)
    BY RetainedDrawn
  <1>5. /\ Len(R) = Cardinality(K) /\ Cardinality(K) \in Nat
        /\ \A n \in K, m \in Nat : m = Cardinality(Below(K, n)) + 1 =>
              m \in 1 .. Len(R) /\ R[m] = es[n]
    BY <1>0, <1>2, <1>4, RetainedAt, FS_CardinalityType DEF Ranked
  <1>6. PICK a : a = Applying(v, R, w)
    OBVIOUS
  <1>7. /\ a[0] = v
        /\ \A n \in 1 .. Len(R), k \in Keys : a[n][k] = Step(a[n - 1][k], R[n], k, w)
    BY <1>4, <1>6, ApplyingAt
  <1> DEFINE g == [n \in 0 .. l |-> a[Cardinality(Below(K, n + 1))]]
  <1>8. g[0] = v
    <2>1. 0 \in 0 .. l /\ 0 + 1 = 1
      OBVIOUS
    <2>2. Cardinality(Below(K, 1)) = 0
      BY <1>0 DEF Ranked
    <2> QED BY <1>7, <2>1, <2>2
  <1>9. g[l] = a[Len(R)]
    <2>1. l \in 0 .. l /\ Below(K, l + 1) = K
      <3>1. Below(K, l + 1) = K
        BY <1>0 DEF Ranked
      <3> QED BY <3>1
    <2> QED BY <1>5, <2>1
  <1>12. /\ \A n \in 1 .. l : n \notin K => Below(K, n + 1) = Below(K, n)
         /\ \A n \in 1 .. l : n \in K => Cardinality(Below(K, n + 1)) = Cardinality(Below(K, n)) + 1
    BY <1>0 DEF Ranked
  <1>10. ASSUME NEW n \in 1 .. l, NEW k \in Keys
         PROVE  g[n][k] = IF n \in K THEN Step(g[n - 1][k], es[n], k, w) ELSE g[n - 1][k]
    <2>1. n \in 0 .. l /\ n - 1 \in 0 .. l /\ (n - 1) + 1 = n
      OBVIOUS
    <2>2. g[n] = a[Cardinality(Below(K, n + 1))] /\ g[n - 1] = a[Cardinality(Below(K, n))]
      BY <2>1
    <2> HIDE DEF g
    <2>3. CASE n \notin K
      <3>1. Below(K, n + 1) = Below(K, n)
        BY <1>12, <2>3
      <3> QED BY <2>2, <2>3, <3>1
    <2>4. CASE n \in K
      <3>1. PICK p \in Nat : p = Cardinality(Below(K, n))
        <4>1. n \in 1 .. l + 1
          OBVIOUS
        <4> QED BY <1>0, <4>1 DEF Ranked
      <3>2. PICK m \in Nat : m = p + 1 /\ m - 1 = p
        OBVIOUS
      <3>3. Cardinality(Below(K, n + 1)) = m
        BY <1>12, <2>4, <3>1, <3>2
      <3>4. m \in 1 .. Len(R) /\ R[m] = es[n]
        BY <1>5, <2>4, <3>1, <3>2
      <3>5. a[m][k] = Step(a[m - 1][k], R[m], k, w)
        BY <1>7, <3>4
      <3> QED BY <2>2, <2>4, <3>1, <3>2, <3>3, <3>4, <3>5
    <2> QED BY <2>3, <2>4
  <1> HIDE DEF g
  <1>11. /\ g[0] = v
         /\ \A n \in 1 .. Len(es), k \in Keys :
               g[n][k] = IF n \in Kept(es) THEN Step(g[n - 1][k], es[n], k, w) ELSE g[n - 1][k]
         /\ g[Len(es)] = Applying(v, Retained(es), w)[Len(Retained(es))]
    BY <1>1, <1>2, <1>4, <1>6, <1>8, <1>9, <1>10
  <1> QED BY <1>11

\* The same records have the same effect on the same projection.
SameFrom(a, i, b, j, m) ==
    /\ i + m <= Len(a) /\ j + m <= Len(b)
    /\ \A n \in 1 .. m : a[i + n] = b[j + n]
LEMMA ApplyingSame ==
    ASSUME NEW a, IsSeq(a), NEW b, IsSeq(b), NEW v, NEW u, NEW w,
           NEW i \in Nat, NEW j \in Nat, NEW m \in Nat, SameFrom(a, i, b, j, m),
           Applying(v, a, w)[i] = Applying(u, b, w)[j]
    PROVE  \A n \in 0 .. m : Applying(v, a, w)[i + n] = Applying(u, b, w)[j + n]
  <1>1. PICK p \in Nat, q \in Nat : p = Len(a) /\ q = Len(b)
    BY DEF IsSeq
  <1>2. PICK f, g : f = Applying(v, a, w) /\ g = Applying(u, b, w)
    OBVIOUS
  <1> DEFINE Go(x, e) == IF Skipped(e, w) THEN x ELSE Apply(x, e)
  <1>3. \A n \in 1 .. p : f[n] = Go(f[n - 1], a[n])
    <2>1. f = [n \in 0 .. p |-> IF n = 0 THEN v ELSE IF Skipped(a[n], w) THEN f[n - 1] ELSE Apply(f[n - 1], a[n])]
      BY <1>1, <1>2, ApplyingIs
    <2> QED BY <2>1
  <1>4. \A n \in 1 .. q : g[n] = Go(g[n - 1], b[n])
    <2>1. g = [n \in 0 .. q |-> IF n = 0 THEN u ELSE IF Skipped(b[n], w) THEN g[n - 1] ELSE Apply(g[n - 1], b[n])]
      BY <1>1, <1>2, ApplyingIs
    <2> QED BY <2>1
  <1> HIDE DEF Go
  <1>5. /\ i + m <= p /\ j + m <= q /\ f[i] = g[j]
        /\ \A n \in 1 .. m : a[i + n] = b[j + n]
    BY <1>1, <1>2 DEF SameFrom
  <1> DEFINE Bad == {n \in 0 .. m : f[i + n] # g[j + n]}
  <1>6. Bad = {}
    <2> SUFFICES ASSUME Bad # {} PROVE FALSE
      OBVIOUS
    <2>1. PICK n \in Bad : \A y \in Bad : n <= y
      <3>1. Bad \subseteq Nat
        OBVIOUS
      <3> QED BY <3>1, LeastOfNats
    <2>2. n \in 0 .. m /\ f[i + n] # g[j + n]
      BY <2>1
    <2>3. n # 0
      <3>1. n = 0 => i + n = i /\ j + n = j
        BY <1>5
      <3> QED BY <1>5, <2>2, <3>1
    <2>4. PICK k \in 0 .. m : k = n - 1
      BY <2>2, <2>3
    <2>5. f[i + k] = g[j + k]
      <3>1. ~(n <= k)
        BY <2>2, <2>4
      <3> QED BY <2>1, <3>1
    <2>6. PICK x \in 1 .. p, y \in 1 .. q : x = i + n /\ y = j + n /\ x - 1 = i + k /\ y - 1 = j + k
      <3>1. i + n \in 1 .. p /\ j + n \in 1 .. q /\ (i + n) - 1 = i + k /\ (j + n) - 1 = j + k
        BY <1>5, <2>2, <2>3, <2>4
      <3> QED BY <3>1
    <2>7. a[x] = b[y]
      <3>1. n \in 1 .. m
        BY <2>2, <2>3
      <3> QED BY <1>5, <2>6, <3>1
    <2>8. f[x] = Go(f[x - 1], a[x]) /\ g[y] = Go(g[y - 1], b[y])
      BY <1>3, <1>4
    <2> QED BY <2>2, <2>5, <2>6, <2>7, <2>8
  <1> QED BY <1>2, <1>6

\* So what is appended has its effect after what was there.
LEMMA ApplyingBoth ==
    ASSUME NEW E, IsSeq(E), NEW es, IsSeq(es), NEW v, NEW w
    PROVE  /\ \A n \in 0 .. Len(E) : Applying(v, E \o es, w)[n] = Applying(v, E, w)[n]
           /\ \A n \in 0 .. Len(es) :
                 Applying(v, E \o es, w)[Len(E) + n] = Applying(Applying(v, E, w)[Len(E)], es, w)[n]
  <1>1. PICK l \in Nat, m \in Nat : l = Len(E) /\ m = Len(es)
    BY DEF IsSeq
  <1>2. PICK a : a = E \o es
    OBVIOUS
  <1>3. /\ IsSeq(a) /\ Len(a) = l + m
        /\ \A i \in 1 .. l : a[i] = E[i]
        /\ \A i \in 1 .. m : a[l + i] = es[i]
    BY <1>1, <1>2, Both
  <1>4. \A x, z : IsSeq(x) => Applying(z, x, w)[0] = z
    <2> SUFFICES ASSUME NEW x, NEW z, IsSeq(x) PROVE Applying(z, x, w)[0] = z
      OBVIOUS
    <2>1. 0 \in 0 .. Len(x)
      BY DEF IsSeq
    <2>2. PICK f : f = Applying(z, x, w)
      OBVIOUS
    <2>3. f = [n \in 0 .. Len(x) |-> IF n = 0 THEN z ELSE IF Skipped(x[n], w) THEN f[n - 1] ELSE Apply(f[n - 1], x[n])]
      BY <2>2, ApplyingIs
    <2> QED BY <2>1, <2>2, <2>3
  <1>5. ASSUME NEW n \in 0 .. l PROVE Applying(v, a, w)[n] = Applying(v, E, w)[n]
    <2>1. PICK i \in Nat, j \in Nat : i = 0 /\ j = 0
      OBVIOUS
    <2>2. i + l <= Len(a) /\ j + l <= Len(E) /\ \A x \in 1 .. l : i + x = x /\ j + x = x
      BY <1>1, <1>3, <2>1
    <2>3. Applying(v, a, w)[i] = Applying(v, E, w)[j]
      BY <1>3, <1>4, <2>1
    <2>4. SameFrom(a, i, E, j, l)
      BY <1>3, <2>2 DEF SameFrom
    <2>5. \A x \in 0 .. l : Applying(v, a, w)[i + x] = Applying(v, E, w)[j + x]
      BY <1>3, <2>3, <2>4, ApplyingSame
    <2>6. i + n = n /\ j + n = n
      BY <2>1
    <2> QED BY <2>5, <2>6
  <1>6. ASSUME NEW n \in 0 .. m
        PROVE  Applying(v, a, w)[l + n] = Applying(Applying(v, E, w)[l], es, w)[n]
    <2>0. PICK u : u = Applying(v, E, w)[l]
      OBVIOUS
    <2>1. PICK i \in Nat, j \in Nat : i = l /\ j = 0
      OBVIOUS
    <2>2. i + m <= Len(a) /\ j + m <= Len(es) /\ \A x \in 1 .. m : i + x = l + x /\ j + x = x
      BY <1>1, <1>3, <2>1
    <2>3. Applying(v, a, w)[i] = Applying(u, es, w)[j]
      <3>1. l \in 0 .. l
        OBVIOUS
      <3>2. Applying(v, a, w)[l] = u
        BY <1>5, <2>0, <3>1
      <3> QED BY <1>4, <2>1, <3>2
    <2>4. SameFrom(a, i, es, j, m)
      BY <1>3, <2>2 DEF SameFrom
    <2>5. \A x \in 0 .. m : Applying(v, a, w)[i + x] = Applying(u, es, w)[j + x]
      BY <1>3, <2>3, <2>4, ApplyingSame
    <2>6. i + n = l + n /\ j + n = n
      BY <2>1
    <2> QED BY <2>0, <2>5, <2>6
  <1> QED BY <1>1, <1>2, <1>5, <1>6

\* A record of the log itself has no effect.
LEMMA NoKey ==
    <<>> \notin Keys
  <1>1. \A k \in Keys : \E x, y : k = <<x, y>>
    BY DEF Keys
  <1>2. \A x, y : <<x, y>> # <<>>
    OBVIOUS
  <1> QED BY <1>1, <1>2

\* Two runs of a key, of which the second may leave out what the records kept do not need,
\* stay near each other, ...
Runs(A, B, es, K, k, w) ==
    /\ A[0] = B[0] /\ Shape(k, A[0])
    /\ \A n \in 1 .. Len(es) :
         /\ A[n] = Step(A[n - 1], es[n], k, w)
         /\ B[n] = IF n \in K THEN Step(B[n - 1], es[n], k, w) ELSE B[n - 1]
NearBy(k, a, b) == Near(k, a, b) /\ Shape(k, a) /\ Shape(k, b)
LEMMA StayNear ==
    ASSUME NEW es, IsSeq(es), \A i \in 1 .. Len(es) : Fits(es[i]), NEW k \in Keys, NEW w,
           NEW A, NEW B, Runs(A, B, es, Kept(es), k, w)
    PROVE  \A n \in 0 .. Len(es) : NearBy(k, A[n], B[n])
  <1>1. PICK l \in Nat : l = Len(es) /\ DOMAIN es = 1 .. l
    BY DEF IsSeq
  <1> DEFINE Bad == {n \in 0 .. l : ~NearBy(k, A[n], B[n])}
  <1>2. Bad = {}
    <2> SUFFICES ASSUME Bad # {} PROVE FALSE
      OBVIOUS
    <2>1. PICK n \in Bad : \A y \in Bad : n <= y
      <3>1. Bad \subseteq Nat
        OBVIOUS
      <3> QED BY <3>1, LeastOfNats
    <2>2. n \in 0 .. l /\ ~NearBy(k, A[n], B[n])
      BY <2>1
    <2>3. n # 0
      BY <2>2 DEF Runs, NearBy, Near
    <2>4. n \in 1 .. l /\ n - 1 \in 0 .. l /\ ~(n <= n - 1)
      BY <2>2, <2>3
    <2>5. PICK a, b : a = A[n - 1] /\ b = B[n - 1]
      OBVIOUS
    <2>6. NearBy(k, a, b)
      BY <2>1, <2>4, <2>5
    <2>7. PICK e : e = es[n]
      OBVIOUS
    <2>8. Fits(e) /\ A[n] = Step(a, e, k, w) /\ B[n] = IF n \in Kept(es) THEN Step(b, e, k, w) ELSE b
      BY <1>1, <2>4, <2>5, <2>7 DEF Runs
    <2>9. CASE ~(Touches(e, k) /\ ~Skipped(e, w))
      BY <2>2, <2>6, <2>8, <2>9 DEF Step
    <2>10. CASE Touches(e, k) /\ ~Skipped(e, w)
      <3>1. e.key = k /\ A[n] = Effect(a, e) /\ B[n] = IF n \in Kept(es) THEN Effect(b, e) ELSE b
        BY <2>8, <2>10 DEF Step, Touches
      <3>2. CASE n \in Kept(es)
        <4>1. NearBy(k, Effect(a, e), Effect(b, e))
          BY <2>6, <2>8, <3>1, SameRecord DEF NearBy
        <4> QED BY <2>2, <3>1, <3>2, <4>1
      <3>3. CASE n \notin Kept(es)
        <4>1. e.type # "LogCompacted"
          BY <2>8, <3>1, DropsClose
        <4>2. ReplacedBy(e) # {}
          BY <1>1, <2>4, <2>7, <3>3, <4>1 DEF Kept, Keeps
        <4>3. NearBy(k, Effect(a, e), b)
          BY <2>6, <2>8, <3>1, <4>2, DroppedRecord DEF NearBy
        <4> QED BY <2>2, <3>1, <3>3, <4>3
      <3> QED BY <3>2, <3>3
    <2> QED BY <2>9, <2>10
  <1> QED BY <1>1, <1>2

\* ... and once nothing more is left out they stay equal.
LEMMA StayEqual ==
    ASSUME NEW es, IsSeq(es), NEW K, NEW k, NEW w, NEW A, NEW B, Runs(A, B, es, K, k, w),
           NEW m \in 0 .. Len(es), A[m] = B[m],
           \A n \in m + 1 .. Len(es) : Touches(es[n], k) /\ ~Skipped(es[n], w) => n \in K
    PROVE  A[Len(es)] = B[Len(es)]
  <1>1. PICK l \in Nat : l = Len(es) /\ m \in 0 .. l
    BY DEF IsSeq
  <1> DEFINE Bad == {n \in m .. l : A[n] # B[n]}
  <1>2. Bad = {}
    <2> SUFFICES ASSUME Bad # {} PROVE FALSE
      OBVIOUS
    <2>1. PICK n \in Bad : \A y \in Bad : n <= y
      <3>1. Bad \subseteq Nat
        BY <1>1
      <3> QED BY <3>1, LeastOfNats
    <2>2. n \in m .. l /\ A[n] # B[n] /\ n # m
      BY <2>1
    <2>3. n \in 1 .. l /\ n - 1 \in m .. l /\ ~(n <= n - 1) /\ n \in m + 1 .. l
      BY <1>1, <2>2
    <2>4. A[n - 1] = B[n - 1]
      BY <2>1, <2>3
    <2>5. /\ A[n] = Step(A[n - 1], es[n], k, w)
          /\ B[n] = IF n \in K THEN Step(B[n - 1], es[n], k, w) ELSE B[n - 1]
      BY <1>1, <2>3 DEF Runs
    <2>6. n \notin K => ~(Touches(es[n], k) /\ ~Skipped(es[n], w))
      BY <1>1, <2>3
    <2> QED BY <2>2, <2>4, <2>5, <2>6 DEF Step
  <1>3. l \in m .. l
    BY <1>1
  <1> QED BY <1>1, <1>2, <1>3

\* The last record of the key that replaces others is kept, and makes them equal.
LEMMA KeptSame ==
    ASSUME NEW es, Split(es), \A i \in 1 .. Len(es) : Fits(es[i]), NEW k \in Keys, NEW w \in Nat,
           NEW A, NEW B, Runs(A, B, es, Kept(es), k, w)
    PROVE  A[Len(es)] = B[Len(es)]
  <1>0. IsSeq(es)
    BY DEF Split
  <1>1. PICK l \in Nat : l = Len(es) /\ DOMAIN es = 1 .. l
    BY <1>0 DEF IsSeq
  <1> DEFINE Acts(n) == Touches(es[n], k) /\ ~Skipped(es[n], w)
             M == {n \in 1 .. l : Acts(n) /\ es[n].type \in Closers(k)}
  <1>2. ASSUME NEW i \in 1 .. l, Acts(i), NEW j \in 1 .. l, i < j, es[j].key = k
        PROVE  Acts(j)
    <2>1. es[i].id <= es[j].id /\ es[i].id \in Nat /\ es[j].id \in Nat
      BY <1>1, <1>2 DEF Split
    <2>2. es[i].id > w \/ IsLine(k)
      BY <1>2, <2>1 DEF Skipped, Touches
    <2>3. es[j].id > w \/ IsLine(k)
      BY <2>1, <2>2
    <2> QED BY <1>2, <2>1, <2>3 DEF Skipped, Touches
  <1>3. ASSUME NEW n \in 1 .. l, Acts(n), n \notin Kept(es)
        PROVE  n \in M /\ \E j \in n + 1 .. l : es[j].type \in Closers(k) /\ es[j].key = k
    <2>1. es[n].key = k /\ Fits(es[n])
      BY <1>1, <1>3 DEF Touches
    <2>2. es[n].type # "LogCompacted" /\ ReplacedBy(es[n]) \subseteq Closers(k)
          /\ (ReplacedBy(es[n]) # {} => es[n].type \in Closers(k))
      BY <2>1, DropsClose
    <2>3. PICK j \in n + 1 .. l : es[j].type \in ReplacedBy(es[n]) /\ es[j].key = es[n].key
      BY <1>1, <1>3, <2>2 DEF Kept, Keeps
    <2> QED BY <1>3, <2>1, <2>2, <2>3
  <1>4. CASE M = {}
    <2>1. \A n \in 1 .. l : Acts(n) => n \in Kept(es)
      BY <1>3, <1>4
    <2>2. PICK m \in 0 .. Len(es) : m = 0 /\ m + 1 = 1
      BY <1>1
    <2>3. A[m] = B[m]
      BY <2>2 DEF Runs
    <2> QED BY <1>0, <1>1, <2>1, <2>2, <2>3, StayEqual
  <1>5. CASE M # {}
    <2>1. PICK m \in M : \A y \in M : y <= m
      <3>1. M \subseteq 0 .. l
        OBVIOUS
      <3> QED BY <1>5, <3>1, GreatestOfBounded
    <2>2. m \in 1 .. l /\ Acts(m) /\ es[m].type \in Closers(k)
      BY <2>1
    <2>3. m \in Kept(es)
      <3> SUFFICES ASSUME m \notin Kept(es) PROVE FALSE
        OBVIOUS
      <3>1. PICK j \in m + 1 .. l : es[j].type \in Closers(k) /\ es[j].key = k
        BY <1>3, <2>2
      <3>2. j \in 1 .. l /\ m < j /\ ~(j <= m)
        BY <2>2
      <3>3. Acts(j)
        BY <1>2, <2>2, <3>1, <3>2
      <3> QED BY <2>1, <3>1, <3>2, <3>3
    <2>4. A[m] = B[m]
      <3>1. m - 1 \in 0 .. Len(es) /\ m \in 1 .. Len(es)
        BY <1>1, <2>2
      <3>2. NearBy(k, A[m - 1], B[m - 1])
        BY <1>0, <3>1, StayNear
      <3>3. A[m] = Step(A[m - 1], es[m], k, w) /\ B[m] = Step(B[m - 1], es[m], k, w)
        BY <2>3, <3>1 DEF Runs
      <3>4. A[m] = Effect(A[m - 1], es[m]) /\ B[m] = Effect(B[m - 1], es[m]) /\ es[m].key = k
        BY <2>2, <3>3 DEF Step, Touches
      <3>5. Fits(es[m])
        BY <3>1
      <3>6. PICK a, b : a = A[m - 1] /\ b = B[m - 1]
        OBVIOUS
      <3>7. Near(k, a, b) /\ Shape(k, a) /\ Shape(k, b)
        BY <3>2, <3>6 DEF NearBy
      <3>8. Effect(a, es[m]) = Effect(b, es[m])
        BY <2>2, <3>4, <3>5, <3>7, SameRecord
      <3> QED BY <3>4, <3>6, <3>8
    <2>5. \A n \in m + 1 .. l : Acts(n) => n \in Kept(es)
      <3> SUFFICES ASSUME NEW n \in m + 1 .. l, Acts(n), n \notin Kept(es) PROVE FALSE
        OBVIOUS
      <3>1. n \in 1 .. l /\ ~(n <= m)
        BY <2>2
      <3>2. n \in M
        BY <1>3, <3>1
      <3> QED BY <2>1, <3>1, <3>2
    <2>6. m \in 0 .. Len(es)
      BY <1>1, <2>2
    <2> QED BY <1>0, <1>1, <2>4, <2>5, <2>6, StayEqual
  <1> QED BY <1>4, <1>5

\* The same projection from what is kept, ...
Shaped(v) == IsView(v) /\ \A k \in Keys : Shape(k, v[k])
LEMMA RetainedSame ==
    ASSUME NEW es, Split(es), \A i \in 1 .. Len(es) : Fits(es[i]), NEW v, Shaped(v), NEW w \in Nat
    PROVE  Applying(v, es, w)[Len(es)] = Applying(v, Retained(es), w)[Len(Retained(es))]
  <1>1. IsSeq(es) /\ IsView(v)
    BY DEF Split, Shaped
  <1>2. PICK l \in Nat : l = Len(es)
    BY <1>1 DEF IsSeq
  <1>3. PICK f : f = Applying(v, es, w)
    OBVIOUS
  <1>4. PICK g : /\ g[0] = v
                 /\ \A n \in 1 .. l, k \in Keys :
                       g[n][k] = IF n \in Kept(es) THEN Step(g[n - 1][k], es[n], k, w) ELSE g[n - 1][k]
                 /\ g[l] = Applying(v, Retained(es), w)[Len(Retained(es))]
    BY <1>1, <1>2, RetainedRun
  <1>5. /\ f[0] = v /\ IsView(f[l])
        /\ \A n \in 1 .. l, k \in Keys : f[n][k] = Step(f[n - 1][k], es[n], k, w)
    <2>1. l \in 0 .. l
      OBVIOUS
    <2> QED BY <1>1, <1>2, <1>3, <2>1, ApplyingAt
  <1>6. IsView(g[l])
    <2>1. PICK R : R = Retained(es) /\ IsSeq(R)
      BY <1>1, RetainedDrawn
    <2>2. Len(R) \in 0 .. Len(R)
      BY <2>1 DEF IsSeq
    <2>3. IsView(Applying(v, R, w)[Len(R)])
      BY <1>1, <2>1, <2>2, ApplyingAt
    <2> QED BY <1>4, <2>1, <2>3
  <1>7. ASSUME NEW k \in Keys PROVE f[l][k] = g[l][k]
    <2> DEFINE A == [n \in 0 .. l |-> f[n][k]]
               B == [n \in 0 .. l |-> g[n][k]]
    <2>1. \A n \in 1 .. l : n \in 0 .. l /\ n - 1 \in 0 .. l
      OBVIOUS
    <2>2. 0 \in 0 .. l /\ l \in 0 .. l
      OBVIOUS
    <2>3. \A n \in 0 .. l : A[n] = f[n][k] /\ B[n] = g[n][k]
      OBVIOUS
    <2> HIDE DEF A, B
    <2>4. A[0] = B[0] /\ Shape(k, A[0])
      BY <1>4, <1>5, <2>2, <2>3 DEF Shaped
    <2>5. \A n \in 1 .. l : /\ A[n] = Step(A[n - 1], es[n], k, w)
                            /\ B[n] = IF n \in Kept(es) THEN Step(B[n - 1], es[n], k, w) ELSE B[n - 1]
      BY <1>4, <1>5, <2>1, <2>3
    <2>6. Runs(A, B, es, Kept(es), k, w)
      BY <1>2, <2>4, <2>5 DEF Runs
    <2>7. A[l] = B[l]
      <3>1. A[Len(es)] = B[Len(es)]
        BY <2>6, KeptSame
      <3> QED BY <1>2, <3>1
    <2> QED BY <2>2, <2>3, <2>7
  <1>8. f[l] = g[l]
    BY <1>5, <1>6, <1>7 DEF IsView
  <1> QED BY <1>2, <1>3, <1>4, <1>8

\* ... and from the file that compaction writes.
LEMMA CompactedSame ==
    ASSUME NEW es, Split(es), \A i \in 1 .. Len(es) : Fits(es[i]), NEW v, Shaped(v), NEW w \in Nat,
           NEW last, last.key = <<>>
    PROVE  LET C == Append(Retained(es), last)
           IN  IsSeq(C) /\ Applying(v, C, w)[Len(C)] = Applying(v, es, w)[Len(es)]
  <1>1. IsSeq(es) /\ IsView(v)
    BY DEF Split, Shaped
  <1>2. PICK R : R = Retained(es) /\ IsSeq(R)
    BY <1>1, RetainedDrawn
  <1>3. PICK t : t = <<last>> /\ IsSeq(t) /\ Len(t) = 1 /\ t[1] = last
    <2>1. <<last>> \in Seq({last}) /\ Len(<<last>>) = 1 /\ <<last>>[1] = last
      BY OneElement
    <2> QED BY <2>1 DEF IsSeq
  <1>4. PICK C : C = Append(R, last)
    OBVIOUS
  <1>5. C = R \o t
    <2>1. PICK S : R \in Seq(S)
      BY <1>2 DEF IsSeq
    <2>2. R \in Seq(S \cup {last}) /\ last \in S \cup {last}
      BY <2>1
    <2> QED BY <1>3, <1>4, <2>2, AppendIsConcat
  <1>6. IsSeq(C) /\ Len(C) = Len(R) + 1
    BY <1>2, <1>3, <1>5, Both
  <1>7. PICK u : u = Applying(v, R, w)[Len(R)]
    OBVIOUS
  <1>8. Applying(v, C, w)[Len(R) + 1] = Applying(u, t, w)[1]
    <2>1. PICK n \in 0 .. Len(t) : n = 1
      BY <1>3
    <2>2. Applying(v, R \o t, w)[Len(R) + n] = Applying(Applying(v, R, w)[Len(R)], t, w)[n]
      <3>1. IsSeq(R) /\ IsSeq(t)
        BY <1>2, <1>3
      <3> QED BY <3>1, ApplyingBoth
    <2> QED BY <1>5, <1>7, <2>1, <2>2
  <1>9. IsView(u)
    <2>1. Len(R) \in 0 .. Len(R)
      BY <1>2 DEF IsSeq
    <2> QED BY <1>1, <1>2, <1>7, <2>1, ApplyingAt
  <1>10. Applying(u, t, w)[1] = u
    <2>1. PICK f : f = Applying(u, t, w)
      OBVIOUS
    <2>2. /\ f[0] = u /\ \A n \in 0 .. Len(t) : IsView(f[n])
          /\ \A n \in 1 .. Len(t), k \in Keys : f[n][k] = Step(f[n - 1][k], t[n], k, w)
      <3>1. IsSeq(t)
        BY <1>3
      <3> QED BY <1>9, <2>1, <3>1, ApplyingAt
    <2>3. PICK n \in 1 .. Len(t) : n = 1 /\ n - 1 = 0 /\ n \in 0 .. Len(t)
      BY <1>3
    <2>4. \A k \in Keys : f[n][k] = u[k]
      <3>1. \A k \in Keys : ~Touches(last, k)
        BY NoKey DEF Touches
      <3> QED BY <1>3, <2>2, <2>3, <3>1 DEF Step
    <2>5. f[n] = u
      BY <1>9, <2>2, <2>3, <2>4 DEF IsView
    <2> QED BY <2>1, <2>3, <2>5
  <1>11. Applying(v, C, w)[Len(C)] = Applying(v, es, w)[Len(es)]
    BY <1>2, <1>6, <1>7, <1>8, <1>10, RetainedSame
  <1> QED BY <1>2, <1>4, <1>6, <1>11

-----------------------------------------------------------------------------
(* Where a start begins.                                                    *)

\* Every marker has its snapshot, and no two snapshots have the same path.
Backs(s, e) == s.path = e.value /\ s.watermark = e.watermark
Backed(es, snaps) == \A i \in 1 .. Len(es) : IsMarker(es[i]) => \E s \in snaps : Backs(s, es[i])
Distinct(snaps) == \A s, t \in snaps : s.path = t.path => s = t
SnapshotOK(s) ==
    /\ s.watermark \in Nat /\ Shaped(s.view)
    /\ \A k \in Keys : IsLine(k) => s.view[k] = Fresh[k]
StartAt(w, v) == [watermark |-> w, view |-> v]

\* Without a marker or its snapshot it begins with nothing, ...
LEMMA StartsFresh ==
    ASSUME NEW es, NEW snaps, snaps = {} \/ \A e \in ToSet(es) : ~IsMarker(e)
    PROVE  StartOf(es, snaps) = StartAt(0, Fresh)
  <1>1. Authorized(es, snaps) = {}
    BY DEF Authorized
  <1> QED BY <1>1 DEF StartOf, StartAt

\* ... otherwise with the snapshot of the marker with the greatest watermark.
Newest(es, e) ==
    /\ e \in ToSet(es) /\ IsMarker(e) /\ e.watermark \in Nat /\ e.watermark < e.id
    /\ e.id \in Nat
    /\ \A x \in ToSet(es) : IsMarker(x) => x = e \/ (x.watermark \in Nat /\ x.watermark < e.watermark)
LEMMA StartsThere ==
    ASSUME NEW es, NEW e, Newest(es, e), NEW snaps, Distinct(snaps), NEW s \in snaps, Backs(s, e)
    PROVE  StartOf(es, snaps) = StartAt(s.watermark, s.view)
  <1> DEFINE A == Authorized(es, snaps)
             Top(p) == \A q \in A : \/ q[1].watermark < p[1].watermark
                                    \/ q[1].watermark = p[1].watermark /\ q[2].id <= p[2].id
  <1>1. PICK p : p = <<s, e>>
    OBVIOUS
  <1>2. p[1] = s /\ p[2] = e
    BY <1>1
  <1>3. p \in A
    <2>1. p \in snaps \X {x \in ToSet(es) : IsMarker(x)}
      BY <1>1 DEF Newest
    <2> QED BY <1>2, <2>1 DEF Authorized, Newest, Backs
  <1>4. ASSUME NEW q \in A
        PROVE  q = p \/ (q[1].watermark \in Nat /\ q[1].watermark < p[1].watermark)
    <2>1. /\ q \in snaps \X {x \in ToSet(es) : IsMarker(x)}
          /\ q[2].value = q[1].path /\ q[2].watermark = q[1].watermark
      BY DEF Authorized
    <2>2. PICK t \in snaps, x \in ToSet(es) : q = <<t, x>> /\ IsMarker(x)
      BY <2>1
    <2>3. x.value = t.path /\ x.watermark = t.watermark
      BY <2>1, <2>2
    <2>4. CASE x = e
      <3>1. t = s
        BY <2>3, <2>4 DEF Distinct, Backs
      <3> QED BY <1>1, <2>2, <2>4, <3>1
    <2>5. CASE x # e
      <3>1. x.watermark \in Nat /\ x.watermark < e.watermark
        BY <2>2, <2>5 DEF Newest
      <3> QED BY <1>2, <2>2, <2>3, <3>1 DEF Backs
    <2> QED BY <2>4, <2>5
  <1>5. s.watermark \in Nat /\ e.id \in Nat /\ e.id <= e.id
    BY DEF Newest, Backs
  <1>6. Top(p)
    BY <1>2, <1>4, <1>5
  <1>7. ASSUME NEW q \in A, Top(q) PROVE q = p
    <2>1. \/ p[1].watermark < q[1].watermark
          \/ p[1].watermark = q[1].watermark
      BY <1>3, <1>7
    <2>2. ~(q[1].watermark \in Nat /\ q[1].watermark < p[1].watermark)
      BY <1>2, <1>5, <2>1
    <2> QED BY <1>4, <2>2
  <1>8. Selected(es, snaps) = CHOOSE q \in A : Top(q)
    BY DEF Selected
  <1> HIDE DEF A, Top
  <1>9. Selected(es, snaps) = p
    BY <1>3, <1>6, <1>7, <1>8
  <1>10. A # {}
    BY <1>3
  <1> QED BY <1>2, <1>9, <1>10 DEF StartOf, StartAt, A

\* The last marker has the greatest watermark.
LEMMA LastMarker ==
    ASSUME NEW es, Split(es)
    PROVE  \/ \A e \in ToSet(es) : ~IsMarker(e)
           \/ \E m \in 1 .. Len(es) :
                /\ Newest(es, es[m])
                /\ \A i \in m + 1 .. Len(es) : ~IsMarker(es[i])
  <1>1. PICK l \in Nat : l = Len(es) /\ DOMAIN es = 1 .. l
    BY DEF Split, IsSeq
  <1>2. ToSet(es) = {es[i] : i \in 1 .. l}
    BY <1>1 DEF ToSet
  <1> DEFINE M == {i \in 1 .. l : IsMarker(es[i])}
  <1>3. CASE M = {}
    BY <1>2, <1>3
  <1>4. CASE M # {}
    <2>1. PICK m \in M : \A y \in M : y <= m
      <3>1. M \subseteq 0 .. l
        OBVIOUS
      <3> QED BY <1>4, <3>1, GreatestOfBounded
    <2>2. m \in 1 .. l /\ IsMarker(es[m]) /\ es[m].watermark \in Nat /\ es[m].watermark < es[m].id /\ es[m].id \in Nat
      BY <1>1, <2>1 DEF Split
    <2>3. ASSUME NEW i \in 1 .. l, IsMarker(es[i]), i # m
          PROVE  es[i].watermark \in Nat /\ es[i].watermark < es[m].watermark
      <3>1. i \in M /\ i <= m /\ i < m
        BY <2>1, <2>2, <2>3
      <3>2. es[i].watermark \in Nat /\ es[i].id \in Nat /\ es[i].watermark < es[i].id
        BY <1>1, <2>3 DEF Split
      <3>3. es[i].id <= es[m].watermark
        BY <1>1, <2>2, <3>1 DEF Split
      <3> QED BY <2>2, <3>2, <3>3
    <2>4. \A i \in m + 1 .. l : ~IsMarker(es[i])
      <3> SUFFICES ASSUME NEW i \in m + 1 .. l, IsMarker(es[i]) PROVE FALSE
        OBVIOUS
      <3>1. i \in M /\ ~(i <= m)
        BY <2>2
      <3> QED BY <2>1, <3>1
    <2>5. Newest(es, es[m])
      BY <1>2, <2>2, <2>3 DEF Newest
    <2> QED BY <1>1, <2>2, <2>4, <2>5
  <1> QED BY <1>3, <1>4

\* A start begins with a projection that has the right form.
LEMMA FreshShaped == Shaped(Fresh)
  <1>1. IsDrill(NoDrill)
    BY DEF IsDrill, NoDrill
  <1>2. \A k \in Keys : Fresh[k] = IF k[1] = "drills" THEN NoDrill ELSE "absent"
    BY DEF Fresh
  <1>3. IsView(Fresh)
    BY DEF Fresh, IsView
  <1> QED BY <1>1, <1>2, <1>3 DEF Shaped, Shape

LEMMA StartsWell ==
    ASSUME NEW es, Split(es), NEW snaps, Distinct(snaps), \A s \in snaps : SnapshotOK(s),
           Backed(es, snaps)
    PROVE  \E w \in Nat : \E v :
                             /\ StartOf(es, snaps) = StartAt(w, v) /\ Shaped(v)
                             /\ \A k \in Keys : IsLine(k) => v[k] = Fresh[k]
                             /\ w = 0 \/ \E i \in 1 .. Len(es) : IsMarker(es[i]) /\ w = es[i].watermark
  <1>1. CASE \A e \in ToSet(es) : ~IsMarker(e)
    <2>1. StartOf(es, snaps) = StartAt(0, Fresh)
      BY <1>1, StartsFresh
    <2> QED BY <2>1, FreshShaped
  <1>2. CASE ~ \A e \in ToSet(es) : ~IsMarker(e)
    <2>1. PICK m \in 1 .. Len(es) : Newest(es, es[m])
      BY <1>2, LastMarker
    <2>2. IsMarker(es[m])
      BY <2>1 DEF Newest
    <2>3. PICK s \in snaps : Backs(s, es[m])
      BY <2>2 DEF Backed
    <2>4. StartOf(es, snaps) = StartAt(s.watermark, s.view)
      BY <2>1, <2>3, StartsThere
    <2>5. s.watermark \in Nat /\ Shaped(s.view) /\ s.watermark = es[m].watermark
          /\ \A k \in Keys : IsLine(k) => s.view[k] = Fresh[k]
      BY <2>3 DEF SnapshotOK, Backs
    <2> QED BY <2>2, <2>4, <2>5
  <1> QED BY <1>1, <1>2

\* Compaction keeps the last marker, so a start begins as before.
LEMMA CompactedStarts ==
    ASSUME NEW es, Split(es), \A i \in 1 .. Len(es) : Fits(es[i]),
           NEW snaps, Distinct(snaps), Backed(es, snaps), NEW last, ~IsMarker(last)
    PROVE  StartOf(Append(Retained(es), last), snaps) = StartOf(es, snaps)
  <1>0. IsSeq(es)
    BY DEF Split
  <1>1. PICK l \in Nat : l = Len(es) /\ DOMAIN es = 1 .. l
    BY <1>0 DEF IsSeq
  <1>2. PICK R : R = Retained(es) /\ IsSeq(R) /\ Drawn(R, es)
    BY <1>0, RetainedDrawn
  <1>3. PICK c \in Nat : c = Len(R) /\ DOMAIN R = 1 .. c
    BY <1>2 DEF IsSeq
  <1>4. PICK C : C = Append(R, last)
    OBVIOUS
  <1>5. DOMAIN C = 1 .. c + 1 /\ C[c + 1] = last /\ \A i \in 1 .. c : C[i] = R[i]
    BY <1>2, <1>3, <1>4 DEF IsSeq
  <1>6. \A x \in ToSet(C) : x = last \/ x \in ToSet(es)
    <2> SUFFICES ASSUME NEW i \in 1 .. c + 1 PROVE C[i] = last \/ C[i] \in ToSet(es)
      BY <1>5 DEF ToSet
    <2>1. CASE i = c + 1
      BY <1>5, <2>1
    <2>2. CASE i # c + 1
      <3>1. i \in 1 .. c
        BY <2>2
      <3>2. PICK h \in [1 .. c -> 1 .. l] : \A j \in 1 .. c : R[j] = es[h[j]]
        BY <1>1, <1>2, <1>3 DEF Drawn
      <3>3. C[i] = es[h[i]] /\ h[i] \in 1 .. l
        BY <1>5, <3>1, <3>2
      <3> QED BY <1>1, <3>3 DEF ToSet
    <2> QED BY <2>1, <2>2
  <1>7. CASE \A e \in ToSet(es) : ~IsMarker(e)
    <2>1. \A e \in ToSet(C) : ~IsMarker(e)
      BY <1>6, <1>7
    <2> QED BY <1>2, <1>4, <1>7, <2>1, StartsFresh
  <1>8. CASE ~ \A e \in ToSet(es) : ~IsMarker(e)
    <2>1. PICK m \in 1 .. l : Newest(es, es[m]) /\ \A i \in m + 1 .. l : ~IsMarker(es[i])
      BY <1>1, <1>8, LastMarker
    <2>2. IsMarker(es[m])
      BY <2>1 DEF Newest
    <2>3. m \in Kept(es)
      <3>1. es[m].type # "LogCompacted"
        BY <2>2 DEF IsMarker
      <3>2. ReplacedBy(es[m]) = {"ProfileSnapshotCreated"}
        BY <2>2 DEF IsMarker, ReplacedBy, LineTypes, LastOnly
      <3>3. \A j \in m + 1 .. l : es[j].type \notin ReplacedBy(es[m])
        BY <2>1, <3>2 DEF IsMarker
      <3> QED BY <1>1, <3>1, <3>3 DEF Kept, Keeps
    <2>4. es[m] \in ToSet(C)
      <3>1. Ranked(Kept(es), l)
        <4>1. Kept(es) \subseteq 1 .. l
          BY <1>1 DEF Kept
        <4> QED BY <4>1, RankSteps
      <3>2. PICK p \in Nat : p = Cardinality(Below(Kept(es), m))
        <4>1. m \in 1 .. l + 1
          OBVIOUS
        <4> QED BY <3>1, <4>1 DEF Ranked
      <3>3. PICK n \in Nat : n = p + 1
        OBVIOUS
      <3>4. n \in 1 .. c /\ R[n] = es[m]
        BY <1>0, <1>2, <1>3, <2>3, <3>2, <3>3, RetainedAt
      <3>5. n \in 1 .. c + 1 /\ C[n] = es[m]
        BY <1>5, <3>4
      <3> QED BY <1>5, <3>5 DEF ToSet
    <2>5. Newest(C, es[m])
      BY <1>6, <2>1, <2>4 DEF Newest
    <2>6. PICK s \in snaps : Backs(s, es[m])
      BY <1>1, <2>2 DEF Backed
    <2>7. StartOf(es, snaps) = StartAt(s.watermark, s.view)
      BY <2>1, <2>6, StartsThere
    <2>8. StartOf(C, snaps) = StartAt(s.watermark, s.view)
      BY <2>5, <2>6, StartsThere
    <2> QED BY <1>2, <1>4, <2>7, <2>8
  <1> QED BY <1>7, <1>8

\* So what a start shows is the same.
LEMMA CompactedRebuilds ==
    ASSUME NEW es, Split(es), \A i \in 1 .. Len(es) : Fits(es[i]),
           NEW snaps, Distinct(snaps), \A s \in snaps : SnapshotOK(s), Backed(es, snaps),
           NEW last, last.key = <<>>, ~IsMarker(last)
    PROVE  Rebuild(Append(Retained(es), last), snaps) = Rebuild(es, snaps)
  <1>1. PICK w, v : w \in Nat /\ StartOf(es, snaps) = StartAt(w, v) /\ Shaped(v)
    BY StartsWell
  <1>2. PICK C : C = Append(Retained(es), last)
    OBVIOUS
  <1>3. StartOf(C, snaps) = StartAt(w, v)
    BY <1>1, <1>2, CompactedStarts
  <1>4. StartAt(w, v).watermark = w /\ StartAt(w, v).view = v
    BY DEF StartAt
  <1>5. Applying(v, C, w)[Len(C)] = Applying(v, es, w)[Len(es)]
    BY <1>1, <1>2, CompactedSame
  <1> QED BY <1>1, <1>2, <1>3, <1>4, <1>5 DEF Rebuild

\* Without the snapshots too.
LEMMA CompactedRebuildsFresh ==
    ASSUME NEW es, Split(es), \A i \in 1 .. Len(es) : Fits(es[i]),
           NEW last, last.key = <<>>
    PROVE  Rebuild(Append(Retained(es), last), {}) = Rebuild(es, {})
  <1>1. PICK C : C = Append(Retained(es), last)
    OBVIOUS
  <1>2. StartOf(C, {}) = StartAt(0, Fresh) /\ StartOf(es, {}) = StartAt(0, Fresh)
    BY StartsFresh
  <1>3. StartAt(0, Fresh).watermark = 0 /\ StartAt(0, Fresh).view = Fresh
    BY DEF StartAt
  <1>4. PICK w \in Nat : w = 0
    OBVIOUS
  <1>5. Applying(Fresh, C, w)[Len(C)] = Applying(Fresh, es, w)[Len(es)]
    BY <1>1, FreshShaped, CompactedSame
  <1> QED BY <1>1, <1>2, <1>3, <1>4, <1>5 DEF Rebuild

-----------------------------------------------------------------------------
(* The inductive invariant.                                                 *)

\* The records that a start would read are in order; while the process is up their ids
\* are at most the next one (a compaction that fails after the new file is in place has
\* used it up without counting it), and the projection has noted smaller ones only.
InOrder   == IsSeq(file) /\ Split(Events(file))
Counts    == nextId \in Nat /\ applied \in Nat
Ahead    == applied < nextId /\ \A i \in 1 .. Len(Events(file)) : Events(file)[i].id <= nextId
StoreInv  == InOrder /\ Counts /\ (process = "up" => Ahead)

\* Nothing is read of an empty file.
LEMMA EmptyFile ==
    IsSeq(<<>>) /\ Events(<<>>) = <<>> /\ Split(<<>>)
  <1>1. <<>> \in Seq({}) /\ Len(<<>>) = 0
    OBVIOUS
  <1>2. IsSeq(<<>>)
    BY <1>1 DEF IsSeq
  <1>3. EventsAt(<<>>, 0, 1)
    BY <1>1, <1>2, ScanEvents
  <1>4. Events(<<>>) = <<>>
    BY <1>3 DEF EventsAt, Events, Replay
  <1>5. \A i \in 1 .. Len(<<>>) : FALSE
    OBVIOUS
  <1>6. Split(<<>>)
    BY <1>2, <1>5 DEF Split
  <1> QED BY <1>2, <1>4, <1>6

\* The file with the first cells of some records that may follow those in it.
LEMMA Grows ==
    ASSUME NEW f, IsSeq(f), Split(Events(f)), NEW es, Split(es), Follows(Events(f), es),
           NEW k \in 0 .. Len(es), NEW c \in 0 .. 4 * k, NEW b \in Nat,
           \A i \in 1 .. k : es[i].id <= b, \A i \in 1 .. Len(Events(f)) : Events(f)[i].id <= b
    PROVE  LET g == f \o Written(es, c)
           IN  /\ IsSeq(g) /\ Split(Events(g))
               /\ \A i \in 1 .. Len(Events(g)) : Events(g)[i].id <= b
  <1>1. IsSeq(es) /\ Len(es) \in Nat
    BY DEF Split, IsSeq
  <1>2. PICK x : x = SubSeq(es, 1, k)
    OBVIOUS
  <1>3. IsSeq(x) /\ Len(x) = k /\ \A i \in 1 .. k : x[i] = es[i]
    BY <1>1, <1>2, PrefixFacts
  <1>4. Written(es, c) = Written(x, c)
    BY <1>1, <1>2, WrittenShort
  <1>5. Split(x) /\ Follows(Events(f), x)
    <2>1. Drawn(x, es)
      <3> DEFINE h == [i \in 1 .. Len(x) |-> i]
      <3>1. h \in [1 .. Len(x) -> 1 .. Len(es)]
        BY <1>1, <1>3
      <3>2. /\ \A i, j \in 1 .. Len(x) : i < j => h[i] < h[j]
            /\ \A i \in 1 .. Len(x) : x[i] = es[h[i]]
        BY <1>3
      <3> QED BY <3>1, <3>2 DEF Drawn
    <2>2. Split(x)
      BY <1>3, <2>1, SplitDrawn
    <2>3. Follows(Events(f), x)
      BY <1>1, <1>3 DEF Follows
    <2> QED BY <2>2, <2>3
  <1>6. PICK S : \E s \in Seq(S) : Drawn(s, x) /\ Events(f \o Written(x, c)) = Events(f) \o s
    BY <1>3, Appended
  <1>7. PICK s \in Seq(S) : Drawn(s, x) /\ Events(f \o Written(x, c)) = Events(f) \o s
    BY <1>6
  <1>8. IsSeq(s)
    BY DEF IsSeq
  <1>9. Split(Events(f) \o s)
    BY <1>5, <1>7, <1>8, SplitAppended
  <1>13. \A i \in 1 .. k : x[i].id <= b
    BY <1>3
  <1>10. \A i \in 1 .. Len(s) : s[i].id <= b
    <2>1. PICK h \in [1 .. Len(s) -> 1 .. k] : \A i \in 1 .. Len(s) : s[i] = x[h[i]]
      BY <1>3, <1>7 DEF Drawn
    <2> QED BY <1>13, <2>1
  <1>11. \A i \in 1 .. Len(Events(f) \o s) : (Events(f) \o s)[i].id <= b
    <2>1. IsSeq(Events(f))
      BY DEF Split
    <2>2. PICK E : E = Events(f)
      OBVIOUS
    <2>3. PICK S1 : E \in Seq(S1) /\ s \in Seq(S1)
      <3>1. PICK S0 : E \in Seq(S0)
        BY <2>1, <2>2 DEF IsSeq
      <3>2. E \in Seq(S \cup S0) /\ s \in Seq(S \cup S0)
        BY <3>1
      <3> QED BY <3>2
    <2> SUFFICES ASSUME NEW i \in 1 .. Len(E \o s) PROVE (E \o s)[i].id <= b
      BY <2>2
    <2>4. CASE i \in 1 .. Len(E)
      BY <2>2, <2>3, <2>4
    <2>5. CASE i \notin 1 .. Len(E)
      <3>1. PICK j \in 1 .. Len(s) : i = Len(E) + j
        <4>1. Len(E \o s) = Len(E) + Len(s) /\ Len(E) \in Nat /\ Len(s) \in Nat
          BY <2>3
        <4>2. i - Len(E) \in 1 .. Len(s) /\ i = Len(E) + (i - Len(E))
          BY <2>5, <4>1
        <4> QED BY <4>2
      <3>2. (E \o s)[i] = s[j]
        BY <2>3, <3>1, ConcatAt
      <3> QED BY <1>10, <3>2
    <2> QED BY <2>4, <2>5
  <1>12. IsSeq(f \o Written(x, c))
    <2>1. IsSeq(Written(x, c))
      BY <1>3, WrittenIs
    <2>2. PICK S0, S1 : f \in Seq(S0) /\ Written(x, c) \in Seq(S1)
      BY <2>1 DEF IsSeq
    <2>3. f \in Seq(S0 \cup S1) /\ Written(x, c) \in Seq(S0 \cup S1)
      BY <2>2
    <2> QED BY <2>3, ConcatProperties DEF IsSeq
  <1> QED BY <1>4, <1>7, <1>9, <1>11, <1>12

\* What the projection has noted stays below the next id.
LEMMA NoteBound ==
    ASSUME applied \in Nat, nextId \in Nat, applied < nextId, NEW n \in Nat, Note(n)
    PROVE  applied' \in Nat /\ applied' < nextId + n
  <1>1. CASE applied' = applied
    BY <1>1
  <1>2. CASE applied' # applied
    <2>1. nextId = applied + 1 /\ applied' = applied + n
      BY <1>2 DEF Note
    <2> QED BY <2>1
  <1> QED BY <1>1, <1>2

\* A call, whatever it appends and however it ends.
Sound(es) ==
    /\ IsSeq(es) /\ Len(Numbered(es)) = Len(es)
    /\ Split(Numbered(es)) /\ Follows(Events(file), Numbered(es))
    /\ \A i \in 1 .. Len(es) : Numbered(es)[i].id = nextId + i - 1

\* It keeps the invariant.
LEMMA PerformKeeps ==
    ASSUME StoreInv, process = "up", NEW es, Sound(es), NEW together, Perform(es, together)
    PROVE  StoreInv'
  <1>1. PICK x : x = Numbered(es)
    OBVIOUS
  <1>2. PICK n \in Nat : n = Len(x) /\ n = Len(es)
    BY <1>1 DEF Sound, IsSeq
  <1>3. /\ Split(x) /\ Follows(Events(file), x)
        /\ \A i \in 1 .. n : x[i].id = nextId + i - 1
    BY <1>1, <1>2 DEF Sound
  <1>4. /\ IsSeq(file) /\ Split(Events(file)) /\ nextId \in Nat /\ applied \in Nat
        /\ applied < nextId /\ \A i \in 1 .. Len(Events(file)) : Events(file)[i].id <= nextId
    BY DEF StoreInv, InOrder, Counts, Ahead
  <1>5. ASSUME NEW k \in 0 .. n, NEW c \in 0 .. 4 * k, NEW b \in Nat, nextId <= b, nextId + k - 1 <= b,
               file' = file \o Written(x, c)
        PROVE  IsSeq(file)' /\ Split(Events(file))' /\ \A i \in 1 .. Len(Events(file')) : Events(file')[i].id <= b
    <2>1. \A i \in 1 .. k : x[i].id <= b
      <3> SUFFICES ASSUME NEW i \in 1 .. k PROVE x[i].id <= b
        OBVIOUS
      <3>1. i \in 1 .. n /\ nextId + i - 1 <= b
        BY <1>4, <1>5
      <3> QED BY <1>3, <3>1
    <2>2. \A i \in 1 .. Len(Events(file)) : Events(file)[i].id <= b
      <3> SUFFICES ASSUME NEW i \in 1 .. Len(Events(file)) PROVE Events(file)[i].id <= b
        OBVIOUS
      <3>1. Events(file)[i].id \in Nat /\ Events(file)[i].id <= nextId
        BY <1>4 DEF Split
      <3> QED BY <1>4, <1>5, <3>1
    <2>3. k \in 0 .. Len(x)
      BY <1>2
    <2> QED BY <1>3, <1>4, <1>5, <2>1, <2>2, <2>3, Grows
  <1>6. CASE Succeed(x)
    <2>1. /\ file' = file \o Written(x, 4 * n) /\ nextId' = nextId + n /\ Note(n) /\ process' = process
      BY <1>2, <1>6 DEF Succeed, Write, Remember, RecordCells
    <2>2. n \in 0 .. n /\ 4 * n \in 0 .. 4 * n /\ nextId + n \in Nat /\ nextId <= nextId + n
          /\ nextId + n - 1 <= nextId + n
      BY <1>4
    <2>3. IsSeq(file)' /\ Split(Events(file))' /\ \A i \in 1 .. Len(Events(file')) : Events(file')[i].id <= nextId + n
      BY <1>5, <2>1, <2>2
    <2>4. applied' \in Nat /\ applied' < nextId + n
      BY <1>4, <2>1, NoteBound
    <2> QED BY <2>1, <2>2, <2>3, <2>4 DEF StoreInv, InOrder, Counts, Ahead
  <1>7. CASE Throw(x, together)
    <2>1. PICK m \in 0 .. n - 1, residue \in Residues :
            /\ Write(x, RecordCells * m + residue) /\ nextId' = nextId + m
            /\ Note(Applied(m, together)) /\ process' = process
      BY <1>2, <1>7 DEF Throw
    <2>2. residue \in 0 .. 4
      BY DEF Residues, RecordCells
    <2>8. PICK k \in 0 .. n : k = m + 1
      OBVIOUS
    <2>3. PICK c \in 0 .. 4 * k : c = 4 * m + residue
      BY <2>2, <2>8
    <2>4. file' = file \o Written(x, c)
      BY <2>1, <2>3 DEF Write, RecordCells
    <2>5. nextId + m \in Nat /\ nextId <= nextId + m /\ nextId + k - 1 <= nextId + m
      BY <1>4, <2>8
    <2>6. IsSeq(file)' /\ Split(Events(file))' /\ \A i \in 1 .. Len(Events(file')) : Events(file')[i].id <= nextId + m
      BY <1>5, <2>4, <2>5
    <2>7. applied' \in Nat /\ applied' < nextId + m
      <3>1. Applied(m, together) \in {0, m}
        BY DEF Applied
      <3>2. PICK p \in {0, m} : p = Applied(m, together)
        BY <3>1
      <3>3. applied' \in Nat /\ applied' < nextId + p
        BY <1>4, <2>1, <3>2, NoteBound
      <3> QED BY <1>4, <3>3
    <2> QED BY <2>1, <2>5, <2>6, <2>7 DEF StoreInv, InOrder, Counts, Ahead
  <1>8. CASE DieIn(x)
    <2>1. PICK c \in 0 .. 4 * n : file' = file \o Written(x, c) /\ process' = "down" /\ UNCHANGED memory
      BY <1>2, <1>8 DEF DieIn, Write, RecordCells
    <2>2. n \in 0 .. n /\ nextId + n \in Nat /\ nextId <= nextId + n /\ nextId + n - 1 <= nextId + n
      BY <1>4
    <2>3. IsSeq(file)' /\ Split(Events(file))'
      BY <1>5, <2>1, <2>2
    <2> QED BY <1>4, <2>1, <2>3 DEF StoreInv, InOrder, Counts, memory
  <1> QED BY <1>1, <1>6, <1>7, <1>8 DEF Perform

-----------------------------------------------------------------------------
(* The records of the calls.                                                *)

Plain(es) ==
    /\ IsSeq(es)
    /\ \A i \in 1 .. Len(es) : \E type, key, value :
          es[i] = Record(type, key, value) /\ type # "ProfileSnapshotCreated" /\ Fits(es[i])

\* The sequences of records that the calls append, ...
LEMMA PlainFew ==
    ASSUME NEW a, NEW k, NEW u, a # "ProfileSnapshotCreated",
           NEW b, NEW l, NEW v, b # "ProfileSnapshotCreated",
           Fits(Record(a, k, u)), Fits(Record(b, l, v))
    PROVE  /\ Plain(<<>>) /\ Plain(<<Record(a, k, u)>>)
           /\ Plain(<<Record(a, k, u), Record(b, l, v)>>)
  <1>1. PICK x, y : x = Record(a, k, u) /\ y = Record(b, l, v)
    OBVIOUS
  <1>2. <<>> \in Seq({}) /\ <<x>> \in Seq({x, y}) /\ <<x, y>> \in Seq({x, y})
    OBVIOUS
  <1>3. IsSeq(<<>>) /\ IsSeq(<<x>>) /\ IsSeq(<<x, y>>)
    BY <1>2 DEF IsSeq
  <1>4. \A i \in 1 .. Len(<<>>) : FALSE
    OBVIOUS
  <1>5. \A i \in 1 .. Len(<<x>>) : <<x>>[i] = x
    OBVIOUS
  <1>6. \A i \in 1 .. Len(<<x, y>>) : <<x, y>>[i] \in {x, y}
    OBVIOUS
  <1>7. Plain(<<>>)
    BY <1>3, <1>4 DEF Plain
  <1>8. Plain(<<x>>)
    BY <1>1, <1>3, <1>5 DEF Plain
  <1>9. Plain(<<x, y>>)
    BY <1>1, <1>3, <1>6 DEF Plain
  <1> QED BY <1>1, <1>7, <1>8, <1>9

\* ... one after the other, ...
LEMMA PlainConcat ==
    ASSUME NEW s, Plain(s), NEW t, Plain(t)
    PROVE  Plain(s \o t)
  <1>1. PICK S, T : s \in Seq(S) /\ t \in Seq(T)
    BY DEF Plain, IsSeq
  <1>2. s \in Seq(S \cup T) /\ t \in Seq(S \cup T)
    BY <1>1
  <1>3. PICK m \in Nat, n \in Nat : m = Len(s) /\ n = Len(t)
    BY <1>1
  <1>4. PICK x : x = s \o t
    OBVIOUS
  <1>5. /\ x \in Seq(S \cup T) /\ Len(x) = m + n
        /\ \A i \in 1 .. m : x[i] = s[i]
        /\ \A i \in 1 .. n : x[m + i] = t[i]
    BY <1>2, <1>3, <1>4, ConcatAt
  <1> DEFINE Ok(e) == \E type, key, value :
                e = Record(type, key, value) /\ type # "ProfileSnapshotCreated" /\ Fits(e)
  <1>6. /\ \A i \in 1 .. m : Ok(s[i])
        /\ \A i \in 1 .. n : Ok(t[i])
    BY <1>3 DEF Plain
  <1> HIDE DEF Ok
  <1>7. ASSUME NEW i \in 1 .. m + n PROVE Ok(x[i])
    <2>1. CASE i <= m
      <3>1. i \in 1 .. m
        BY <2>1
      <3> QED BY <1>5, <1>6, <3>1
    <2>2. CASE i > m
      <3>1. PICK k \in 1 .. n : k = i - m
        BY <2>2
      <3>2. i = m + k
        BY <3>1
      <3> QED BY <1>5, <1>6, <3>2
    <2> QED BY <2>1, <2>2
  <1>8. IsSeq(x) /\ \A i \in 1 .. Len(x) : Ok(x[i])
    BY <1>5, <1>7 DEF IsSeq
  <1> QED BY <1>4, <1>8 DEF Plain, Ok

\* ... with their ids, ...
LEMMA NumberedIs ==
    ASSUME NEW es, IsSeq(es)
    PROVE  /\ IsSeq(Numbered(es)) /\ Len(Numbered(es)) = Len(es)
           /\ \A i \in 1 .. Len(es) : Numbered(es)[i] = [es[i] EXCEPT !.id = nextId + i - 1]
  <1>1. PICK n \in Nat : n = Len(es) /\ DOMAIN es = 1 .. n
    BY DEF IsSeq
  <1> DEFINE g == Numbered(es)
             S == {g[i] : i \in 1 .. n}
  <1>2. g = [i \in 1 .. n |-> [es[i] EXCEPT !.id = nextId + i - 1]]
    BY <1>1 DEF Numbered
  <1>3. DOMAIN g = 1 .. n /\ g = [i \in DOMAIN g |-> g[i]]
    BY <1>2
  <1>4. \A i \in 1 .. n : g[i] = [es[i] EXCEPT !.id = nextId + i - 1]
    BY <1>2
  <1> HIDE DEF g
  <1>5. g \in [1 .. n -> S]
    BY <1>3
  <1> HIDE DEF S
  <1>6. g \in Seq(S)
    BY <1>5, SeqDef
  <1>7. Len(g) = n
    BY <1>3, <1>6, LenProperties
  <1> QED BY <1>1, <1>4, <1>6, <1>7 DEF g, IsSeq

\* ... are in order and may follow what is in the file.
LEMMA PlainSound ==
    ASSUME StoreInv, process = "up", NEW es, Plain(es)
    PROVE  Sound(es)
  <1>1. IsSeq(es)
    BY DEF Plain
  <1>2. PICK n \in Nat : n = Len(es)
    BY <1>1 DEF IsSeq
  <1>3. PICK x : x = Numbered(es)
    OBVIOUS
  <1>4. IsSeq(x) /\ Len(x) = n /\ \A i \in 1 .. n : x[i] = [es[i] EXCEPT !.id = nextId + i - 1]
    BY <1>1, <1>2, <1>3, NumberedIs
  <1>5. nextId \in Nat /\ Split(Events(file)) /\ \A i \in 1 .. Len(Events(file)) : Events(file)[i].id <= nextId
    BY DEF StoreInv, InOrder, Counts, Ahead
  <1>6. ASSUME NEW i \in 1 .. n PROVE x[i].id = nextId + i - 1 /\ ~IsMarker(x[i])
    <2>1. PICK type, key, value : es[i] = Record(type, key, value) /\ type # "ProfileSnapshotCreated"
      BY <1>2 DEF Plain
    <2>2. x[i] = [es[i] EXCEPT !.id = nextId + i - 1]
      BY <1>4
    <2>3. PICK id : id = nextId + i - 1
      OBVIOUS
    <2>4. x[i].id = id /\ x[i].type = type
      BY <2>1, <2>2, <2>3 DEF Record
    <2> QED BY <2>1, <2>3, <2>4 DEF IsMarker
  <1>7. \A i, j \in 1 .. n : j < i => x[j].id <= x[i].id
    <2> SUFFICES ASSUME NEW i \in 1 .. n, NEW j \in 1 .. n, j < i PROVE x[j].id <= x[i].id
      OBVIOUS
    <2>1. x[i].id = nextId + i - 1 /\ x[j].id = nextId + j - 1
      BY <1>6
    <2> QED BY <1>5, <2>1
  <1>8. \A i \in 1 .. n : x[i].id \in Nat /\ nextId <= x[i].id
    <2> SUFFICES ASSUME NEW i \in 1 .. n PROVE x[i].id \in Nat /\ nextId <= x[i].id
      OBVIOUS
    <2>1. x[i].id = nextId + i - 1
      BY <1>6
    <2> QED BY <1>5, <2>1
  <1>9. Split(x)
    BY <1>4, <1>6, <1>7, <1>8 DEF Split
  <1>10. Follows(Events(file), x)
    <2> SUFFICES ASSUME NEW i \in 1 .. Len(Events(file)), NEW j \in 1 .. n
                 PROVE  Events(file)[i].id <= x[j].id
      BY <1>4, <1>6 DEF Follows
    <2>1. Events(file)[i].id \in Nat /\ Events(file)[i].id <= nextId
      BY <1>5 DEF Split
    <2> QED BY <1>5, <1>8, <2>1
  <1> QED BY <1>1, <1>2, <1>3, <1>4, <1>6, <1>9, <1>10 DEF Sound

\* When a snapshot may be taken the projection has noted the last record, so all of them.
LEMMA NotedAll ==
    ASSUME StoreInv, process = "up", MaySnapshot
    PROVE  \A i \in 1 .. Len(Events(file)) : Events(file)[i].id <= applied
  <1> SUFFICES ASSUME NEW i \in 1 .. Len(Events(file)) PROVE Events(file)[i].id <= applied
    OBVIOUS
  <1>0. applied \in Nat /\ Split(Events(file))
    BY DEF StoreInv, InOrder, Counts
  <1>1. PICK E : E = Events(file)
    OBVIOUS
  <1>2. PICK m \in Nat : m = Len(E)
    BY <1>0, <1>1 DEF Split, IsSeq
  <1>3. i \in 1 .. m /\ m \in 1 .. m
    BY <1>1, <1>2
  <1>4. E # <<>>
    BY <1>2, <1>3
  <1>5. E[m].id = applied
    BY <1>1, <1>2, <1>4 DEF MaySnapshot, LastId, Last
  <1>6. i < m \/ i = m
    BY <1>3
  <1>7. E[i].id <= E[m].id
    <2>1. CASE i < m
      BY <1>0, <1>1, <1>2, <1>3, <2>1 DEF Split
    <2>2. CASE i = m
      BY <1>0, <1>5, <2>2
    <2> QED BY <1>6, <2>1, <2>2
  <1> QED BY <1>1, <1>5, <1>7

\* The marker of a snapshot, which is taken only if the projection has noted the last record.
LEMMA MarkerSound ==
    ASSUME StoreInv, process = "up", MaySnapshot, NEW path
    PROVE  Sound(<<[Record("ProfileSnapshotCreated", <<>>, path) EXCEPT !.watermark = applied]>>)
  <1> DEFINE r == [Record("ProfileSnapshotCreated", <<>>, path) EXCEPT !.watermark = applied]
  <1>1. PICK es : es = <<r>>
    OBVIOUS
  <1>2. IsSeq(es) /\ Len(es) = 1 /\ es[1] = r
    <2>1. <<r>> \in Seq({r})
      OBVIOUS
    <2> HIDE DEF r
    <2>2. Len(<<r>>) = 1 /\ <<r>>[1] = r
      OBVIOUS
    <2> QED BY <1>1, <2>1, <2>2 DEF IsSeq
  <1>3. PICK x : x = Numbered(es)
    OBVIOUS
  <1> HIDE DEF r
  <1>4. IsSeq(x) /\ Len(x) = 1 /\ x[1] = [r EXCEPT !.id = nextId + 1 - 1]
    <2>1. /\ IsSeq(x) /\ Len(x) = Len(es)
          /\ \A i \in 1 .. Len(es) : x[i] = [es[i] EXCEPT !.id = nextId + i - 1]
      BY <1>2, <1>3, NumberedIs
    <2>2. 1 \in 1 .. Len(es)
      BY <1>2
    <2>3. x[1] = [es[1] EXCEPT !.id = nextId + 1 - 1]
      BY <2>1, <2>2
    <2> QED BY <1>2, <2>1, <2>3
  <1>5. /\ nextId \in Nat /\ applied \in Nat /\ applied < nextId
        /\ Split(Events(file)) /\ \A i \in 1 .. Len(Events(file)) : Events(file)[i].id <= nextId
    BY DEF StoreInv, InOrder, Counts, Ahead
  <1>6. x[1].id = nextId /\ x[1].watermark = applied
    <2>1. nextId + 1 - 1 = nextId
      BY <1>5
    <2> QED BY <1>4, <2>1 DEF Record, r
  <1>7. \A i \in 1 .. Len(x) : i = 1
    BY <1>4
  <1>8. Split(x)
    <2>1. \A i, j \in 1 .. Len(x) : ~(j < i)
      BY <1>7
    <2> QED BY <1>4, <1>5, <1>6, <1>7, <2>1 DEF Split
  <1>9. \A i \in 1 .. Len(Events(file)) : Events(file)[i].id <= applied
    BY NotedAll
  <1>10. Follows(Events(file), x)
    <2>1. \A i \in 1 .. Len(Events(file)) : Events(file)[i].id <= nextId
      BY <1>5
    <2> QED BY <1>6, <1>7, <1>9, <2>1 DEF Follows
  <1>11. \A i \in 1 .. Len(es) : x[i].id = nextId + i - 1
    <2>1. \A i \in 1 .. Len(es) : i = 1
      BY <1>2
    <2>2. nextId + 1 - 1 = nextId
      BY <1>5
    <2> QED BY <1>6, <2>1, <2>2
  <1> QED BY <1>1, <1>2, <1>3, <1>4, <1>8, <1>10, <1>11 DEF Sound, r

-----------------------------------------------------------------------------
(* Each action preserves the invariant.                                     *)

\* Each record fits its key.
LEMMA RecordsFit ==
    ASSUME NEW g, NEW x
    PROVE  /\ Fits(Record("GameImported", <<"status", g>>, x))
           /\ Fits(Record("GameParsed", <<>>, x)) /\ Fits(Record("RatingObserved", <<>>, x))
           /\ Fits(Record("ShallowAnalysisCompleted", <<"status", g>>, "shallow"))
           /\ Fits(Record("AnalysisCompleted", <<"status", g>>, x))
           /\ Fits(Record("AnalysisJobStateChanged", <<"job", g>>, x))
           /\ Fits(Record("DrillCreated", <<"drills", g>>, NewDrill))
           /\ Fits(Record("DrillAttempted", <<"drills", g>>, x))
           /\ Fits(Record("DrillSessionUpdated", <<"drills", g>>, x))
           /\ Fits(Record("VariationSaved", <<"line", g>>, x))
           /\ Fits(Record("VariationDeleted", <<"line", g>>, x))
  <1>1. \A t, k, v : Record(t, k, v).type = t /\ Record(t, k, v).key = k /\ Record(t, k, v).value = v
    BY DEF Record
  <1>2. /\ <<"status", g>>[1] = "status" /\ <<"job", g>>[1] = "job"
        /\ <<"drills", g>>[1] = "drills" /\ <<"line", g>>[1] = "line"
    OBVIOUS
  <1> HIDE DEF Record
  <1> QED BY <1>1, <1>2, NoKey DEF Fits, IsMarker, LineTypes

\* The calls that append records of games, jobs, variations and drills.
Appends ==
    \E es, together : /\ Plain(es) /\ process = "up"
                      /\ Perform(es, together) /\ UNCHANGED snapshots
LEMMA CallsAppend ==
    ASSUME NEW g
    PROVE  /\ Add(g) \/ SaveShallow(g) \/ SaveAnalysis(g) \/ RecordJobState(g) => Appends
           /\ AddValidatedDrill(g) \/ RecordAttempt(g) \/ BeginDrillSession(g) \/ AdvanceHint(g) => Appends
           /\ CreateVariation \/ ExtendVariation(g) \/ DeleteVariation(g) => Appends
  <1>1. ASSUME NEW type, NEW key, NEW value, type # "ProfileSnapshotCreated", Fits(Record(type, key, value))
        PROVE  Plain(<<>>) /\ Plain(<<Record(type, key, value)>>)
    <2>1. /\ Plain(<<>>) /\ Plain(<<Record(type, key, value)>>)
          /\ Plain(<<Record(type, key, value), Record(type, key, value)>>)
      BY <1>1, PlainFew
    <2> QED BY <2>1
  <1> USE DEF Ready, Appends
  <1>2. CASE Add(g)
    <2>1. PICK rated \in BOOLEAN :
            Perform(<<Record("GameImported", <<"status", g>>, "pending"), Record("GameParsed", <<>>, "")>>
                    \o (IF rated THEN <<Record("RatingObserved", <<>>, "")>> ELSE <<>>), 2)
      BY <1>2 DEF Add
    <2>2. Plain(<<Record("GameImported", <<"status", g>>, "pending"), Record("GameParsed", <<>>, "")>>)
      BY PlainFew, RecordsFit
    <2>3. Plain(IF rated THEN <<Record("RatingObserved", <<>>, "")>> ELSE <<>>)
      <3>1. Plain(<<>>) /\ Plain(<<Record("RatingObserved", <<>>, "")>>)
        BY <1>1, RecordsFit
      <3> QED BY <3>1
    <2>4. process = "up" /\ UNCHANGED snapshots
      BY <1>2 DEF Add
    <2> QED BY <2>1, <2>2, <2>3, <2>4, PlainConcat
  <1>3. CASE SaveShallow(g)
    <2>1. Plain(<<Record("ShallowAnalysisCompleted", <<"status", g>>, "shallow")>>)
      BY <1>1, RecordsFit
    <2> QED BY <1>3, <2>1 DEF SaveShallow
  <1>4. CASE SaveAnalysis(g)
    <2>1. Plain(DrillRecords(g))
      <3>1. Plain(<<>>) /\ Plain(<<Record("DrillCreated", <<"drills", g>>, NewDrill)>>)
        BY <1>1, RecordsFit
      <3> QED BY <3>1 DEF DrillRecords
    <2>2. Plain(<<Record("AnalysisCompleted", <<"status", g>>, "complete")>>)
      BY <1>1, RecordsFit
    <2>3. Plain(AnalysisRecords(g))
      BY <2>1, <2>2, PlainConcat DEF AnalysisRecords
    <2> QED BY <1>4, <2>3 DEF SaveAnalysis
  <1>5. CASE RecordJobState(g)
    <2>1. \A s : Plain(<<Record("AnalysisJobStateChanged", <<"job", g>>, s)>>)
      BY <1>1, RecordsFit
    <2> QED BY <1>5, <2>1 DEF RecordJobState
  <1>6. CASE AddValidatedDrill(g)
    <2>1. Plain(<<Record("DrillCreated", <<"drills", g>>, NewDrill)>>)
      BY <1>1, RecordsFit
    <2> QED BY <1>6, <2>1 DEF AddValidatedDrill
  <1>7. \A hint, since : Plain(<<SessionRecord(g, hint, since)>>)
    BY <1>1, RecordsFit DEF SessionRecord
  <1>8. CASE RecordAttempt(g)
    <2>1. PICK correct \in BOOLEAN :
            Perform(<<Record("DrillAttempted", <<"drills", g>>, [at |-> Clock, correct |-> correct])>>
                    \o (IF correct THEN <<SessionRecord(g, 0, 0)>> ELSE <<>>), 1)
      BY <1>8 DEF RecordAttempt
    <2>2. Plain(<<Record("DrillAttempted", <<"drills", g>>, [at |-> Clock, correct |-> correct])>>)
      BY <1>1, RecordsFit
    <2>3. Plain(IF correct THEN <<SessionRecord(g, 0, 0)>> ELSE <<>>)
      <3>1. Plain(<<>>) /\ Plain(<<Record("GameParsed", <<>>, "")>>)
        BY <1>1, RecordsFit
      <3>2. Plain(<<SessionRecord(g, 0, 0)>>)
        BY <1>7
      <3> QED BY <3>1, <3>2
    <2>4. process = "up" /\ UNCHANGED snapshots
      BY <1>8 DEF RecordAttempt
    <2> QED BY <2>1, <2>2, <2>3, <2>4, PlainConcat
  <1>9. CASE BeginDrillSession(g)
    BY <1>7, <1>9 DEF BeginDrillSession
  <1>10. CASE AdvanceHint(g)
    <2>1. PICK hint, since : Perform(<<SessionRecord(g, hint, since)>>, 1)
      BY <1>10 DEF AdvanceHint
    <2>2. process = "up" /\ UNCHANGED snapshots
      BY <1>10 DEF AdvanceHint
    <2> QED BY <1>7, <2>1, <2>2
  <1>11. CASE CreateVariation
    <2>1. Plain(<<Record("VariationSaved", <<"line", nextLine>>, "root")>>)
      BY <1>1, RecordsFit
    <2> QED BY <1>11, <2>1 DEF CreateVariation
  <1>12. CASE ExtendVariation(g)
    <2>1. Plain(<<Record("VariationSaved", <<"line", g>>, "moved")>>)
      BY <1>1, RecordsFit
    <2> QED BY <1>12, <2>1 DEF ExtendVariation
  <1>13. CASE DeleteVariation(g)
    <2>1. Plain(<<Record("VariationDeleted", <<"line", g>>, "absent")>>)
      BY <1>1, RecordsFit
    <2> QED BY <1>13, <2>1 DEF DeleteVariation
  <1> QED BY <1>2, <1>3, <1>4, <1>5, <1>6, <1>8, <1>9, <1>10, <1>11, <1>12, <1>13

\* What a step of the repository is.
LEMMA StoreSteps ==
    ASSUME [StoreNext]_storeVars
    PROVE  \/ Appends \/ CreateSnapshot \/ Compact \/ Stop \/ Boot \/ UNCHANGED storeVars
  BY CallsAppend DEF StoreNext

\* A snapshot and its marker.
LEMMA SnapshotKeeps ==
    ASSUME StoreInv, CreateSnapshot
    PROVE  StoreInv'
  <1>1. process = "up" /\ MaySnapshot
    BY DEF CreateSnapshot, Ready
  <1>2. PICK path :
          Perform(<<[Record("ProfileSnapshotCreated", <<>>, path) EXCEPT !.watermark = applied]>>, 1)
    BY DEF CreateSnapshot
  <1>3. Sound(<<[Record("ProfileSnapshotCreated", <<>>, path) EXCEPT !.watermark = applied]>>)
    BY <1>1, MarkerSound
  <1> QED BY <1>1, <1>2, <1>3, PerformKeeps

\* A compaction, whether it ends or fails after the file is replaced.
LEMMA CompactKeeps ==
    ASSUME StoreInv, Compact
    PROVE  StoreInv'
  <1>1. process = "up" /\ file' = Compacted(file, nextId)
    BY DEF Compact, Ready
  <1>2. /\ nextId \in Nat /\ applied \in Nat /\ applied < nextId
        /\ Split(Events(file)) /\ \A i \in 1 .. Len(Events(file)) : Events(file)[i].id <= nextId
    BY <1>1 DEF StoreInv, InOrder, Counts, Ahead
  <1>3. PICK last : last = [id |-> nextId, type |-> "LogCompacted", key |-> <<>>]
    OBVIOUS
  <1>4. PICK es : es = Append(Retained(Events(file)), last)
    OBVIOUS
  <1>5. Split(es) /\ \A i \in 1 .. Len(es) : es[i].id <= nextId
    <2>1. last.id = nextId /\ ~IsMarker(last)
      BY <1>3 DEF IsMarker
    <2> QED BY <1>2, <1>4, <2>1, CompactedSplit
  <1>6. PICK n \in Nat : n = Len(es)
    BY <1>5 DEF Split, IsSeq
  <1>7. PICK c \in 0 .. 4 * n : c = 4 * n
    BY <1>6
  <1>8. file' = <<>> \o Written(es, c)
    <2>1. file' = Written(es, c)
      BY <1>1, <1>3, <1>4, <1>6, <1>7 DEF Compacted, RecordCells
    <2>2. IsSeq(Written(es, c))
      BY <1>5, <1>6, WrittenIs DEF Split
    <2>3. <<>> \o Written(es, c) = Written(es, c)
      BY <2>2 DEF IsSeq
    <2> QED BY <2>1, <2>3
  <1>9. IsSeq(file)' /\ Split(Events(file))' /\ \A i \in 1 .. Len(Events(file')) : Events(file')[i].id <= nextId
    <2>1. Follows(Events(<<>>), es)
      BY EmptyFile DEF Follows
    <2>2. n \in 0 .. Len(es) /\ \A i \in 1 .. n : es[i].id <= nextId
      BY <1>5, <1>6
    <2>3. \A i \in 1 .. Len(Events(<<>>)) : Events(<<>>)[i].id <= nextId
      BY EmptyFile
    <2> QED BY <1>2, <1>5, <1>8, <2>1, <2>2, <2>3, EmptyFile, Grows
  <1>10. CASE nextId' = nextId + 1 /\ NoteUnseen(Events(file')) /\ process' = process
    <2>1. PICK E : E = Events(file')
      OBVIOUS
    <2>2. IsSeq(E) /\ \A i \in 1 .. Len(E) : E[i].id \in 0 .. nextId
      BY <1>2, <1>9, <2>1 DEF Split
    <2>3. applied \in 0 .. nextId
      BY <1>2
    <2>4. NotedUpTo([applied |-> applied, contiguous |-> contiguous], E)[Len(E)].applied \in 0 .. nextId
      BY <1>2, <2>2, <2>3, NotedBound
    <2>5. applied' \in 0 .. nextId
      BY <1>10, <2>1, <2>4 DEF NoteUnseen
    <2>6. applied' \in Nat /\ applied' < nextId' /\ nextId' \in Nat
      BY <1>2, <1>10, <2>5
    <2>7. \A i \in 1 .. Len(Events(file')) : Events(file')[i].id <= nextId'
      <3> SUFFICES ASSUME NEW i \in 1 .. Len(E) PROVE E[i].id <= nextId'
        BY <2>1
      <3>1. E[i].id \in 0 .. nextId
        BY <2>2
      <3> QED BY <1>2, <1>10, <3>1
    <2> QED BY <1>9, <2>6, <2>7 DEF StoreInv, InOrder, Counts, Ahead
  <1>11. CASE UNCHANGED memory
    BY <1>2, <1>9, <1>11 DEF StoreInv, InOrder, Counts, Ahead, memory
  <1> QED BY <1>10, <1>11 DEF Compact

\* A start: the ids and the projection are those of the records that are read.
LEMMA BootKeeps ==
    ASSUME StoreInv, Boot
    PROVE  StoreInv'
  <1>1. PICK kept : kept = Recovered(file)
    OBVIOUS
  <1>2. PICK E : E = Events(kept)
    OBVIOUS
  <1>3. /\ file' = kept /\ nextId' = NextId(kept) /\ process' = "up"
        /\ applied' = IF E = <<>> THEN 0 ELSE Last(E).id
    BY <1>1, <1>2 DEF Boot
  <1>4. IsSeq(kept) /\ Split(E)
    BY <1>1, <1>2, Recovers DEF StoreInv, InOrder
  <1>5. PICK n \in Nat : n = Len(E)
    BY <1>4 DEF Split, IsSeq
  <1>6. \A i \in 1 .. n : E[i].id \in Nat
    BY <1>4, <1>5 DEF Split
  <1>7. ASSUME n # 0 PROVE Last(E) = E[n] /\ n \in 1 .. n /\ \A i \in 1 .. n : E[i].id <= E[n].id
    <2>1. n \in 1 .. n /\ E # <<>>
      BY <1>5, <1>7
    <2>2. Last(E) = E[n]
      BY <1>5 DEF Last
    <2>3. ASSUME NEW i \in 1 .. n PROVE E[i].id <= E[n].id
      <3>1. CASE i = n
        BY <1>6, <2>1, <3>1
      <3>2. CASE i # n
        <4>1. i < n
          BY <3>2
        <4> QED BY <1>4, <1>5, <2>1, <4>1 DEF Split
      <3> QED BY <3>1, <3>2
    <2> QED BY <2>1, <2>2, <2>3
  <1> DEFINE ids == {0} \cup {e.id : e \in ToSet(E)}
  <1>8. \A x : x \in ids <=> x = 0 \/ \E i \in 1 .. n : x = E[i].id
    <2>1. DOMAIN E = 1 .. n
      BY <1>4, <1>5 DEF Split, IsSeq
    <2> QED BY <2>1 DEF ToSet
  <1>9. PICK top \in ids : \A y \in ids : y <= top
    <2>1. CASE n = 0
      <3>1. \A x \in ids : x = 0
        BY <1>8, <2>1
      <3>2. 0 \in ids
        BY <1>8
      <3> HIDE DEF ids
      <3> QED BY <3>1, <3>2
    <2>2. CASE n # 0
      <3>1. E[n].id \in ids /\ E[n].id \in Nat
        BY <1>6, <1>7, <1>8, <2>2
      <3>2. \A y \in ids : y <= E[n].id
        BY <1>7, <1>8, <2>2, <3>1
      <3> HIDE DEF ids
      <3> QED BY <3>1, <3>2
    <2> QED BY <2>1, <2>2
  <1> HIDE DEF ids
  <1>10. PICK max \in ids : max = Max(ids) /\ \A y \in ids : y <= max
    <2>1. Max(ids) = CHOOSE x \in ids : \A y \in ids : x >= y
      BY DEF Max
    <2>2. ids \subseteq Nat
      BY <1>6, <1>8
    <2>3. \A y \in ids : top >= y
      BY <1>9, <2>2
    <2>4. Max(ids) \in ids /\ \A y \in ids : Max(ids) >= y
      BY <2>1, <2>3
    <2> QED BY <2>2, <2>4
  <1>11. max \in Nat /\ nextId' = max + 1
    <2>1. max \in Nat
      BY <1>6, <1>8
    <2>2. NextId(kept) = Max(ids) + 1
      BY <1>2 DEF NextId, ids
    <2> QED BY <1>3, <1>10, <2>1, <2>2
  <1>12. \A i \in 1 .. n : E[i].id <= max
    BY <1>8, <1>10
  <1>13. applied' \in Nat /\ applied' <= max
    <2>1. CASE n = 0
      <3>1. E = <<>>
        <4>1. PICK S : E \in Seq(S)
          BY <1>4 DEF Split, IsSeq
        <4> QED BY <1>5, <2>1, <4>1, EmptySeq
      <3> QED BY <1>3, <1>11, <3>1
    <2>2. CASE n # 0
      <3>1. E # <<>>
        BY <1>5, <2>2
      <3> QED BY <1>3, <1>6, <1>7, <1>12, <2>2, <3>1
    <2> QED BY <2>1, <2>2
  <1>14. \A i \in 1 .. Len(E) : E[i].id <= nextId'
    <2> SUFFICES ASSUME NEW i \in 1 .. n PROVE E[i].id <= nextId'
      BY <1>5
    <2>1. E[i].id \in Nat /\ E[i].id <= max
      BY <1>6, <1>12
    <2> QED BY <1>11, <2>1
  <1>15. Events(file') = E /\ IsSeq(file') /\ Split(E)
    BY <1>2, <1>3, <1>4
  <1>16. applied' < nextId' /\ nextId' \in Nat
    BY <1>11, <1>13
  <1> QED BY <1>13, <1>14, <1>15, <1>16 DEF StoreInv, InOrder, Counts, Ahead

\* All of them.
LEMMA StoreStep ==
    ASSUME StoreInv, [StoreNext]_storeVars
    PROVE  StoreInv'
  <1>1. CASE Stop
    BY <1>1 DEF Stop, StoreInv, InOrder, Counts, Ahead, disk, memory
  <1>2. CASE UNCHANGED storeVars
    BY <1>2 DEF storeVars, StoreInv, InOrder, Counts, Ahead, disk, memory
  <1>3. CASE Appends
    BY <1>3, PlainSound, PerformKeeps DEF Appends
  <1> QED BY <1>1, <1>2, <1>3, StoreSteps, SnapshotKeeps, CompactKeeps, BootKeeps

\* The watermark of a snapshot divides the records that a start would read from those that
\* the snapshot stands for, whatever interrupted calls left between the records, and
\* whatever the compaction dropped or renumbered.
THEOREM WatermarkAlwaysSplits ==
    StoreSpec => []WatermarkSplits
  <1>1. StoreInit => StoreInv
    <2> SUFFICES ASSUME StoreInit PROVE StoreInv
      OBVIOUS
    <2>1. \A i \in 1 .. Len(<<>>) : FALSE
      OBVIOUS
    <2> QED BY <2>1, EmptyFile DEF StoreInit, StoreInv, InOrder, Counts, Ahead
  <1>2. StoreInv /\ [StoreNext]_storeVars => StoreInv'
    BY StoreStep
  <1>3. StoreInv => WatermarkSplits
    <2> SUFFICES ASSUME StoreInv, NEW i \in DOMAIN Events(file), NEW j \in DOMAIN Events(file),
                        IsMarker(Events(file)[i])
                 PROVE  /\ j > i => Events(file)[j].id > Events(file)[i].watermark
                        /\ j < i => Events(file)[j].id <= Events(file)[i].watermark
      BY DEF WatermarkSplits
    <2>1. PICK E : E = Events(file)
      OBVIOUS
    <2>2. Split(E)
      BY <2>1 DEF StoreInv, InOrder
    <2>3. PICK n \in Nat : n = Len(E) /\ DOMAIN E = 1 .. n
      BY <2>2 DEF Split, IsSeq
    <2>4. i \in 1 .. n /\ j \in 1 .. n
      BY <2>1, <2>3
    <2>5. E[i].watermark \in Nat /\ E[i].watermark < E[i].id /\ E[i].id \in Nat /\ E[j].id \in Nat
      BY <2>1, <2>2, <2>3, <2>4 DEF Split
    <2>6. j > i => E[i].id <= E[j].id
      BY <2>2, <2>3, <2>4 DEF Split
    <2>7. j < i => E[j].id <= E[i].watermark
      BY <2>1, <2>2, <2>3, <2>4 DEF Split
    <2> QED BY <2>1, <2>5, <2>6, <2>7
  <1> QED BY <1>1, <1>2, <1>3, PTL DEF StoreSpec

-----------------------------------------------------------------------------
(* What compaction needs to know of the log, the snapshots and the          *)
(* projection.                                                              *)

\* Every record fits its key, and every marker has its snapshot.
Good(e, snaps) == Fits(e) /\ (IsMarker(e) => \E s \in snaps : Backs(s, e))
AllGood(E, snaps) == \A i \in 1 .. Len(E) : Good(E[i], snaps)

\* The records after a call are those before it and some of its own.
LEMMA GoodAfter ==
    ASSUME NEW f, IsSeq(f), IsSeq(Events(f)), NEW es, IsSeq(es), NEW c \in 0 .. 4 * Len(es),
           NEW snaps, AllGood(Events(f), snaps), AllGood(es, snaps)
    PROVE  AllGood(Events(f \o Written(es, c)), snaps)
  <1>1. PICK S : \E s \in Seq(S) : Drawn(s, es) /\ Events(f \o Written(es, c)) = Events(f) \o s
    BY Appended
  <1>2. PICK s \in Seq(S) : Drawn(s, es) /\ Events(f \o Written(es, c)) = Events(f) \o s
    BY <1>1
  <1>3. PICK E : E = Events(f)
    OBVIOUS
  <1>4. IsSeq(E) /\ IsSeq(s)
    BY <1>2, <1>3 DEF IsSeq
  <1>5. PICK a \in Nat, b \in Nat : a = Len(E) /\ b = Len(s)
    BY <1>4 DEF IsSeq
  <1>6. PICK t : t = E \o s
    OBVIOUS
  <1>7. Len(t) = a + b /\ (\A i \in 1 .. a : t[i] = E[i]) /\ (\A i \in 1 .. b : t[a + i] = s[i])
    BY <1>4, <1>5, <1>6, Both
  <1>8. \A i \in 1 .. b : Good(s[i], snaps)
    BY <1>2, <1>5 DEF Drawn, AllGood
  <1>9. \A i \in 1 .. a : Good(E[i], snaps)
    BY <1>3, <1>5 DEF AllGood
  <1>10. ASSUME NEW i \in 1 .. a + b PROVE Good(t[i], snaps)
    <2>1. CASE i <= a
      <3>1. i \in 1 .. a
        BY <2>1
      <3> QED BY <1>7, <1>9, <3>1
    <2>2. CASE i > a
      <3>1. PICK j \in 1 .. b : j = i - a
        BY <2>2
      <3>2. i = a + j
        BY <3>1
      <3> QED BY <1>7, <1>8, <3>2
    <2> QED BY <2>1, <2>2
  <1>11. AllGood(t, snaps)
    BY <1>7, <1>10 DEF AllGood
  <1> QED BY <1>2, <1>3, <1>6, <1>11

\* Records that fit their keys keep the form of the projection.
LEMMA ApplyingShaped ==
    ASSUME NEW es, IsSeq(es), \A i \in 1 .. Len(es) : Fits(es[i]), NEW v, Shaped(v), NEW w
    PROVE  \A n \in 0 .. Len(es) : Shaped(Applying(v, es, w)[n])
  <1>1. PICK l \in Nat : l = Len(es)
    BY DEF IsSeq
  <1>2. PICK A : A = Applying(v, es, w)
    OBVIOUS
  <1>3. IsView(v)
    BY DEF Shaped
  <1>4. /\ A[0] = v /\ \A n \in 0 .. l : IsView(A[n])
        /\ \A n \in 1 .. l, k \in Keys : A[n][k] = Step(A[n - 1][k], es[n], k, w)
    BY <1>1, <1>2, <1>3, ApplyingAt
  <1>5. ASSUME NEW n \in 1 .. l, NEW k \in Keys, Shape(k, A[n - 1][k]) PROVE Shape(k, A[n][k])
    <2>1. PICK a : a = A[n - 1][k]
      OBVIOUS
    <2>2. PICK e : e = es[n] /\ Fits(e)
      BY <1>1
    <2>3. CASE Touches(e, k) /\ ~Skipped(e, w)
      <3>1. e.key = k /\ Near(k, a, a) /\ Shape(k, a)
        BY <1>5, <2>1, <2>3 DEF Touches, Near
      <3>2. Shape(k, Effect(a, e))
        BY <2>2, <3>1, SameRecord
      <3> QED BY <1>4, <2>1, <2>2, <2>3, <3>2 DEF Step
    <2>4. CASE ~(Touches(e, k) /\ ~Skipped(e, w))
      BY <1>4, <1>5, <2>2, <2>4 DEF Step
    <2> QED BY <2>3, <2>4
  <1> DEFINE Bad == {n \in 0 .. l : ~ \A k \in Keys : Shape(k, A[n][k])}
  <1>6. Bad = {}
    <2> SUFFICES ASSUME Bad # {} PROVE FALSE
      OBVIOUS
    <2>1. PICK n \in Bad : \A y \in Bad : n <= y
      <3>1. Bad \subseteq Nat
        OBVIOUS
      <3> QED BY <3>1, LeastOfNats
    <2>2. n # 0
      BY <1>4, <2>1 DEF Shaped
    <2>3. n \in 1 .. l /\ n - 1 \in 0 .. l /\ ~(n <= n - 1)
      BY <2>1, <2>2
    <2>4. \A k \in Keys : Shape(k, A[n - 1][k])
      BY <2>1, <2>3
    <2> QED BY <1>5, <2>1, <2>3, <2>4
  <1> QED BY <1>1, <1>2, <1>4, <1>6 DEF Shaped

\* How a call ends: c cells of its records are in the file, m of them whole, and it has
\* acknowledged the first known of those.
Ends(x, c, m, known) ==
    /\ c \in 0 .. 4 * Len(x) /\ 4 * m <= c /\ c <= 4 * m + 3
    /\ file' = file \o Written(x, c)
    /\ view' = Applying(view, x, 0)[known]
    /\ \A k \in Keys : possible'[k] = Acknowledged(possible[k], x, known, k)[m]
    /\ process' = "down" \/ (process' = "up" /\ ("torn" \notin Faults => c = 4 * m))
LEMMA PerformEnds ==
    ASSUME process = "up", NEW es, NEW x, x = Numbered(es), IsSeq(x), NEW together, Perform(es, together)
    PROVE  \E c \in Nat, m \in 0 .. Len(x), known \in 0 .. Len(x) : known <= m /\ Ends(x, c, m, known)
  <1>1. PICK n \in Nat : n = Len(x)
    BY DEF IsSeq
  <1>2. CASE Succeed(x)
    <2>1. PICK c \in Nat : c = 4 * n
      OBVIOUS
    <2>2. Ends(x, c, n, n)
      BY <1>1, <1>2, <2>1 DEF Ends, Succeed, Write, Remember, Acknowledge, RecordCells
    <2> QED BY <1>1, <2>2
  <1>3. CASE Throw(x, together)
    <2>1. PICK p \in 0 .. n - 1, residue \in Residues :
            /\ Write(x, RecordCells * p + residue)
            /\ view' = Applying(view, x, 0)[Applied(p, together)]
            /\ Acknowledge(x, Applied(p, together), p + residue \div RecordCells) /\ process' = process
      BY <1>1, <1>3 DEF Throw
    <2>2. residue \in 0 .. 4 /\ ("torn" \notin Faults => residue \in {0, 4})
      BY DEF Residues, RecordCells
    <2>3. PICK known \in 0 .. p : known = Applied(p, together)
      BY DEF Applied
    <2>4. PICK c \in Nat : c = 4 * p + residue
      BY <2>2
    <2>5. PICK m \in 0 .. n : /\ m = p + residue \div 4 /\ 4 * m <= c /\ c <= 4 * m + 3 /\ p <= m /\ c <= 4 * n
                              /\ "torn" \notin Faults => c = 4 * m
      <3>1. CASE residue = 4
        <4>1. 4 \div 4 = 1
          OBVIOUS
        <4>2. p + 1 \in 0 .. n /\ 4 * (p + 1) = c /\ p <= p + 1 /\ c <= 4 * (p + 1) + 3 /\ c <= 4 * n
          BY <2>4, <3>1
        <4> QED BY <3>1, <4>1, <4>2
      <3>2. CASE residue # 4
        <4>1. residue \in 0 .. 3
          BY <2>2, <3>2
        <4>2. residue \div 4 = 0
          BY <4>1
        <4>3. p + 0 \in 0 .. n /\ 4 * (p + 0) <= c /\ p <= p + 0 /\ c <= 4 * (p + 0) + 3 /\ c <= 4 * n
          BY <2>4, <4>1
        <4>4. "torn" \notin Faults => c = 4 * (p + 0)
          BY <2>2, <2>4, <3>2
        <4> QED BY <4>2, <4>3, <4>4
      <3> QED BY <3>1, <3>2
    <2>6. Ends(x, c, m, known)
      <3>1. /\ file' = file \o Written(x, c)
            /\ view' = Applying(view, x, 0)[known]
            /\ \A k \in Keys : possible'[k] = Acknowledged(possible[k], x, known, k)[m]
        BY <2>1, <2>3, <2>4, <2>5 DEF Write, Acknowledge, RecordCells
      <3>2. c \in 0 .. 4 * Len(x)
        BY <1>1, <2>5
      <3> QED BY <2>1, <2>5, <3>1, <3>2 DEF Ends
    <2>7. known \in 0 .. Len(x) /\ known <= m
      BY <1>1, <2>5
    <2> QED BY <1>1, <2>6, <2>7
  <1>4. CASE DieIn(x)
    <2>1. PICK c \in 0 .. 4 * n :
            /\ Write(x, c) /\ process' = "down" /\ Acknowledge(x, 0, c \div RecordCells) /\ UNCHANGED memory
      BY <1>1, <1>4 DEF DieIn, RecordCells
    <2>2. PICK m \in 0 .. n : m = c \div 4 /\ 4 * m <= c /\ c <= 4 * m + 3
      <3>1. c \div 4 \in 0 .. n /\ 4 * (c \div 4) <= c /\ c <= 4 * (c \div 4) + 3
        OBVIOUS
      <3> QED BY <3>1
    <2>3. PICK known \in 0 .. n : known = 0
      OBVIOUS
    <2>4. Applying(view, x, 0)[known] = view
      <3>1. Applying(view, x, 0) = [i \in 0 .. n |->
               IF i = 0 THEN view
               ELSE IF Skipped(x[i], 0) THEN Applying(view, x, 0)[i - 1]
               ELSE Apply(Applying(view, x, 0)[i - 1], x[i])]
        BY <1>1, ApplyingIs
      <3> QED BY <2>3, <3>1
    <2>5. Ends(x, c, m, known)
      <3>1. /\ file' = file \o Written(x, c) /\ view' = view
            /\ \A k \in Keys : possible'[k] = Acknowledged(possible[k], x, known, k)[m]
        BY <2>1, <2>2, <2>3 DEF Write, Acknowledge, RecordCells, memory
      <3> QED BY <1>1, <2>1, <2>2, <2>4, <3>1 DEF Ends
    <2> QED BY <1>1, <2>2, <2>3, <2>5
  <1> QED BY <1>2, <1>3, <1>4 DEF Perform

ShotsInv ==
    /\ IsFiniteSet(snapshots) /\ \A s \in snapshots : s.path \in 1 .. Cardinality(snapshots)
    /\ Distinct(snapshots) /\ \A s \in snapshots : SnapshotOK(s)
KeepInv == AllGood(Events(file), snapshots) /\ ShotsInv /\ Shaped(view)

\* The records of a call with their ids, and the marker of a snapshot.
LEMMA NumberedGood ==
    ASSUME NEW es, Plain(es), NEW snaps
    PROVE  /\ AllGood(Numbered(es), snaps)
           /\ \A i \in 1 .. Len(Numbered(es)) : Fits(Numbered(es)[i]) /\ ~IsMarker(Numbered(es)[i])
  <1>1. IsSeq(es)
    BY DEF Plain
  <1>2. PICK x : x = Numbered(es)
    OBVIOUS
  <1>3. Len(x) = Len(es) /\ \A i \in 1 .. Len(es) : x[i] = [es[i] EXCEPT !.id = nextId + i - 1]
    BY <1>1, <1>2, NumberedIs
  <1>4. ASSUME NEW i \in 1 .. Len(es) PROVE Fits(x[i]) /\ ~IsMarker(x[i])
    <2>1. PICK type, key, value : /\ es[i] = Record(type, key, value)
                                  /\ type # "ProfileSnapshotCreated" /\ Fits(es[i])
      BY DEF Plain
    <2>2. PICK id : id = nextId + i - 1
      OBVIOUS
    <2>3. x[i] = [type |-> type, key |-> key, value |-> value, watermark |-> 0, id |-> id]
      BY <1>3, <2>1, <2>2 DEF Record
    <2>4. PICK a, b : a = x[i] /\ b = es[i]
      OBVIOUS
    <2>5. /\ a.type = type /\ a.key = key /\ a.value = value
          /\ b.type = type /\ b.key = key /\ b.value = value
      BY <2>1, <2>3, <2>4 DEF Record
    <2>6. Fits(a) /\ ~IsMarker(a)
      BY <2>1, <2>4, <2>5 DEF Fits, IsMarker
    <2> QED BY <2>4, <2>6
  <1> QED BY <1>2, <1>3, <1>4 DEF AllGood, Good

\* The calls of games, jobs, variations and drills.
LEMMA AppendsGood ==
    ASSUME StoreInv, KeepInv, Appends
    PROVE  KeepInv'
  <1>1. PICK es, together : /\ Plain(es) /\ process = "up"
                            /\ Perform(es, together) /\ UNCHANGED snapshots
    BY DEF Appends
  <1>2. PICK x : x = Numbered(es)
    OBVIOUS
  <1>3. IsSeq(x) /\ AllGood(x, snapshots) /\ \A i \in 1 .. Len(x) : Fits(x[i])
    BY <1>1, <1>2, NumberedGood, NumberedIs DEF Plain
  <1>4. PICK c \in Nat, m \in 0 .. Len(x), known \in 0 .. Len(x) : known <= m /\ Ends(x, c, m, known)
    BY <1>1, <1>2, <1>3, PerformEnds
  <1>5. IsSeq(file) /\ IsSeq(Events(file))
    BY DEF StoreInv, InOrder, Split
  <1>6. c \in 0 .. 4 * Len(x) /\ file' = file \o Written(x, c) /\ view' = Applying(view, x, 0)[known]
    BY <1>4 DEF Ends
  <1>7. AllGood(Events(file \o Written(x, c)), snapshots)
    BY <1>3, <1>5, <1>6, GoodAfter DEF KeepInv
  <1>8. AllGood(Events(file'), snapshots')
    BY <1>1, <1>6, <1>7
  <1>9. Shaped(Applying(view, x, 0)[known])
    BY <1>3, ApplyingShaped DEF KeepInv
  <1>10. Shaped(view')
    BY <1>6, <1>9
  <1> QED BY <1>1, <1>8, <1>10 DEF KeepInv, ShotsInv

\* The marker of a snapshot, with its id.
Shot == [path |-> Cardinality(snapshots) + 1, watermark |-> applied, view |-> SnapshotView]
Marker == [Record("ProfileSnapshotCreated", <<>>, Cardinality(snapshots) + 1) EXCEPT !.watermark = applied]
LEMMA MarkerIs ==
    ASSUME NEW x, x = Numbered(<<Marker>>), nextId \in Nat
    PROVE  /\ IsSeq(x) /\ Len(x) = 1 /\ Fits(x[1]) /\ IsMarker(x[1]) /\ Backs(Shot, x[1])
           /\ x[1].key = <<>> /\ x[1].watermark = applied /\ x[1].id = nextId
  <1>1. PICK r : r = Marker
    OBVIOUS
  <1>2. IsSeq(<<r>>) /\ Len(<<r>>) = 1 /\ <<r>>[1] = r
    BY OneElement DEF IsSeq
  <1>3. PICK es : es = <<r>>
    OBVIOUS
  <1>4. IsSeq(es) /\ Len(es) = 1 /\ es[1] = r
    BY <1>2, <1>3
  <1>5. /\ IsSeq(x) /\ Len(x) = Len(es)
        /\ \A i \in 1 .. Len(es) : x[i] = [es[i] EXCEPT !.id = nextId + i - 1]
    BY <1>1, <1>3, <1>4, NumberedIs
  <1>6. x[1] = [r EXCEPT !.id = nextId]
    <2>1. 1 \in 1 .. Len(es)
      BY <1>4
    <2>2. x[1] = [r EXCEPT !.id = nextId + 1 - 1]
      BY <1>4, <1>5, <2>1
    <2>3. nextId + 1 - 1 = nextId
      OBVIOUS
    <2> QED BY <2>2, <2>3
  <1>7. PICK path : path = Cardinality(snapshots) + 1
    OBVIOUS
  <1>8. x[1] = [type |-> "ProfileSnapshotCreated", key |-> <<>>, value |-> path,
                watermark |-> applied, id |-> nextId]
    BY <1>1, <1>6, <1>7 DEF Marker, Record
  <1>9. PICK e : e = x[1]
    OBVIOUS
  <1>10. /\ e.type = "ProfileSnapshotCreated" /\ e.key = <<>> /\ e.value = path
         /\ e.watermark = applied /\ e.id = nextId
    BY <1>8, <1>9
  <1>11. Fits(e) /\ IsMarker(e)
    BY <1>10, NoKey DEF Fits, IsMarker, LineTypes
  <1>12. Backs(Shot, e)
    BY <1>7, <1>10 DEF Backs, Shot
  <1> QED BY <1>4, <1>5, <1>9, <1>10, <1>11, <1>12

\* One more snapshot.
LEMMA OneMoreShot ==
    ASSUME ShotsInv, applied \in Nat, Shaped(view), NEW snaps, snaps = snapshots \cup {Shot}
    PROVE  /\ IsFiniteSet(snaps) /\ \A s \in snaps : s.path \in 1 .. Cardinality(snaps)
           /\ Distinct(snaps) /\ \A s \in snaps : SnapshotOK(s)
  <1>1. PICK c \in Nat : c = Cardinality(snapshots)
    BY FS_CardinalityType DEF ShotsInv
  <1>2. Shot.path = c + 1 /\ Shot.watermark = applied /\ Shot.view = SnapshotView
    BY <1>1 DEF Shot
  <1>3. \A s \in snapshots : s.path \in 1 .. c
    BY <1>1 DEF ShotsInv
  <1>4. Shot \notin snapshots
    BY <1>2, <1>3
  <1>5. IsFiniteSet(snaps) /\ Cardinality(snaps) = c + 1
    BY <1>1, <1>4, FS_AddElement DEF ShotsInv
  <1>6. \A s \in snaps : s.path \in 1 .. c + 1
    BY <1>2, <1>3
  <1>7. Distinct(snaps)
    <2> SUFFICES ASSUME NEW s \in snaps, NEW t \in snaps, s.path = t.path PROVE s = t
      BY DEF Distinct
    <2>1. CASE s \in snapshots /\ t \in snapshots
      BY <2>1 DEF ShotsInv, Distinct
    <2>2. CASE s = Shot /\ t = Shot
      BY <2>2
    <2>3. CASE s \in snapshots /\ t = Shot
      BY <1>2, <1>3, <2>3
    <2>4. CASE s = Shot /\ t \in snapshots
      BY <1>2, <1>3, <2>4
    <2> QED BY <2>1, <2>2, <2>3, <2>4
  <1>8. Shaped(SnapshotView) /\ \A k \in Keys : IsLine(k) => SnapshotView[k] = Fresh[k]
    <2>1. \A k \in Keys : SnapshotView[k] = IF IsLine(k) THEN Fresh[k] ELSE view[k]
      BY DEF SnapshotView
    <2>2. IsView(SnapshotView)
      BY DEF SnapshotView, IsView
    <2>3. \A k \in Keys : Shape(k, SnapshotView[k])
      BY <2>1, FreshShaped DEF Shaped
    <2> QED BY <2>1, <2>2, <2>3 DEF Shaped
  <1>9. SnapshotOK(Shot)
    BY <1>2, <1>8 DEF SnapshotOK
  <1>10. \A s \in snaps : SnapshotOK(s)
    BY <1>9 DEF ShotsInv
  <1> QED BY <1>5, <1>6, <1>7, <1>10

\* A snapshot and its marker.
LEMMA SnapshotGood ==
    ASSUME StoreInv, KeepInv, CreateSnapshot
    PROVE  KeepInv'
  <1>1. /\ process = "up" /\ snapshots' = snapshots \cup {Shot} /\ Perform(<<Marker>>, 1)
    BY DEF CreateSnapshot, Ready, Shot, Marker
  <1>2. applied \in Nat /\ nextId \in Nat /\ IsSeq(file) /\ IsSeq(Events(file))
    BY DEF StoreInv, Counts, InOrder, Split
  <1>3. PICK snaps : snaps = snapshots \cup {Shot}
    OBVIOUS
  <1>4. /\ IsFiniteSet(snaps) /\ \A s \in snaps : s.path \in 1 .. Cardinality(snaps)
        /\ Distinct(snaps) /\ \A s \in snaps : SnapshotOK(s)
    BY <1>2, <1>3, OneMoreShot DEF KeepInv
  <1>5. ShotsInv'
    BY <1>1, <1>3, <1>4 DEF ShotsInv
  <1>6. PICK x : x = Numbered(<<Marker>>)
    OBVIOUS
  <1>7. IsSeq(x) /\ Len(x) = 1 /\ Fits(x[1]) /\ IsMarker(x[1]) /\ Backs(Shot, x[1])
    BY <1>2, <1>6, MarkerIs
  <1>8. \A i \in 1 .. Len(x) : i = 1
    BY <1>7
  <1>9. AllGood(x, snaps)
    BY <1>3, <1>7, <1>8 DEF AllGood, Good
  <1>10. AllGood(Events(file), snaps)
    BY <1>3 DEF KeepInv, AllGood, Good
  <1>11. IsSeq(x)
    BY <1>7
  <1>12. PICK c \in Nat, m \in 0 .. Len(x), known \in 0 .. Len(x) : known <= m /\ Ends(x, c, m, known)
    BY <1>1, <1>6, <1>11, PerformEnds
  <1>13. c \in 0 .. 4 * Len(x) /\ file' = file \o Written(x, c) /\ view' = Applying(view, x, 0)[known]
    BY <1>12 DEF Ends
  <1>14. AllGood(Events(file \o Written(x, c)), snaps)
    BY <1>2, <1>9, <1>10, <1>11, <1>13, GoodAfter
  <1>15. AllGood(Events(file'), snapshots')
    BY <1>1, <1>3, <1>13, <1>14
  <1>16. \A i \in 1 .. Len(x) : Fits(x[i])
    BY <1>7, <1>8
  <1>17. Shaped(Applying(view, x, 0)[known])
    BY <1>11, <1>16, ApplyingShaped DEF KeepInv
  <1>18. Shaped(view')
    BY <1>13, <1>17
  <1> QED BY <1>5, <1>15, <1>18 DEF KeepInv

\* What is in the file after a compaction.
LEMMA CompactedReads ==
    ASSUME NEW f, IsSeq(f), Split(Events(f)), NEW id,
           NEW last, last = [id |-> id, type |-> "LogCompacted", key |-> <<>>],
           NEW C, C = Append(Retained(Events(f)), last)
    PROVE  /\ IsSeq(C) /\ Compacted(f, id) = Written(C, 4 * Len(C)) /\ Events(Compacted(f, id)) = C
           /\ last.key = <<>> /\ ~IsMarker(last)
  <1>1. IsSeq(Events(f))
    BY DEF Split
  <1>2. PICK R : R = Retained(Events(f)) /\ IsSeq(R)
    BY <1>1, RetainedDrawn
  <1>3. IsSeq(C)
    <2>1. PICK S : R \in Seq(S)
      BY <1>2 DEF IsSeq
    <2>2. Append(R, last) \in Seq(S \cup {last})
      BY <2>1
    <2> QED BY <1>2, <2>2 DEF IsSeq
  <1>4. Compacted(f, id) = Written(C, 4 * Len(C))
    BY DEF Compacted, RecordCells
  <1>5. PICK g : g = Written(C, 4 * Len(C))
    OBVIOUS
  <1>6. Events(g) = C
    BY <1>3, <1>5, WholeReads
  <1> QED BY <1>3, <1>4, <1>5, <1>6 DEF IsMarker

\* So compaction changes nothing that a start shows.
LEMMA KeepsCompaction ==
    ASSUME InOrder, KeepInv
    PROVE  /\ Rebuild(Events(Compacted(file, nextId)), snapshots) = Rebuild(Events(file), snapshots)
           /\ Rebuild(Events(Compacted(file, nextId)), {}) = Rebuild(Events(file), {})
  <1>1. PICK last : last = [id |-> nextId, type |-> "LogCompacted", key |-> <<>>]
    OBVIOUS
  <1>2. PICK E : E = Events(file)
    OBVIOUS
  <1>3. PICK C : C = Append(Retained(E), last)
    OBVIOUS
  <1>4. IsSeq(file) /\ Split(Events(file))
    BY DEF InOrder
  <1>5. Split(E)
    BY <1>2, <1>4
  <1>6. Events(Compacted(file, nextId)) = C /\ last.key = <<>> /\ ~IsMarker(last)
    BY <1>1, <1>2, <1>3, <1>4, CompactedReads
  <1>7. \A i \in 1 .. Len(E) : Fits(E[i])
    BY <1>2 DEF KeepInv, AllGood, Good
  <1>8. Distinct(snapshots) /\ Backed(E, snapshots) /\ \A s \in snapshots : SnapshotOK(s)
    BY <1>2 DEF KeepInv, ShotsInv, AllGood, Good, Backed
  <1>9. Rebuild(Append(Retained(E), last), snapshots) = Rebuild(E, snapshots)
    BY <1>5, <1>6, <1>7, <1>8, CompactedRebuilds
  <1>10. Rebuild(Append(Retained(E), last), {}) = Rebuild(E, {})
    BY <1>5, <1>6, <1>7, CompactedRebuildsFresh
  <1> QED BY <1>2, <1>3, <1>6, <1>9, <1>10

\* A compaction.
LEMMA CompactGood ==
    ASSUME StoreInv, KeepInv, Compact
    PROVE  KeepInv'
  <1>1. file' = Compacted(file, nextId) /\ view' = view /\ snapshots' = snapshots
    BY DEF Compact, memory
  <1>2. PICK last : last = [id |-> nextId, type |-> "LogCompacted", key |-> <<>>]
    OBVIOUS
  <1>3. PICK E : E = Events(file)
    OBVIOUS
  <1>4. PICK C : C = Append(Retained(E), last)
    OBVIOUS
  <1>5. IsSeq(file) /\ Split(Events(file))
    BY DEF StoreInv, InOrder
  <1>6. Events(Compacted(file, nextId)) = C /\ last.key = <<>> /\ ~IsMarker(last)
    <2>1. C = Append(Retained(Events(file)), last)
      BY <1>3, <1>4
    <2> QED BY <1>2, <1>5, <2>1, CompactedReads
  <1>7. Good(last, snapshots)
    <2>1. last.type = "LogCompacted"
      BY <1>2
    <2> QED BY <1>6, <2>1, NoKey DEF Good, Fits
  <1>8. IsSeq(E)
    BY <1>3, <1>5 DEF Split
  <1>9. PICK R : R = Retained(E) /\ IsSeq(R) /\ Drawn(R, E)
    BY <1>8, RetainedDrawn
  <1>10. PICK n \in Nat : n = Len(R)
    BY <1>9 DEF IsSeq
  <1>11. \A i \in 1 .. n : Good(R[i], snapshots)
    BY <1>3, <1>9, <1>10 DEF Drawn, KeepInv, AllGood
  <1>12. Len(C) = n + 1 /\ C[n + 1] = last /\ \A i \in 1 .. n : C[i] = R[i]
    BY <1>4, <1>9, <1>10 DEF IsSeq
  <1>13. ASSUME NEW i \in 1 .. n + 1 PROVE Good(C[i], snapshots)
    <2>1. CASE i = n + 1
      BY <1>7, <1>12, <2>1
    <2>2. CASE i # n + 1
      <3>1. i \in 1 .. n
        BY <2>2
      <3> QED BY <1>11, <1>12, <3>1
    <2> QED BY <2>1, <2>2
  <1>14. AllGood(C, snapshots)
    BY <1>12, <1>13 DEF AllGood
  <1> QED BY <1>1, <1>6, <1>14 DEF KeepInv, ShotsInv

\* A start.
LEMMA BootGood ==
    ASSUME StoreInv, KeepInv, Boot
    PROVE  KeepInv'
  <1>1. PICK E : E = Events(file)
    OBVIOUS
  <1>2. IsSeq(file) /\ Split(E) /\ IsSeq(E)
    BY <1>1 DEF StoreInv, InOrder, Split
  <1>3. Events(Recovered(file)) = E
    BY <1>1, <1>2, Recovers
  <1>4. file' = Recovered(file) /\ view' = Rebuild(E, snapshots) /\ snapshots' = snapshots
    BY <1>3 DEF Boot
  <1>5. /\ Distinct(snapshots) /\ Backed(E, snapshots) /\ (\A s \in snapshots : SnapshotOK(s))
        /\ \A i \in 1 .. Len(E) : Fits(E[i])
    BY <1>1 DEF KeepInv, ShotsInv, AllGood, Good, Backed
  <1>6. PICK w, v : StartOf(E, snapshots) = StartAt(w, v) /\ Shaped(v)
    BY <1>2, <1>5, StartsWell
  <1>7. PICK n \in Nat : n = Len(E)
    BY <1>2 DEF IsSeq
  <1>8. Rebuild(E, snapshots) = Applying(v, E, w)[n]
    BY <1>6, <1>7 DEF Rebuild, StartAt
  <1>9. n \in 0 .. Len(E)
    BY <1>7
  <1>10. Shaped(Applying(v, E, w)[n])
    BY <1>2, <1>5, <1>6, <1>9, ApplyingShaped
  <1> QED BY <1>1, <1>3, <1>4, <1>8, <1>10 DEF KeepInv, ShotsInv

LEMMA KeepStep ==
    ASSUME StoreInv, KeepInv, [StoreNext]_storeVars
    PROVE  KeepInv'
  <1>1. CASE Stop
    BY <1>1 DEF Stop, KeepInv, ShotsInv, disk, memory
  <1>2. CASE UNCHANGED storeVars
    BY <1>2 DEF storeVars, KeepInv, ShotsInv, disk, memory
  <1> QED BY <1>1, <1>2, StoreSteps, AppendsGood, SnapshotGood, CompactGood, BootGood

LEMMA KeepInitially ==
    StoreInit => StoreInv /\ KeepInv
  <1> SUFFICES ASSUME StoreInit PROVE StoreInv /\ KeepInv
    OBVIOUS
  <1>1. \A i \in 1 .. Len(<<>>) : FALSE
    OBVIOUS
  <1>2. StoreInv
    BY <1>1, EmptyFile DEF StoreInit, StoreInv, InOrder, Counts, Ahead
  <1>3. AllGood(Events(file), snapshots)
    BY <1>1, EmptyFile DEF StoreInit, AllGood
  <1>4. ShotsInv
    BY FS_EmptySet DEF StoreInit, ShotsInv, Distinct
  <1> QED BY <1>2, <1>3, <1>4, FreshShaped DEF StoreInit, KeepInv

\* Whatever calls, failures and starts came before, compaction of a log that reads without
\* damage drops only records whose effect a later one replaces: a start shows the same
\* before and after it, with the snapshots and without them.
THEOREM CompactionAlwaysKeeps ==
    StoreSpec => []CompactionKeeps
  <1>1. StoreInit => StoreInv /\ KeepInv
    BY KeepInitially
  <1>2. StoreInv /\ KeepInv /\ [StoreNext]_storeVars => (StoreInv /\ KeepInv)'
    BY StoreStep, KeepStep
  <1>3. StoreInv /\ KeepInv => CompactionKeeps
    <2> SUFFICES ASSUME StoreInv, KeepInv PROVE CompactionKeeps
      OBVIOUS
    <2>1. InOrder
      BY DEF StoreInv
    <2> QED BY <2>1, KeepsCompaction DEF CompactionKeeps
  <1> QED BY <1>1, <1>2, <1>3, PTL DEF StoreSpec

-----------------------------------------------------------------------------
(* What a start may show.                                                   *)

\* The values a key may show after each of some records follow each other.
LEMMA AcknowledgedIs ==
    ASSUME NEW es, IsSeq(es), NEW S, NEW known, NEW k
    PROVE  Acknowledged(S, es, known, k) = [n \in 0 .. Len(es) |->
               IF n = 0 THEN S
               ELSE AfterEffect(Acknowledged(S, es, known, k)[n - 1], es[n], k)
                    \cup (IF n <= known THEN {} ELSE Acknowledged(S, es, known, k)[n - 1])]
  <1> DEFINE Go(x, n) == AfterEffect(x, es[n], k) \cup (IF n <= known THEN {} ELSE x)
             Part(g, m) == g = [n \in 0 .. m |-> IF n = 0 THEN S ELSE Go(g[n - 1], n)]
             Bad == {m \in 0 .. Len(es) : \A g : ~Part(g, m)}
  <1>4. Acknowledged(S, es, known, k) =
           CHOOSE after : after = [n \in 0 .. Len(es) |-> IF n = 0 THEN S ELSE Go(after[n - 1], n)]
    BY DEF Acknowledged
  <1> HIDE DEF Go
  <1>1. Len(es) \in Nat
    BY DEF IsSeq
  <1>2. Bad = {}
    <2> SUFFICES ASSUME Bad # {} PROVE FALSE
      OBVIOUS
    <2>1. PICK m \in Bad : \A y \in Bad : m <= y
      <3>1. Bad \subseteq Nat
        BY <1>1
      <3> QED BY <3>1, LeastOfNats
    <2>2. CASE m = 0
      <3> DEFINE g == [n \in 0 .. 0 |-> S]
      <3>1. \A n \in 0 .. 0 : n = 0
        OBVIOUS
      <3>2. g = [n \in 0 .. m |-> IF n = 0 THEN S ELSE Go(g[n - 1], n)]
        BY <2>2, <3>1
      <3> QED BY <2>1, <3>2
    <2>3. CASE m # 0
      <3>1. m - 1 \in 0 .. Len(es) /\ m - 1 \notin Bad /\ m \in 1 .. Len(es)
        <4>1. m \in 0 .. Len(es)
          BY <2>1
        <4>2. m \in 1 .. Len(es) /\ m - 1 \in 0 .. Len(es) /\ ~(m <= m - 1)
          BY <1>1, <2>3, <4>1
        <4> QED BY <2>1, <4>2
      <3>2. PICK g : Part(g, m - 1)
        BY <3>1
      <3> DEFINE h == [n \in 0 .. m |-> IF n = m THEN Go(g[m - 1], m) ELSE g[n]]
      <3>3. m \in Nat /\ m >= 1
        BY <3>1
      <3>4. \A n \in 0 .. m - 1 : n \in 0 .. m /\ n # m /\ h[n] = g[n]
        BY <3>3
      <3>5. ASSUME NEW n \in 0 .. m
            PROVE  h[n] = IF n = 0 THEN S ELSE Go(h[n - 1], n)
        <4>1. CASE n = 0
          <5>1. n \in 0 .. m - 1
            BY <3>3, <4>1
          <5> HIDE DEF h
          <5> QED BY <3>2, <3>4, <4>1, <5>1
        <4>2. CASE n # 0 /\ n # m
          <5>1. n \in 0 .. m - 1 /\ n - 1 \in 0 .. m - 1
            BY <3>3, <4>2
          <5>2. g[n] = Go(g[n - 1], n)
            BY <3>2, <4>2, <5>1
          <5> HIDE DEF h
          <5> QED BY <3>4, <4>2, <5>1, <5>2
        <4>3. CASE n = m
          <5>1. m - 1 \in 0 .. m - 1 /\ m \in 0 .. m /\ m # 0
            BY <3>3
          <5>2. h[m] = Go(g[m - 1], m)
            BY <5>1
          <5>3. h[m - 1] = g[m - 1]
            BY <3>4, <5>1
          <5> HIDE DEF h
          <5> QED BY <4>3, <5>1, <5>2, <5>3
        <4> QED BY <4>1, <4>2, <4>3
      <3>6. h = [n \in 0 .. m |-> h[n]]
        OBVIOUS
      <3> HIDE DEF h
      <3>7. Part(h, m)
        BY <3>5, <3>6
      <3> QED BY <2>1, <3>7
    <2> QED BY <2>2, <2>3
  <1>3. PICK g : Part(g, Len(es))
    BY <1>1, <1>2
  <1>5. Part(Acknowledged(S, es, known, k), Len(es))
    BY <1>3, <1>4
  <1> QED BY <1>5 DEF Go

\* The value of a key through m records, from one that it may show: it may show the value
\* after all of them, and the one after those that are acknowledged.
Values(A, es, m, k) ==
    \A n \in 1 .. m : A[n] = IF Touches(es[n], k) THEN Effect(A[n - 1], es[n]) ELSE A[n - 1]
LEMMA AcknowledgedHas ==
    ASSUME NEW es, IsSeq(es), NEW m \in 0 .. Len(es), NEW known \in 0 .. m, NEW k,
           NEW S, NEW A, A[0] \in S, Values(A, es, m, k)
    PROVE  /\ A[m] \in Acknowledged(S, es, known, k)[m]
           /\ A[known] \in Acknowledged(S, es, known, k)[m]
  <1>1. PICK l \in Nat : l = Len(es)
    BY DEF IsSeq
  <1>2. PICK P : P = Acknowledged(S, es, known, k)
    OBVIOUS
  <1>3. \A n \in 0 .. l : P[n] = IF n = 0 THEN S
                                 ELSE AfterEffect(P[n - 1], es[n], k) \cup (IF n <= known THEN {} ELSE P[n - 1])
    <2>1. P = [n \in 0 .. l |-> IF n = 0 THEN S
                 ELSE AfterEffect(P[n - 1], es[n], k) \cup (IF n <= known THEN {} ELSE P[n - 1])]
      BY <1>1, <1>2, AcknowledgedIs
    <2> QED BY <2>1
  <1>4. P[0] = S
    <2>1. 0 \in 0 .. l
      BY <1>1
    <2> QED BY <1>3, <2>1
  <1>5. ASSUME NEW n \in 1 .. m, A[n - 1] \in P[n - 1] PROVE A[n] \in P[n]
    <2>1. n \in 0 .. l /\ n # 0
      BY <1>1
    <2>2. AfterEffect(P[n - 1], es[n], k) \subseteq P[n]
      BY <1>3, <2>1
    <2>3. A[n] \in AfterEffect(P[n - 1], es[n], k)
      BY <1>5 DEF AfterEffect, Values
    <2> QED BY <2>2, <2>3
  <1>6. ASSUME NEW n \in 1 .. m, n > known PROVE P[n - 1] \subseteq P[n]
    <2>1. n \in 0 .. l /\ n # 0 /\ ~(n <= known)
      BY <1>1, <1>6
    <2> QED BY <1>3, <2>1
  <1> DEFINE Bad == {n \in 0 .. m : ~(A[n] \in P[n] /\ (n >= known => A[known] \in P[n]))}
  <1>7. Bad = {}
    <2> SUFFICES ASSUME Bad # {} PROVE FALSE
      OBVIOUS
    <2>1. PICK n \in Bad : \A y \in Bad : n <= y
      <3>1. Bad \subseteq Nat
        OBVIOUS
      <3> QED BY <3>1, LeastOfNats
    <2>2. CASE n = 0
      <3>1. n >= known => known = n
        BY <2>2
      <3> QED BY <1>4, <2>1, <2>2, <3>1
    <2>3. CASE n # 0
      <3>1. n \in 1 .. m /\ n - 1 \in 0 .. m /\ ~(n <= n - 1)
        BY <2>1, <2>3
      <3>2. A[n - 1] \in P[n - 1] /\ (n - 1 >= known => A[known] \in P[n - 1])
        BY <2>1, <3>1
      <3>3. A[n] \in P[n]
        BY <1>5, <3>1, <3>2
      <3>4. CASE n > known
        <4>1. n - 1 >= known
          BY <3>1, <3>4
        <4> QED BY <1>6, <2>1, <3>1, <3>2, <3>3, <3>4, <4>1
      <3>5. CASE ~(n > known)
        <4>1. n >= known => known = n
          BY <3>1, <3>5
        <4> QED BY <2>1, <3>3, <4>1
      <3> QED BY <3>4, <3>5
    <2> QED BY <2>2, <2>3
  <1>8. m \in 0 .. m /\ m >= known
    OBVIOUS
  <1> QED BY <1>2, <1>7, <1>8

\* What the file holds after a call, if it held E without damage before: all of E and the
\* first m records of the call.
ExtendedBy(t, E, x, m) ==
    /\ IsSeq(t) /\ Len(t) = Len(E) + m
    /\ \A i \in 1 .. Len(E) : t[i] = E[i]
    /\ \A i \in 1 .. m : t[Len(E) + i] = x[i]
Continued(f, E, x, c, m) ==
    /\ c \in 0 .. 4 * Len(x) /\ 4 * m <= c /\ c <= 4 * m + 3
    /\ f = Written(E, 4 * Len(E)) \o Written(x, c)
LEMMA WholeAfter ==
    ASSUME NEW E, IsSeq(E), NEW x, IsSeq(x), NEW m \in 0 .. Len(x), NEW c, NEW f, Continued(f, E, x, c, m)
    PROVE  \E t : /\ ExtendedBy(t, E, x, m) /\ Events(f) = t
                  /\ c = 4 * m => f = Written(t, 4 * Len(t))
  <1>0. /\ c \in 0 .. 4 * Len(x) /\ 4 * m <= c /\ c <= 4 * m + 3
        /\ f = Written(E, 4 * Len(E)) \o Written(x, c)
    BY DEF Continued
  <1>1. PICK a \in Nat, b \in Nat : a = Len(E) /\ b = Len(x)
    BY DEF IsSeq
  <1>2. PICK T : T = E \o x
    OBVIOUS
  <1>3. IsSeq(T)
    BY <1>2, Both
  <1>4. Len(T) = a + b /\ (\A i \in 1 .. a : T[i] = E[i]) /\ (\A i \in 1 .. b : T[a + i] = x[i])
    BY <1>1, <1>2, Both
  <1>5. PICK d \in 0 .. 4 * (a + b) : d = 4 * a + c
    BY <1>0, <1>1
  <1>6. f = Written(T, d)
    BY <1>0, <1>1, <1>2, <1>5, WrittenBoth
  <1>7. PICK p \in 0 .. a + b : p = a + m
    BY <1>1
  <1>8. 4 * p <= d /\ d <= 4 * p + 3 /\ (c = 4 * m => d = 4 * p)
    <2>1. c \in Nat /\ m \in Nat /\ d = 4 * a + c /\ p = a + m /\ 4 * m <= c /\ c <= 4 * m + 3
      BY <1>0, <1>1, <1>5, <1>7
    <2> QED BY <2>1
  <1>9. PICK t : t = SubSeq(T, 1, p)
    OBVIOUS
  <1>10. p \in 0 .. Len(T) /\ d \in 0 .. 4 * Len(T)
    BY <1>4, <1>5, <1>7
  <1>11. Events(f) = SubSeq(T, 1, p)
    BY <1>3, <1>6, <1>8, <1>10, WrittenReads
  <1>12. IsSeq(t) /\ Len(t) = p /\ \A i \in 1 .. p : t[i] = T[i]
    BY <1>3, <1>9, <1>10, PrefixFacts
  <1>13. \A i \in 1 .. a : i \in 1 .. p
    BY <1>7
  <1>14. \A i \in 1 .. m : a + i \in 1 .. p /\ i \in 1 .. b
    BY <1>1, <1>7
  <1>15. ExtendedBy(t, E, x, m)
    BY <1>1, <1>4, <1>7, <1>12, <1>13, <1>14 DEF ExtendedBy
  <1>16. c = 4 * m => f = Written(t, 4 * Len(t))
    <2> SUFFICES ASSUME c = 4 * m PROVE f = Written(t, 4 * Len(t))
      OBVIOUS
    <2>1. d = 4 * p /\ d \in 0 .. 4 * p
      BY <1>8
    <2>2. Written(T, d) = Written(SubSeq(T, 1, p), d)
      BY <1>3, <1>10, <2>1, WrittenShort
    <2> QED BY <1>6, <1>9, <1>12, <2>1, <2>2
  <1> QED BY <1>9, <1>11, <1>15, <1>16

\* A start after more records than E, none of them another marker, begins as after E.
LEMMA SameStart ==
    ASSUME NEW E, Split(E), NEW t, NEW snaps, NEW more, snaps \subseteq more,
           Backed(E, snaps), Distinct(more), ToSet(E) \subseteq ToSet(t),
           \A e \in ToSet(t) : e \in ToSet(E) \/ ~IsMarker(e)
    PROVE  StartOf(t, more) = StartOf(E, snaps)
  <1>1. CASE \A e \in ToSet(E) : ~IsMarker(e)
    <2>1. \A e \in ToSet(t) : ~IsMarker(e)
      BY <1>1
    <2> QED BY <1>1, <2>1, StartsFresh
  <1>2. CASE ~ \A e \in ToSet(E) : ~IsMarker(e)
    <2>1. PICK m \in 1 .. Len(E) : Newest(E, E[m])
      BY <1>2, LastMarker
    <2>2. IsMarker(E[m])
      BY <2>1 DEF Newest
    <2>3. PICK s \in snaps : Backs(s, E[m])
      BY <2>2 DEF Backed
    <2>4. Newest(t, E[m])
      BY <2>1 DEF Newest
    <2>5. Distinct(snaps)
      BY DEF Distinct
    <2>6. StartOf(E, snaps) = StartAt(s.watermark, s.view)
      BY <2>1, <2>3, <2>5, StartsThere
    <2>7. s \in more
      BY <2>3
    <2>8. StartOf(t, more) = StartAt(s.watermark, s.view)
      BY <2>3, <2>4, <2>7, StartsThere
    <2> QED BY <2>6, <2>8
  <1> QED BY <1>1, <1>2

LEMMA ExtendedSet ==
    ASSUME NEW E, IsSeq(E), NEW x, NEW m \in Nat, NEW t, ExtendedBy(t, E, x, m)
    PROVE  /\ ToSet(E) \subseteq ToSet(t)
           /\ \A e \in ToSet(t) : e \in ToSet(E) \/ \E i \in 1 .. m : e = x[i]
  <1>1. PICK a \in Nat : a = Len(E) /\ DOMAIN E = 1 .. a
    BY DEF IsSeq
  <1>2. DOMAIN t = 1 .. a + m
    BY <1>1 DEF ExtendedBy, IsSeq
  <1>3. (\A i \in 1 .. a : t[i] = E[i]) /\ (\A i \in 1 .. m : t[a + i] = x[i])
    BY <1>1 DEF ExtendedBy
  <1>4. ToSet(E) \subseteq ToSet(t)
    <2> SUFFICES ASSUME NEW i \in 1 .. a PROVE E[i] \in ToSet(t)
      BY <1>1 DEF ToSet
    <2>1. i \in 1 .. a + m /\ t[i] = E[i]
      BY <1>3
    <2> QED BY <1>2, <2>1 DEF ToSet
  <1>5. ASSUME NEW j \in 1 .. a + m PROVE t[j] \in ToSet(E) \/ \E i \in 1 .. m : t[j] = x[i]
    <2>1. CASE j <= a
      <3>1. j \in 1 .. a /\ t[j] = E[j]
        BY <1>3, <2>1
      <3> QED BY <1>1, <3>1 DEF ToSet
    <2>2. CASE j > a
      <3>1. PICK i \in 1 .. m : i = j - a
        BY <2>2
      <3>2. j = a + i
        BY <3>1
      <3> QED BY <1>3, <3>2
    <2> QED BY <2>1, <2>2
  <1> QED BY <1>2, <1>4, <1>5 DEF ToSet

\* A sequence that begins with E does what E does first.
LEMMA ApplyingFirst ==
    ASSUME NEW E, IsSeq(E), NEW t, IsSeq(t), NEW a \in Nat, SameFrom(t, 0, E, 0, a),
           NEW m \in Nat, Len(t) = Len(E) + m, NEW v, IsView(v), NEW w
    PROVE  Applying(v, t, w)[a] = Applying(v, E, w)[a]
  <1>1. PICK i \in Nat, j \in Nat : i = 0 /\ j = 0
    OBVIOUS
  <1>2. SameFrom(t, i, E, j, a)
    BY <1>1
  <1>3. Applying(v, t, w)[i] = Applying(v, E, w)[j]
    BY <1>1, ApplyingAt
  <1>4. \A n \in 0 .. a : Applying(v, t, w)[i + n] = Applying(v, E, w)[j + n]
    BY <1>2, <1>3, ApplyingSame
  <1>5. a \in 0 .. a /\ i + a = a /\ j + a = a
    BY <1>1
  <1> QED BY <1>4, <1>5

\* Key by key, what m records do that the watermark does not cover.
Uncovered(x, m, w) == \A i \in 1 .. m : ~Skipped(x[i], w)
Leads(a, b, x, m, k) == \E A : A[0] = a /\ A[m] = b /\ Values(A, x, m, k)
LEMMA Continues ==
    ASSUME NEW E, IsSeq(E), NEW x, NEW m \in Nat, NEW t, ExtendedBy(t, E, x, m),
           NEW v, IsView(v), NEW w, Uncovered(x, m, w), NEW k \in Keys
    PROVE  Leads(Applying(v, E, w)[Len(E)][k], Applying(v, t, w)[Len(t)][k], x, m, k)
  <1>1. PICK a \in Nat : a = Len(E)
    BY DEF IsSeq
  <1>2. /\ IsSeq(t) /\ Len(t) = a + m
        /\ \A i \in 1 .. a : t[i] = E[i]
        /\ \A i \in 1 .. m : t[a + i] = x[i]
    BY <1>1 DEF ExtendedBy
  <1>3. PICK P, Q : P = Applying(v, t, w) /\ Q = Applying(v, E, w)
    OBVIOUS
  <1>4. /\ P[0] = v
        /\ \A n \in 1 .. a + m : P[n][k] = Step(P[n - 1][k], t[n], k, w)
    <2>1. IsSeq(t)
      BY <1>2
    <2>2. /\ Applying(v, t, w)[0] = v
          /\ \A n \in 1 .. Len(t), j \in Keys :
                Applying(v, t, w)[n][j] = Step(Applying(v, t, w)[n - 1][j], t[n], j, w)
      BY <2>1, ApplyingAt
    <2>3. P = Applying(v, t, w) /\ Len(t) = a + m
      BY <1>2, <1>3
    <2> QED BY <2>2, <2>3
  <1>5. P[a] = Q[a]
    <2>1. SameFrom(t, 0, E, 0, a)
      BY <1>1, <1>2 DEF SameFrom
    <2>2. IsSeq(t)
      BY <1>2
    <2>3. Len(t) = Len(E) + m
      BY <1>1, <1>2
    <2>4. Applying(v, t, w)[a] = Applying(v, E, w)[a]
      BY <2>1, <2>2, <2>3, ApplyingFirst
    <2> QED BY <1>3, <2>4
  <1> DEFINE A == [n \in 0 .. m |-> P[a + n][k]]
  <1>6. A[0] = P[a][k] /\ A[m] = P[a + m][k]
    <2>1. 0 \in 0 .. m /\ m \in 0 .. m /\ a + 0 = a
      OBVIOUS
    <2> QED BY <2>1
  <1>7. Values(A, x, m, k)
    <2> SUFFICES ASSUME NEW n \in 1 .. m
                 PROVE  A[n] = IF Touches(x[n], k) THEN Effect(A[n - 1], x[n]) ELSE A[n - 1]
      BY DEF Values
    <2>1. n \in 0 .. m /\ n - 1 \in 0 .. m /\ a + n \in 1 .. a + m /\ (a + n) - 1 = a + (n - 1)
      OBVIOUS
    <2>2. P[a + n][k] = Step(P[a + (n - 1)][k], x[n], k, w)
      BY <1>2, <1>4, <2>1
    <2>3. A[n] = P[a + n][k] /\ A[n - 1] = P[a + (n - 1)][k]
      BY <2>1
    <2> HIDE DEF A
    <2> QED BY <2>2, <2>3 DEF Step, Uncovered
  <1> HIDE DEF A
  <1> QED BY <1>1, <1>2, <1>3, <1>5, <1>6, <1>7 DEF Leads

\* While the process is up the log holds whole records only; what a start would show, and
\* what the projection shows, are values that it may show.
WholeInv ==
    \E E : \E c \in 0 .. 4 * Len(E) :
        IsSeq(E) /\ file = Written(E, c) /\ (process = "up" => c = 4 * Len(E))
DurableInv ==
    /\ WholeInv
    /\ \A k \in Keys : Rebuild(Events(file), snapshots)[k] \in possible[k]
    /\ process = "up" => \A k \in Keys : view[k] \in possible[k]

LEMMA WholeUp ==
    ASSUME WholeInv, process = "up"
    PROVE  \E E : IsSeq(E) /\ file = Written(E, 4 * Len(E)) /\ Events(file) = E
  <1>1. PICK E : IsSeq(E) /\ file = Written(E, 4 * Len(E))
    BY DEF WholeInv
  <1>2. Events(file) = E
    BY <1>1, WholeReads
  <1> QED BY <1>1, <1>2

\* The file after a call.
LEMMA WholeStays ==
    ASSUME WholeInv, process = "up", "torn" \notin Faults, NEW x, IsSeq(x), NEW c, NEW m \in 0 .. Len(x),
           NEW known, Ends(x, c, m, known)
    PROVE  WholeInv' /\ \E t : ExtendedBy(t, Events(file), x, m) /\ Events(file') = t
  <1>1. PICK E : IsSeq(E) /\ file = Written(E, 4 * Len(E)) /\ Events(file) = E
    BY WholeUp
  <1>2. /\ c \in 0 .. 4 * Len(x) /\ 4 * m <= c /\ c <= 4 * m + 3
        /\ file' = file \o Written(x, c)
        /\ process' = "down" \/ (process' = "up" /\ c = 4 * m)
    BY DEF Ends
  <1>3. file' = Written(E, 4 * Len(E)) \o Written(x, c)
    BY <1>1, <1>2
  <1>4. IsSeq(E)
    BY <1>1
  <1>5. PICK t : /\ ExtendedBy(t, E, x, m) /\ Events(file') = t
                 /\ c = 4 * m => file' = Written(t, 4 * Len(t))
    <2>1. PICK f : f = file'
      OBVIOUS
    <2>2. Continued(f, E, x, c, m)
      BY <1>2, <1>3, <2>1 DEF Continued
    <2>3. PICK t : /\ ExtendedBy(t, E, x, m) /\ Events(f) = t
                   /\ c = 4 * m => f = Written(t, 4 * Len(t))
      BY <1>4, <2>2, WholeAfter
    <2> QED BY <2>1, <2>3
  <1>6. CASE process' = "down"
    <2>1. PICK T : T = E \o x
      OBVIOUS
    <2>2. /\ 4 * Len(E) + c \in 0 .. 4 * Len(T)
          /\ Written(E, 4 * Len(E)) \o Written(x, c) = Written(T, 4 * Len(E) + c)
      BY <1>2, <1>4, <2>1, WrittenBoth
    <2>3. IsSeq(T)
      BY <1>4, <2>1, Both
    <2>4. WholeInv'
      BY <1>3, <1>6, <2>2, <2>3 DEF WholeInv
    <2> QED BY <1>1, <1>5, <2>4
  <1>7. CASE process' = "up" /\ c = 4 * m
    <2>1. IsSeq(t) /\ file' = Written(t, 4 * Len(t))
      BY <1>5, <1>7 DEF ExtendedBy
    <2>2. Len(t) \in Nat
      BY <2>1 DEF IsSeq
    <2>3. 4 * Len(t) \in 0 .. 4 * Len(t)
      BY <2>2
    <2>4. WholeInv'
      BY <2>1, <2>3 DEF WholeInv
    <2> QED BY <1>1, <1>5, <2>4
  <1> QED BY <1>2, <1>6, <1>7

\* What a call leaves in the projection may be shown.
LEMMA ViewShows ==
    ASSUME Shaped(view), NEW x, IsSeq(x), NEW c, NEW m \in 0 .. Len(x), NEW known \in 0 .. m,
           Ends(x, c, m, known), NEW k \in Keys, view[k] \in possible[k],
           \A i \in 1 .. Len(x) : ~Skipped(x[i], 0)
    PROVE  view'[k] \in possible'[k]
  <1>1. PICK P : P = Applying(view, x, 0)
    OBVIOUS
  <1>2. PICK l \in Nat : l = Len(x)
    BY DEF IsSeq
  <1>3. P[0] = view /\ \A n \in 1 .. l : P[n][k] = Step(P[n - 1][k], x[n], k, 0)
    BY <1>1, <1>2, ApplyingAt DEF Shaped
  <1> DEFINE A == [n \in 0 .. l |-> P[n][k]]
  <1>4. \A n \in 0 .. l : A[n] = P[n][k]
    OBVIOUS
  <1>5. m \in 0 .. l /\ \A n \in 1 .. m : n \in 1 .. l /\ n \in 0 .. l /\ n - 1 \in 0 .. l
    BY <1>2
  <1> HIDE DEF A
  <1>6. Values(A, x, m, k)
    <2> SUFFICES ASSUME NEW n \in 1 .. m
                 PROVE  A[n] = IF Touches(x[n], k) THEN Effect(A[n - 1], x[n]) ELSE A[n - 1]
      BY DEF Values
    <2>1. P[n][k] = Step(P[n - 1][k], x[n], k, 0) /\ ~Skipped(x[n], 0)
      BY <1>2, <1>3, <1>5
    <2>2. A[n] = P[n][k] /\ A[n - 1] = P[n - 1][k]
      BY <1>4, <1>5
    <2> QED BY <2>1, <2>2 DEF Step
  <1>7. A[0] \in possible[k]
    <2>1. 0 \in 0 .. l
      BY <1>2
    <2> QED BY <1>3, <1>4, <2>1
  <1>8. A[known] \in Acknowledged(possible[k], x, known, k)[m]
    BY <1>6, <1>7, AcknowledgedHas
  <1>9. known \in 0 .. l
    BY <1>5
  <1>10. A[known] = P[known][k]
    BY <1>4, <1>9
  <1> QED BY <1>1, <1>8, <1>10 DEF Ends

\* A call of a game, job, variation or drill: a start continues with the records that are in
\* the file, which no watermark covers.
LEMMA AppendsShow ==
    ASSUME StoreInv, KeepInv, DurableInv, "torn" \notin Faults, Appends
    PROVE  DurableInv'
  <1>1. PICK es, together : /\ Plain(es) /\ process = "up"
                            /\ Perform(es, together) /\ UNCHANGED snapshots
    BY DEF Appends
  <1>2. PICK x : x = Numbered(es)
    OBVIOUS
  <1>3. IsSeq(x) /\ Len(x) = Len(es) /\ \A i \in 1 .. Len(x) : ~IsMarker(x[i])
    BY <1>1, <1>2, NumberedGood, NumberedIs DEF Plain
  <1>4. \A i \in 1 .. Len(x) : x[i].id = nextId + i - 1
    BY <1>1, <1>2, <1>3, PlainSound DEF Sound
  <1>5. PICK c \in Nat, m \in 0 .. Len(x), known \in 0 .. Len(x) : known <= m /\ Ends(x, c, m, known)
    BY <1>1, <1>2, <1>3, PerformEnds
  <1>6. PICK l \in Nat : l = Len(x)
    BY <1>3 DEF IsSeq
  <1>7. known \in 0 .. m
    BY <1>5, <1>6
  <1>8. IsSeq(x)
    BY <1>3
  <1>9. PICK E : E = Events(file)
    OBVIOUS
  <1>10. WholeInv' /\ \E t : ExtendedBy(t, E, x, m) /\ Events(file') = t
    BY <1>1, <1>5, <1>8, <1>9, WholeStays DEF DurableInv
  <1>11. PICK t : ExtendedBy(t, E, x, m) /\ Events(file') = t
    BY <1>10
  <1>12. /\ Split(E) /\ IsSeq(E) /\ nextId \in Nat /\ applied \in Nat /\ applied < nextId
         /\ \A i \in 1 .. Len(E) : E[i].id <= nextId
    BY <1>1, <1>9 DEF StoreInv, InOrder, Counts, Ahead, Split
  <1>13. /\ Distinct(snapshots) /\ Backed(E, snapshots) /\ \A s \in snapshots : SnapshotOK(s)
         /\ Shaped(view)
    BY <1>9 DEF KeepInv, ShotsInv, AllGood, Good, Backed
  <1>14. PICK w, v : /\ w \in Nat /\ StartOf(E, snapshots) = StartAt(w, v) /\ Shaped(v)
                     /\ w = 0 \/ \E i \in 1 .. Len(E) : IsMarker(E[i]) /\ w = E[i].watermark
    BY <1>12, <1>13, StartsWell
  <1>15. w < nextId
    <2>1. CASE w = 0
      BY <1>12, <2>1
    <2>2. CASE \E i \in 1 .. Len(E) : IsMarker(E[i]) /\ w = E[i].watermark
      <3>1. PICK i \in 1 .. Len(E) : IsMarker(E[i]) /\ w = E[i].watermark
        BY <2>2
      <3>2. w < E[i].id /\ E[i].id \in Nat /\ E[i].id <= nextId
        BY <1>12, <3>1 DEF Split
      <3> QED BY <1>12, <1>14, <3>2
    <2> QED BY <1>14, <2>1, <2>2
  <1>16. ASSUME NEW i \in 1 .. l PROVE ~Skipped(x[i], w) /\ ~Skipped(x[i], 0)
    <2>1. x[i].id = nextId + i - 1
      BY <1>4, <1>6
    <2>2. ~(x[i].id <= w) /\ ~(x[i].id <= 0)
      BY <1>12, <1>14, <1>15, <2>1
    <2> QED BY <2>2 DEF Skipped
  <1>17. StartOf(t, snapshots) = StartOf(E, snapshots)
    <2>1. /\ ToSet(E) \subseteq ToSet(t)
          /\ \A e \in ToSet(t) : e \in ToSet(E) \/ \E i \in 1 .. m : e = x[i]
      BY <1>6, <1>11, <1>12, ExtendedSet
    <2>2. \A i \in 1 .. m : i \in 1 .. Len(x)
      BY <1>6
    <2>3. \A e \in ToSet(t) : e \in ToSet(E) \/ ~IsMarker(e)
      BY <1>3, <2>1, <2>2
    <2> QED BY <1>12, <1>13, <2>1, <2>3, SameStart
  <1>18. /\ Rebuild(E, snapshots) = Applying(v, E, w)[Len(E)]
         /\ Rebuild(t, snapshots) = Applying(v, t, w)[Len(t)]
    BY <1>14, <1>17 DEF Rebuild, StartAt
  <1>19. ASSUME NEW k \in Keys PROVE Rebuild(t, snapshots)[k] \in possible'[k]
    <2>1. Uncovered(x, m, w)
      <3>1. \A i \in 1 .. m : i \in 1 .. l
        BY <1>6
      <3> QED BY <1>16, <3>1 DEF Uncovered
    <2>2. PICK A : /\ A[0] = Applying(v, E, w)[Len(E)][k] /\ A[m] = Applying(v, t, w)[Len(t)][k]
                   /\ Values(A, x, m, k)
      <3>1. m \in Nat /\ IsView(v)
        BY <1>6, <1>14 DEF Shaped
      <3>2. Leads(Applying(v, E, w)[Len(E)][k], Applying(v, t, w)[Len(t)][k], x, m, k)
        BY <1>11, <1>12, <2>1, <3>1, Continues
      <3> QED BY <3>2 DEF Leads
    <2>3. A[0] \in possible[k]
      BY <1>9, <1>18, <2>2 DEF DurableInv
    <2>4. A[m] \in Acknowledged(possible[k], x, known, k)[m]
      BY <1>7, <1>8, <2>2, <2>3, AcknowledgedHas
    <2> QED BY <1>5, <1>18, <2>2, <2>4 DEF Ends
  <1>20. ASSUME NEW k \in Keys PROVE view'[k] \in possible'[k]
    <2>1. view[k] \in possible[k]
      BY <1>1 DEF DurableInv
    <2>2. \A i \in 1 .. Len(x) : ~Skipped(x[i], 0)
      BY <1>6, <1>16
    <2> QED BY <1>5, <1>7, <1>8, <1>13, <2>1, <2>2, ViewShows
  <1> QED BY <1>1, <1>10, <1>11, <1>19, <1>20 DEF DurableInv

\* Two sequences of values that begin alike and stay alike end alike.
LEMMA EndAlike ==
    ASSUME NEW l \in Nat, NEW f, NEW g, f[0] = g[0],
           \A n \in 1 .. l : f[n - 1] = g[n - 1] => f[n] = g[n]
    PROVE  f[l] = g[l]
  <1> DEFINE Bad == {n \in 0 .. l : f[n] # g[n]}
  <1>1. Bad = {}
    <2> SUFFICES ASSUME Bad # {} PROVE FALSE
      OBVIOUS
    <2>1. PICK n \in Bad : \A y \in Bad : n <= y
      <3>1. Bad \subseteq Nat
        OBVIOUS
      <3> QED BY <3>1, LeastOfNats
    <2>2. n # 0
      BY <2>1
    <2>3. n \in 1 .. l /\ n - 1 \in 0 .. l /\ ~(n <= n - 1)
      BY <2>1, <2>2
    <2>4. f[n - 1] = g[n - 1]
      BY <2>1, <2>3
    <2> QED BY <2>1, <2>3, <2>4
  <1> QED BY <1>1

\* Records that do not touch a key leave every value that it may show.
LEMMA QuietStays ==
    ASSUME NEW es, IsSeq(es), NEW m \in 0 .. Len(es), NEW known \in 0 .. m, NEW k,
           \A i \in 1 .. m : ~Touches(es[i], k), NEW S, NEW q \in S
    PROVE  q \in Acknowledged(S, es, known, k)[m]
  <1>1. m \in Nat
    BY DEF IsSeq
  <1> DEFINE A == [n \in 0 .. m |-> q]
  <1>2. \A n \in 0 .. m : A[n] = q
    OBVIOUS
  <1>3. \A n \in 1 .. m : n \in 0 .. m /\ n - 1 \in 0 .. m
    BY <1>1
  <1>4. 0 \in 0 .. m /\ m \in 0 .. m
    BY <1>1
  <1> HIDE DEF A
  <1>5. Values(A, es, m, k)
    BY <1>2, <1>3 DEF Values
  <1>6. A[0] \in S
    BY <1>2, <1>4
  <1>7. A[m] \in Acknowledged(S, es, known, k)[m]
    BY <1>5, <1>6, AcknowledgedHas
  <1> QED BY <1>2, <1>4, <1>7

\* What a start shows that begins with a snapshot of the projection, at its marker: the
\* snapshot, and the variations as a start before it.
LEMMA ShotShows ==
    ASSUME NEW E, Split(E), NEW x, NEW t, ExtendedBy(t, E, x, 1), x[1].key = <<>>,
           \A i \in 1 .. Len(E) : E[i].id <= applied, NEW v, IsView(v), NEW w,
           \A k \in Keys : IsLine(k) => v[k] = Fresh[k], NEW k \in Keys
    PROVE  /\ ~IsLine(k) => Applying(SnapshotView, t, applied)[Len(t)][k] = view[k]
           /\ IsLine(k) => Applying(SnapshotView, t, applied)[Len(t)][k] = Applying(v, E, w)[Len(E)][k]
  <1>1. PICK a \in Nat : a = Len(E)
    BY DEF Split, IsSeq
  <1>2. PICK l \in Nat : l = a + 1
    OBVIOUS
  <1>3. /\ IsSeq(t) /\ Len(t) = l
        /\ (\A i \in 1 .. a : t[i] = E[i]) /\ t[l].key = <<>>
    <2>1. 1 \in 1 .. 1
      OBVIOUS
    <2> QED BY <1>1, <1>2, <2>1 DEF ExtendedBy
  <1>4. PICK P, Q : P = Applying(SnapshotView, t, applied) /\ Q = Applying(v, E, w)
    OBVIOUS
  <1>5. IsView(SnapshotView)
    BY DEF SnapshotView, IsView
  <1>6. /\ P[0] = SnapshotView
        /\ \A n \in 1 .. l : P[n][k] = Step(P[n - 1][k], t[n], k, applied)
    BY <1>3, <1>4, <1>5, ApplyingAt
  <1>7. /\ Q[0] = v
        /\ \A n \in 1 .. a : Q[n][k] = Step(Q[n - 1][k], E[n], k, w)
    <2>1. IsSeq(E)
      BY DEF Split
    <2> QED BY <1>1, <1>4, <2>1, ApplyingAt
  <1>8. SnapshotView[k] = IF IsLine(k) THEN Fresh[k] ELSE view[k]
    BY DEF SnapshotView
  <1>9. P[l][k] = P[a][k]
    <2>1. l \in 1 .. l /\ l - 1 = a
      BY <1>2
    <2>2. P[l][k] = Step(P[l - 1][k], t[l], k, applied)
      BY <1>6, <2>1
    <2>3. ~Touches(t[l], k)
      BY <1>3, NoKey DEF Touches
    <2> QED BY <2>1, <2>2, <2>3 DEF Step
  <1>10. \A n \in 1 .. a : n \in 1 .. l /\ n \in 0 .. a /\ n - 1 \in 0 .. a
    BY <1>2
  <1>11. 0 \in 0 .. a /\ a \in 0 .. a
    OBVIOUS
  <1> DEFINE f == [n \in 0 .. a |-> P[n][k]]
             g == [n \in 0 .. a |-> Q[n][k]]
             h == [n \in 0 .. a |-> SnapshotView[k]]
  <1>12. \A n \in 0 .. a : f[n] = P[n][k] /\ g[n] = Q[n][k] /\ h[n] = SnapshotView[k]
    OBVIOUS
  <1> HIDE DEF f, g, h
  <1>13. CASE ~IsLine(k)
    <2>1. ASSUME NEW n \in 1 .. a, f[n - 1] = h[n - 1] PROVE f[n] = h[n]
      <3>1. E[n].id <= applied /\ t[n] = E[n]
        BY <1>1, <1>3
      <3>2. Touches(t[n], k) => Skipped(t[n], applied)
        BY <1>13, <3>1 DEF Touches, Skipped
      <3>3. P[n][k] = P[n - 1][k]
        BY <1>6, <1>10, <3>2 DEF Step
      <3> QED BY <1>10, <1>12, <2>1, <3>3
    <2>2. f[0] = h[0]
      BY <1>6, <1>11, <1>12
    <2>3. f[a] = h[a]
      BY <2>1, <2>2, EndAlike
    <2> QED BY <1>3, <1>4, <1>8, <1>9, <1>11, <1>12, <1>13, <2>3
  <1>14. CASE IsLine(k)
    <2>1. ASSUME NEW n \in 1 .. a, f[n - 1] = g[n - 1] PROVE f[n] = g[n]
      <3>1. t[n] = E[n]
        BY <1>3
      <3>2. \A u : Touches(E[n], k) => ~Skipped(E[n], u)
        BY <1>14 DEF Touches, Skipped
      <3>3. P[n][k] = Step(P[n - 1][k], E[n], k, applied) /\ Q[n][k] = Step(Q[n - 1][k], E[n], k, w)
        BY <1>6, <1>7, <1>10, <3>1
      <3>4. P[n - 1][k] = Q[n - 1][k]
        BY <1>10, <1>12, <2>1
      <3>5. P[n][k] = Q[n][k]
        BY <3>2, <3>3, <3>4 DEF Step
      <3> QED BY <1>10, <1>12, <3>5
    <2>2. f[0] = g[0]
      BY <1>6, <1>7, <1>8, <1>11, <1>12, <1>14
    <2>3. f[a] = g[a]
      BY <2>1, <2>2, EndAlike
    <2> QED BY <1>1, <1>3, <1>4, <1>9, <1>11, <1>12, <1>14, <2>3
  <1> QED BY <1>13, <1>14

\* A snapshot, its marker whole in the file or not.
LEMMA SnapshotShow ==
    ASSUME StoreInv, KeepInv, KeepInv', DurableInv, "torn" \notin Faults, CreateSnapshot
    PROVE  DurableInv'
  <1>1. /\ process = "up" /\ MaySnapshot
        /\ snapshots' = snapshots \cup {Shot} /\ Perform(<<Marker>>, 1)
    BY DEF CreateSnapshot, Ready, Shot, Marker
  <1>2. PICK E : E = Events(file)
    OBVIOUS
  <1>3. /\ Split(E) /\ IsSeq(E) /\ nextId \in Nat /\ applied \in Nat /\ applied < nextId
        /\ \A i \in 1 .. Len(E) : E[i].id <= applied
    BY <1>1, <1>2, NotedAll DEF StoreInv, InOrder, Counts, Ahead, Split
  <1>4. PICK x : x = Numbered(<<Marker>>)
    OBVIOUS
  <1>5. /\ IsSeq(x) /\ Len(x) = 1 /\ Fits(x[1]) /\ IsMarker(x[1]) /\ Backs(Shot, x[1])
        /\ x[1].key = <<>> /\ x[1].watermark = applied /\ x[1].id = nextId
    BY <1>3, <1>4, MarkerIs
  <1>6. IsSeq(x)
    BY <1>5
  <1>7. PICK c \in Nat, m \in 0 .. Len(x), known \in 0 .. Len(x) : known <= m /\ Ends(x, c, m, known)
    BY <1>1, <1>4, <1>6, PerformEnds
  <1>8. m \in 0 .. 1 /\ known \in 0 .. m /\ \A i \in 1 .. Len(x) : i = 1
    BY <1>5, <1>7
  <1>9. WholeInv' /\ \E t : ExtendedBy(t, E, x, m) /\ Events(file') = t
    BY <1>1, <1>2, <1>6, <1>7, WholeStays DEF DurableInv
  <1>10. PICK t : ExtendedBy(t, E, x, m) /\ Events(file') = t
    BY <1>9
  <1>11. PICK more : more = snapshots'
    OBVIOUS
  <1>12. Distinct(more) /\ snapshots \subseteq more /\ Shot \in more
    BY <1>1, <1>11 DEF KeepInv, ShotsInv
  <1>13. /\ Distinct(snapshots) /\ Backed(E, snapshots) /\ (\A s \in snapshots : SnapshotOK(s))
         /\ Shaped(view)
    BY <1>2 DEF KeepInv, ShotsInv, AllGood, Good, Backed
  <1>14. PICK w, v : /\ w \in Nat /\ StartOf(E, snapshots) = StartAt(w, v) /\ Shaped(v)
                     /\ \A k \in Keys : IsLine(k) => v[k] = Fresh[k]
    BY <1>3, <1>13, StartsWell
  <1>15. Rebuild(E, snapshots) = Applying(v, E, w)[Len(E)] /\ IsView(v)
    BY <1>14 DEF Rebuild, StartAt, Shaped
  <1>16. /\ ToSet(E) \subseteq ToSet(t)
         /\ \A e \in ToSet(t) : e \in ToSet(E) \/ \E i \in 1 .. m : e = x[i]
    <2>1. m \in Nat
      BY <1>8
    <2> QED BY <1>3, <1>10, <2>1, ExtendedSet
  <1>17. ASSUME NEW k \in Keys, NEW q \in possible[k] PROVE q \in possible'[k]
    <2>1. \A i \in 1 .. m : ~Touches(x[i], k)
      <3>1. \A i \in 1 .. m : i = 1
        BY <1>8
      <3> QED BY <1>5, <3>1, NoKey DEF Touches
    <2>2. q \in Acknowledged(possible[k], x, known, k)[m]
      BY <1>6, <1>7, <1>8, <2>1, QuietStays
    <2> QED BY <1>7, <2>2 DEF Ends
  <1>18. ASSUME NEW k \in Keys PROVE Rebuild(E, snapshots)[k] \in possible[k] /\ view[k] \in possible[k]
    BY <1>1, <1>2 DEF DurableInv
  <1>19. ASSUME NEW k \in Keys PROVE Rebuild(t, more)[k] \in possible'[k]
    <2>1. CASE m = 0
      <3>1. \A e \in ToSet(t) : e \in ToSet(E) \/ ~IsMarker(e)
        BY <1>16, <2>1
      <3>2. StartOf(t, more) = StartOf(E, snapshots)
        BY <1>3, <1>12, <1>13, <1>16, <3>1, SameStart
      <3>3. Rebuild(t, more) = Applying(v, t, w)[Len(t)]
        BY <1>14, <3>2 DEF Rebuild, StartAt
      <3>4. Uncovered(x, m, w)
        BY <2>1 DEF Uncovered
      <3>5. PICK A : /\ A[0] = Applying(v, E, w)[Len(E)][k] /\ A[m] = Applying(v, t, w)[Len(t)][k]
                     /\ Values(A, x, m, k)
        <4>1. m \in Nat
          BY <1>8
        <4>2. IsSeq(E) /\ IsView(v)
          BY <1>3, <1>15
        <4>3. ExtendedBy(t, E, x, m)
          BY <1>10
        <4>4. Leads(Applying(v, E, w)[Len(E)][k], Applying(v, t, w)[Len(t)][k], x, m, k)
          BY <3>4, <4>1, <4>2, <4>3, Continues
        <4> QED BY <4>4 DEF Leads
      <3>6. Rebuild(t, more)[k] = Rebuild(E, snapshots)[k]
        BY <1>15, <2>1, <3>3, <3>5
      <3> QED BY <1>17, <1>18, <3>6
    <2>2. CASE m = 1
      <3>1. ExtendedBy(t, E, x, 1)
        BY <1>10, <2>2
      <3>2. x[1] \in ToSet(t)
        <4>1. PICK l \in Nat : l = Len(E)
          BY <1>3 DEF IsSeq
        <4>2. 1 \in 1 .. 1 /\ l + 1 \in 1 .. l + 1
          BY <4>1
        <4>3. t[l + 1] = x[1] /\ DOMAIN t = 1 .. l + 1
          BY <3>1, <4>1, <4>2 DEF ExtendedBy, IsSeq
        <4> QED BY <4>2, <4>3 DEF ToSet
      <3>3. ASSUME NEW y \in ToSet(t), IsMarker(y)
            PROVE  y = x[1] \/ (y.watermark \in Nat /\ y.watermark < x[1].watermark)
        <4>1. CASE y \in ToSet(E)
          <5>1. DOMAIN E = 1 .. Len(E)
            BY <1>3 DEF IsSeq
          <5>2. PICK i \in 1 .. Len(E) : y = E[i]
            BY <4>1, <5>1 DEF ToSet
          <5>3. y.watermark \in Nat /\ y.watermark < y.id /\ y.id \in Nat /\ y.id <= applied
            BY <1>3, <3>3, <5>2 DEF Split
          <5> QED BY <1>3, <1>5, <5>3
        <4>2. CASE \E i \in 1 .. m : y = x[i]
          <5>1. \A i \in 1 .. m : i = 1
            BY <2>2
          <5> QED BY <4>2, <5>1
        <4> QED BY <1>16, <4>1, <4>2
      <3>4. Newest(t, x[1])
        BY <1>3, <1>5, <3>2, <3>3 DEF Newest
      <3>5. Shot.watermark = applied /\ Shot.view = SnapshotView
        BY DEF Shot
      <3>6. StartOf(t, more) = StartAt(Shot.watermark, Shot.view)
        <4>1. Backs(Shot, x[1])
          BY <1>5
        <4> QED BY <1>12, <3>4, <4>1, StartsThere
      <3>7. Rebuild(t, more) = Applying(SnapshotView, t, applied)[Len(t)]
        BY <3>5, <3>6 DEF Rebuild, StartAt
      <3>8. x[1].key = <<>>
        BY <1>5
      <3>9. /\ ~IsLine(k) => Applying(SnapshotView, t, applied)[Len(t)][k] = view[k]
            /\ IsLine(k) => Applying(SnapshotView, t, applied)[Len(t)][k] = Applying(v, E, w)[Len(E)][k]
        BY <1>3, <1>14, <1>15, <3>1, <3>8, ShotShows
      <3>10. Rebuild(t, more)[k] \in {view[k], Rebuild(E, snapshots)[k]}
        BY <1>15, <3>7, <3>9
      <3> QED BY <1>17, <1>18, <3>10
    <2> QED BY <1>8, <2>1, <2>2
  <1>20. ASSUME NEW k \in Keys PROVE view'[k] \in possible'[k]
    <2>1. \A i \in 1 .. Len(x) : ~Skipped(x[i], 0)
      <3>1. ~(x[1].id <= 0)
        BY <1>3, <1>5
      <3> QED BY <1>8, <3>1 DEF Skipped
    <2> QED BY <1>6, <1>7, <1>8, <1>13, <1>18, <2>1, ViewShows
  <1> QED BY <1>9, <1>10, <1>11, <1>19, <1>20 DEF DurableInv

\* A compaction.
LEMMA CompactShow ==
    ASSUME StoreInv, KeepInv, DurableInv, Compact
    PROVE  DurableInv'
  <1>1. /\ process = "up" /\ file' = Compacted(file, nextId) /\ view' = view
        /\ snapshots' = snapshots /\ possible' = possible
    BY DEF Compact, Ready, memory
  <1>2. PICK last : last = [id |-> nextId, type |-> "LogCompacted", key |-> <<>>]
    OBVIOUS
  <1>3. PICK C : C = Append(Retained(Events(file)), last)
    OBVIOUS
  <1>4. IsSeq(file) /\ Split(Events(file)) /\ InOrder
    BY DEF StoreInv, InOrder
  <1>5. IsSeq(C) /\ Compacted(file, nextId) = Written(C, 4 * Len(C))
    <2>1. IsSeq(file) /\ Split(Events(file))
      BY <1>4
    <2> QED BY <1>2, <1>3, <2>1, CompactedReads
  <1>6. WholeInv'
    <2>1. Len(C) \in Nat
      BY <1>5 DEF IsSeq
    <2>2. 4 * Len(C) \in 0 .. 4 * Len(C)
      BY <2>1
    <2> QED BY <1>1, <1>5, <2>2 DEF WholeInv
  <1>7. Rebuild(Events(file'), snapshots') = Rebuild(Events(file), snapshots)
    BY <1>1, <1>4, KeepsCompaction
  <1> QED BY <1>1, <1>6, <1>7 DEF DurableInv

\* A start: it shows what is in the file, and cuts off what is not a whole record.
LEMMA BootShow ==
    ASSUME StoreInv, DurableInv, Boot
    PROVE  DurableInv'
  <1>1. PICK E, c : c \in 0 .. 4 * Len(E) /\ IsSeq(E) /\ file = Written(E, c)
    BY DEF DurableInv, WholeInv
  <1>2. PICK l \in Nat : l = Len(E)
    BY <1>1 DEF IsSeq
  <1>3. PICK m \in 0 .. l : 4 * m <= c /\ c <= 4 * m + 3
    <2>1. c \in 0 .. 4 * l
      BY <1>1, <1>2
    <2>2. c \div 4 \in 0 .. l /\ 4 * (c \div 4) <= c /\ c <= 4 * (c \div 4) + 3
      BY <2>1
    <2> QED BY <2>2
  <1>4. PICK t : t = SubSeq(E, 1, m)
    OBVIOUS
  <1>5. IsSeq(t) /\ Len(t) = m /\ Recovered(Written(E, c)) = Written(t, 4 * m)
    <2>1. m \in 0 .. Len(E) /\ c \in 0 .. 4 * Len(E)
      BY <1>1, <1>2
    <2>2. IsSeq(E)
      BY <1>1
    <2> QED BY <1>3, <1>4, <2>1, <2>2, WrittenRecovers
  <1>6. PICK kept : kept = Recovered(file)
    OBVIOUS
  <1>7. /\ file' = kept /\ view' = Rebuild(Events(kept), snapshots) /\ process' = "up"
        /\ snapshots' = snapshots /\ possible' = [k \in Keys |-> {view'[k]}]
    BY <1>6 DEF Boot
  <1>8. WholeInv'
    <2>1. file' = Written(t, 4 * Len(t))
      BY <1>1, <1>5, <1>6, <1>7
    <2>2. 4 * Len(t) \in 0 .. 4 * Len(t)
      BY <1>3, <1>5
    <2> QED BY <1>5, <2>1, <2>2 DEF WholeInv
  <1> QED BY <1>7, <1>8 DEF DurableInv

LEMMA DurableStep ==
    ASSUME StoreInv, KeepInv, KeepInv', DurableInv, "torn" \notin Faults, [StoreNext]_storeVars
    PROVE  DurableInv'
  <1>1. CASE Stop
    <2>1. process' = "down" /\ UNCHANGED <<file, snapshots, possible>>
      BY <1>1 DEF Stop, disk
    <2> QED BY <2>1 DEF DurableInv, WholeInv
  <1>2. CASE UNCHANGED storeVars
    BY <1>2 DEF storeVars, DurableInv, WholeInv, disk, memory
  <1> QED BY <1>1, <1>2, StoreSteps, AppendsShow, SnapshotShow, CompactShow, BootShow

LEMMA DurableInitially ==
    StoreInit => DurableInv
  <1> SUFFICES ASSUME StoreInit PROVE DurableInv
    OBVIOUS
  <1>1. /\ file = <<>> /\ snapshots = {} /\ view = Fresh
        /\ \A k \in Keys : possible[k] = {Fresh[k]}
    BY DEF StoreInit
  <1>2. IsSeq(<<>>) /\ Events(<<>>) = <<>> /\ Len(<<>>) = 0
    BY EmptyFile
  <1>3. PICK e : e = <<>>
    OBVIOUS
  <1>4. IsSeq(e) /\ Len(e) = 0
    BY <1>2, <1>3
  <1>5. PICK z \in 0 .. 4 * Len(e) : z = 0 /\ z = 4 * Len(e)
    BY <1>4
  <1>6. IsSeq(Written(e, z)) /\ Len(Written(e, z)) = 0
    BY <1>4, <1>5, WrittenIs
  <1>7. Written(e, z) = <<>>
    BY <1>6 DEF IsSeq
  <1>8. WholeInv
    BY <1>1, <1>4, <1>5, <1>7 DEF WholeInv
  <1>9. Rebuild(<<>>, {}) = Fresh
    <2>1. StartOf(e, {}) = StartAt(0, Fresh)
      BY StartsFresh
    <2>2. Rebuild(e, {}) = Applying(Fresh, e, 0)[Len(e)]
      BY <2>1 DEF Rebuild, StartAt
    <2>3. Applying(Fresh, e, 0)[0] = Fresh
      BY <1>4, FreshShaped, ApplyingAt DEF Shaped
    <2> QED BY <1>3, <1>4, <2>2, <2>3
  <1> QED BY <1>1, <1>2, <1>8, <1>9 DEF DurableInv

\* What an acknowledged call left is there after every stop and start, and a call that was
\* not acknowledged shows all or nothing of each of its records, as long as a failed append
\* of a process that goes on leaves a whole record or nothing.
THEOREM AlwaysDurable ==
    ASSUME "torn" \notin Faults
    PROVE  StoreSpec => []Durable
  <1>1. StoreInit => StoreInv /\ KeepInv /\ DurableInv
    BY KeepInitially, DurableInitially
  <1>2. StoreInv /\ KeepInv /\ DurableInv /\ [StoreNext]_storeVars => (StoreInv /\ KeepInv /\ DurableInv)'
    BY StoreStep, KeepStep, DurableStep
  <1>3. StoreInv /\ DurableInv => Durable
    <2> SUFFICES ASSUME StoreInv, DurableInv PROVE Durable
      OBVIOUS
    <2>1. Events(Recovered(file)) = Events(file)
      BY Recovers DEF StoreInv, InOrder
    <2> QED BY <2>1 DEF Durable, Restarted, DurableInv
  <1> QED BY <1>1, <1>2, <1>3, PTL DEF StoreSpec

=============================================================================
