-------------------------- MODULE HttpServerProofs --------------------------
(***************************************************************************)
(* HttpServer with its runtime and its observers, for any owners, client   *)
(* threads, scopes and requests: all work for an owner shares one scope,   *)
(* no callback outlives the server, and no websocket misses the end of a   *)
(* job.  The first rests on leases, the second on observer_calls_ counting *)
(* exactly the notifications that are not yet over, the third on where the *)
(* news of an end is until it is heard.                                    *)
(***************************************************************************)
EXTENDS HttpServer, TLAPS, SequenceTheorems, FiniteSetTheorems, WellFoundedInduction

-----------------------------------------------------------------------------
(* Types.                                                                   *)

Final == {"complete", "failed", "cancelled"}
Statuses == {"none", "queued", "running", "cancelling"} \cup Final
Views == {"none", "pending"} \cup Final

ThreadAt == {"idle", "resolve", "start", "started", "retire", "erase", "rows", "subscribe", "enlist",
             "list", "snapshot", "loop", "done"}
ThreadType == [kind : {"none", "start", "socket", "delete"}, pc : ThreadAt,
               owner : Owners \cup {None}, scope : Scopes \cup {None}, seen : Views \cup {None}]
ClientType == [id : Nat, state : {"none", "open", "retired"}, listed : BOOLEAN,
               owner : Owners \cup {None}, heard : SUBSET (Views \cup {None})]
NoticeType == [of : Managers \cup {None}, what : Views \cup {None}, left : SUBSET {Server},
               in : {Server, None}]

RuntimeTypeOK ==
    /\ rights \subseteq Owners
    /\ registry \in Seq(Scopes)
    /\ scope \in [Scopes -> [owner : Owners \cup {None}, retired : BOOLEAN]]
    /\ leases = [s \in Scopes |-> leases[s]]
    /\ job \in [Scopes -> Statuses] /\ worker \in [Scopes -> {"idle", "analysing", "decided"}]

ServerTypeOK ==
    /\ server \in {"up", "flagged", "stopped", "unobserved", "gone"}
    /\ threads \in [Threads -> ThreadType] /\ clients \in [Threads -> ClientType]
    /\ subscribed \subseteq Scopes /\ requests \in Nat
    /\ targets = [n \in Notifiers |-> targets[n]]

ObserverTypeOK ==
    /\ observers \in [Managers -> SUBSET {Server}] /\ calls \in [Managers -> Int]
    /\ notices \in [Notifiers -> NoticeType]

-----------------------------------------------------------------------------
(* The registry.                                                            *)

Has(q, s) == \E i \in DOMAIN q : q[i] = s

\* Removing a scope from the registry leaves the others there.
LEMMA RemovalKeeps ==
    ASSUME NEW S, NEW q \in Seq(S), NEW i \in DOMAIN q
    PROVE  /\ RemoveAt(q, i) \in Seq(S)
           /\ \A s : s # q[i] /\ Has(q, s) => Has(RemoveAt(q, i), s)
           /\ \A s : Has(RemoveAt(q, i), s) => Has(q, s)
  <1>1. i \in 1 .. Len(q) /\ Len(q) \in Nat /\ DOMAIN q = 1 .. Len(q)
    OBVIOUS
  <1>2. \A k \in 1 .. Len(q) : q[k] \in S
    OBVIOUS
  <1>3. PICK a, b : a = SubSeq(q, 1, i - 1) /\ b = SubSeq(q, i + 1, Len(q))
    OBVIOUS
  <1>4. PICK n \in Nat : n = Len(q)
    BY <1>1
  <1>5. a \in Seq(S) /\ Len(a) = i - 1 /\ \A k \in 1 .. i - 1 : a[k] = q[k]
    BY <1>1, <1>2, <1>3, SubSeqProperties
  <1>6. b \in Seq(S) /\ Len(b) = n - i /\ \A k \in 1 .. n - i : b[k] = q[i + k]
    BY <1>1, <1>2, <1>3, <1>4, SubSeqProperties
  <1>7. /\ a \o b \in Seq(S) /\ DOMAIN (a \o b) = 1 .. n - 1
        /\ \A k \in 1 .. n - 1 : (a \o b)[k] = IF k <= i - 1 THEN a[k] ELSE b[k - (i - 1)]
    <2>1. /\ a \o b \in Seq(S) /\ Len(a \o b) = Len(a) + Len(b)
          /\ \A k \in 1 .. Len(a) + Len(b) :
                (a \o b)[k] = IF k <= Len(a) THEN a[k] ELSE b[k - Len(a)]
      BY <1>5, <1>6, ConcatProperties
    <2>2. Len(a) + Len(b) = n - 1
      BY <1>1, <1>4, <1>5, <1>6
    <2> QED  BY <1>5, <2>1, <2>2
  <1>8. \A k \in 1 .. n - 1 : (a \o b)[k] = IF k <= i - 1 THEN q[k] ELSE q[k + 1]
    <2> SUFFICES ASSUME NEW k \in 1 .. n - 1
                 PROVE  (a \o b)[k] = IF k <= i - 1 THEN q[k] ELSE q[k + 1]
      OBVIOUS
    <2>1. CASE k <= i - 1
      <3>1. k \in 1 .. i - 1
        BY <1>1, <2>1
      <3> QED  BY <1>5, <1>7, <2>1, <3>1
    <2>2. CASE ~(k <= i - 1)
      <3>1. k - (i - 1) \in 1 .. n - i /\ i + (k - (i - 1)) = k + 1
        BY <1>1, <1>4, <2>2
      <3> QED  BY <1>6, <1>7, <2>2, <3>1
    <2> QED  BY <2>1, <2>2
  <1>9. RemoveAt(q, i) = a \o b
    BY <1>3 DEF RemoveAt
  <1>10. \A s : s # q[i] /\ Has(q, s) => Has(a \o b, s)
    <2> SUFFICES ASSUME NEW k \in 1 .. n, k # i PROVE Has(a \o b, q[k])
      BY <1>1, <1>4 DEF Has
    <2>1. CASE k < i
      <3>1. k \in 1 .. n - 1 /\ k <= i - 1
        BY <1>1, <1>4, <2>1
      <3> QED  BY <1>7, <1>8, <3>1 DEF Has
    <2>2. CASE k > i
      <3>1. k - 1 \in 1 .. n - 1 /\ ~(k - 1 <= i - 1) /\ (k - 1) + 1 = k
        BY <1>1, <1>4, <2>2
      <3> QED  BY <1>7, <1>8, <3>1 DEF Has
    <2> QED  BY <1>1, <2>1, <2>2
  <1>11. \A s : Has(a \o b, s) => Has(q, s)
    <2> SUFFICES ASSUME NEW k \in 1 .. n - 1 PROVE Has(q, (a \o b)[k])
      BY <1>7 DEF Has
    <2>1. k \in 1 .. n /\ k + 1 \in 1 .. n
      BY <1>4
    <2> QED  BY <1>1, <1>4, <1>8, <2>1 DEF Has
  <1> QED
    BY <1>7, <1>9, <1>10, <1>11

LEMMA AppendKeeps ==
    ASSUME NEW S, NEW q \in Seq(S), NEW x \in S
    PROVE  Append(q, x) \in Seq(S) /\ \A s : Has(Append(q, x), s) <=> s = x \/ Has(q, s)
  <1>1. /\ Append(q, x) \in Seq(S) /\ Len(Append(q, x)) = Len(q) + 1
        /\ \A i \in 1 .. Len(q) : Append(q, x)[i] = q[i]
        /\ Append(q, x)[Len(q) + 1] = x
    BY AppendProperties
  <1>2. PICK n \in Nat : n = Len(q)
    OBVIOUS
  <1>3. DOMAIN q = 1 .. n /\ DOMAIN Append(q, x) = 1 .. n + 1
    BY <1>1, <1>2
  <1>4. \A i \in 1 .. n + 1 : i \in 1 .. n \/ i = n + 1
    OBVIOUS
  <1>5. \A i \in 1 .. n : i \in 1 .. n + 1
    OBVIOUS
  <1> QED
    BY <1>1, <1>2, <1>3, <1>4, <1>5 DEF Has

LEMMA ContainsIsHas == ASSUME NEW q \in Seq(Scopes), NEW s PROVE Contains(q, s) <=> Has(q, s)
  BY DEF Contains, Has

LEMMA WithoutFacts ==
    ASSUME registry \in Seq(Scopes), NEW s, Contains(registry, s)
    PROVE  /\ Without(s) \in Seq(Scopes)
           /\ \A r : r # s /\ Contains(registry, r) => Contains(Without(s), r)
           /\ \A r : Contains(Without(s), r) => Contains(registry, r)
  <1>1. PICK i \in DOMAIN registry : registry[i] = s /\ Without(s) = RemoveAt(registry, i)
    BY ContainsIsHas DEF Has, Without
  <1>2. /\ RemoveAt(registry, i) \in Seq(Scopes)
        /\ \A r : r # s /\ Has(registry, r) => Has(RemoveAt(registry, i), r)
        /\ \A r : Has(RemoveAt(registry, i), r) => Has(registry, r)
    BY <1>1, RemovalKeeps
  <1> QED
    BY <1>1, <1>2, ContainsIsHas

LEMMA LeastOf ==
    ASSUME NEW T \in SUBSET Nat, T # {}
    PROVE  \E x \in T : \A y \in T : x <= y
  <1>1. \E x \in T : \A y \in T : ~(<<y, x>> \in OpToRel(<, Nat))
    BY NatLessThanWellFounded, WFMin
  <1>2. \A x \in T, y \in T : y < x => <<y, x>> \in OpToRel(<, Nat)
    BY DEF OpToRel
  <1>3. \A x \in T, y \in T : ~(y < x) => x <= y
    OBVIOUS
  <1> QED
    BY <1>1, <1>2, <1>3

LEMMA FreshIsUnborn ==
    Unborn # {} => Fresh \in Scopes /\ scope[Fresh] = Unused
  <1>1. Unborn \in SUBSET Nat
    BY RuntimeConstants DEF Unborn
  <1>2. ASSUME Unborn # {} PROVE \E s \in Unborn : \A r \in Unborn : s <= r
    BY <1>1, <1>2, LeastOf
  <1> QED
    BY <1>2 DEF Fresh, Unborn

\* Making room takes at most one scope out of the registry, and that one is idle.
LEMMA EvictionFacts ==
    ASSUME registry \in Seq(Scopes), HasRoom
    PROVE  /\ Remaining \in Seq(Scopes) /\ Evicted \subseteq Scopes
           /\ \A s \in Evicted : IsIdle(s) /\ Contains(registry, s)
           /\ \A s : Contains(registry, s) /\ s \notin Evicted => Contains(Remaining, s)
           /\ \A s : Contains(Remaining, s) => Contains(registry, s)
  <1>1. CASE ~IsFull
    BY <1>1 DEF Remaining, Evicted
  <1>2. CASE IsFull
    <2>1. Idle \in SUBSET Nat /\ Idle # {}
      BY <1>2 DEF HasRoom, Idle
    <2>2. \E i \in Idle : \A j \in Idle : i <= j
      BY <2>1, LeastOf
    <2>3. PICK i \in Idle : Oldest = registry[i]
      BY <2>2 DEF Oldest
    <2>4. Oldest \in Scopes /\ IsIdle(Oldest) /\ Contains(registry, Oldest)
      BY <2>3, ContainsIsHas DEF Idle, Has
    <2>5. Evicted = {Oldest} /\ Remaining = Without(Oldest)
      BY <1>2 DEF Evicted, Remaining
    <2> QED  BY <2>4, <2>5, WithoutFacts
  <1> QED
    BY <1>1, <1>2

-----------------------------------------------------------------------------
(* Threads and their scopes.                                                *)

\* A scope keeps its owner as long as it is registered or leased, so a thread with a lease
\* knows whose scope it has; a websocket relies on the lease of the server's observer, a
\* deletion between its two halves on the mutex.
Watching == {"enlist", "list", "snapshot", "loop"}
ThreadKnows(t) ==
    /\ threads[t].pc # "idle" => threads[t].kind # "none" /\ threads[t].owner \in Owners
    /\ threads[t].pc \in {"start", "started", "subscribe"} =>
          /\ threads[t].scope \in Scopes /\ t \in leases[threads[t].scope]
          /\ OwnerOf(threads[t].scope) = threads[t].owner
    /\ threads[t].pc \in Watching =>
          threads[t].scope \in subscribed /\ OwnerOf(threads[t].scope) = threads[t].owner
    /\ threads[t].pc \in {"retire", "erase", "rows"} => threads[t].kind = "delete"
    /\ threads[t].pc = "erase" =>
          /\ mutex = t /\ threads[t].scope \in Scopes
          /\ OwnerOf(threads[t].scope) = threads[t].owner /\ Contains(registry, threads[t].scope)

UnbornRests ==
    \A s \in Scopes : OwnerOf(s) = None =>
        ~Contains(registry, s) /\ leases[s] = {} /\ job[s] = "none" /\ worker[s] = "idle"

SubscribedPinned == \A s \in subscribed : Server \in leases[s]
EndIsQuiet == server \in {"unobserved", "gone"} => \A t \in Threads : threads[t].pc = "idle"

ScopesOK == RuntimeTypeOK /\ UnbornRests /\ SubscribedPinned
ScopeInv == ScopesOK /\ ServerTypeOK /\ (\A t \in Threads : ThreadKnows(t)) /\ EndIsQuiet

\* What a step of t leaves to the other threads.
Stable(t) ==
    /\ \A s \in Scopes : leases[s] # {} \/ Contains(registry, s) => OwnerOf(s)' = OwnerOf(s)
    /\ \A s \in Scopes, u \in Threads \ {t} : u \in leases[s] => u \in leases'[s]
    /\ subscribed \subseteq subscribed'
    /\ \A u \in Threads \ {t} :
          /\ threads'[u] = threads[u]
          /\ threads[u].pc = "erase" =>
                /\ mutex' = mutex
                /\ Contains(registry, threads[u].scope) => Contains(registry', threads[u].scope)

LEMMA OthersKnow ==
    ASSUME ScopeInv, NEW t, Stable(t)
    PROVE  \A u \in Threads \ {t} : ThreadKnows(u)'
  <1> SUFFICES ASSUME NEW u \in Threads \ {t} PROVE ThreadKnows(u)'
    OBVIOUS
  <1>1. ThreadKnows(u) /\ threads'[u] = threads[u] /\ subscribed \subseteq Scopes
        /\ \A s \in subscribed : Server \in leases[s]
    BY DEF ScopeInv, ScopesOK, ServerTypeOK, SubscribedPinned, Stable
  <1>2. threads[u].pc \in {"start", "started", "subscribe"} =>
            u \in leases'[threads[u].scope] /\ OwnerOf(threads[u].scope)' = threads[u].owner
    BY <1>1 DEF ThreadKnows, Stable
  <1>3. threads[u].pc \in Watching =>
            threads[u].scope \in subscribed' /\ OwnerOf(threads[u].scope)' = threads[u].owner
    BY <1>1 DEF ThreadKnows, Stable
  <1>4. threads[u].pc = "erase" =>
            /\ mutex' = u /\ OwnerOf(threads[u].scope)' = threads[u].owner
            /\ Contains(registry', threads[u].scope)
    BY <1>1 DEF ThreadKnows, Stable
  <1> QED
    BY <1>1, <1>2, <1>3, <1>4 DEF ThreadKnows

LEMMA ScopeInitially == Init => ScopeInv
  <1> SUFFICES ASSUME Init PROVE ScopeInv
    OBVIOUS
  <1> USE DEF Init, InitRuntime
  <1>1. RuntimeTypeOK
    BY DEF RuntimeTypeOK, Unused, Statuses
  <1>2. ServerTypeOK
    BY DEF ServerTypeOK, ThreadType, ThreadAt, ClientType, NoThread, NoClient
  <1>3. UnbornRests /\ SubscribedPinned /\ EndIsQuiet
    <2>1. \A s : ~Contains(<<>>, s)
      BY DEF Contains
    <2> QED  BY <2>1 DEF UnbornRests, SubscribedPinned, EndIsQuiet
  <1>4. \A t \in Threads : ThreadKnows(t)
    BY DEF ThreadKnows, NoThread, Watching
  <1> QED
    BY <1>1, <1>2, <1>3, <1>4 DEF ScopeInv, ScopesOK

\* How threads change.
LEMMA ThreadChange ==
    ASSUME ServerTypeOK, NEW t \in Threads, NEW th \in ThreadType,
           threads' = [threads EXCEPT ![t] = th]
    PROVE  /\ threads' \in [Threads -> ThreadType] /\ threads'[t] = th
           /\ \A u \in Threads \ {t} : threads'[u] = threads[u]
  BY DEF ServerTypeOK

LEMMA GotoFacts ==
    ASSUME ServerTypeOK, NEW t \in Threads, NEW p \in ThreadAt, Goto(t, p)
    PROVE  /\ threads' \in [Threads -> ThreadType]
           /\ \A u \in Threads \ {t} : threads'[u] = threads[u]
           /\ threads'[t].pc = p /\ threads'[t].kind = threads[t].kind
           /\ threads'[t].owner = threads[t].owner /\ threads'[t].scope = threads[t].scope
           /\ threads'[t].seen = threads[t].seen
  <1>1. PICK th : th = [threads[t] EXCEPT !.pc = p]
    OBVIOUS
  <1>2. threads[t] \in ThreadType
    BY DEF ServerTypeOK
  <1>3. /\ th \in ThreadType /\ th.pc = p /\ th.kind = threads[t].kind
        /\ th.owner = threads[t].owner /\ th.scope = threads[t].scope /\ th.seen = threads[t].seen
    BY <1>1, <1>2 DEF ThreadType
  <1>4. threads' = [threads EXCEPT ![t] = th]
    BY <1>1 DEF Goto
  <1> QED
    BY <1>3, <1>4, ThreadChange

LEMMA ServeFacts ==
    ASSUME ServerTypeOK, NEW t \in Threads, NEW s \in Scopes, threads[t].kind # "none", Serve(t, s)
    PROVE  /\ threads' \in [Threads -> ThreadType]
           /\ \A u \in Threads \ {t} : threads'[u] = threads[u]
           /\ threads'[t].pc \in {"start", "subscribe", "retire"}
           /\ threads'[t].pc = "retire" => threads[t].kind = "delete"
           /\ threads'[t].kind = threads[t].kind
           /\ threads'[t].owner = threads[t].owner /\ threads'[t].scope = s
  <1>1. PICK p : p = CASE threads[t].kind = "start" -> "start" [] threads[t].kind = "socket" -> "subscribe"
                       [] threads[t].kind = "delete" -> "retire"
    OBVIOUS
  <1>2. threads[t] \in ThreadType
    BY DEF ServerTypeOK
  <1>3. threads[t].kind \in {"start", "socket", "delete"}
    BY <1>2 DEF ThreadType
  <1>4. p \in {"start", "subscribe", "retire"} /\ (p = "retire" => threads[t].kind = "delete")
    BY <1>1, <1>3
  <1>5. PICK th : th = [threads[t] EXCEPT !.scope = s, !.pc = p]
    OBVIOUS
  <1>6. /\ th \in ThreadType /\ th.pc = p /\ th.kind = threads[t].kind
        /\ th.owner = threads[t].owner /\ th.scope = s
    BY <1>2, <1>4, <1>5 DEF ThreadType, ThreadAt
  <1>7. threads' = [threads EXCEPT ![t] = th]
    <2>1. threads' = [threads EXCEPT ![t].scope = s, ![t].pc = p]
      BY <1>1 DEF Serve
    <2>2. threads \in [Threads -> ThreadType]
      BY DEF ServerTypeOK
    <2> HIDE DEF Serve
    <2> QED  BY <1>2, <1>5, <2>1, <2>2
  <1> QED
    BY <1>4, <1>6, <1>7, ThreadChange

LEMMA RestOfServer ==
    ASSUME ServerTypeOK, threads' \in [Threads -> ThreadType],
           UNCHANGED <<server, clients, targets, subscribed, requests>>
    PROVE  ServerTypeOK'
  BY DEF ServerTypeOK

LEMMA ScopesSame ==
    ASSUME ScopesOK, UNCHANGED <<rights, registry, scope, leases, job, worker, subscribed>>
    PROVE  ScopesOK'
  BY DEF ScopesOK, RuntimeTypeOK, UnbornRests, SubscribedPinned, OwnerOf

LEMMA Assembled ==
    ASSUME ScopeInv, NEW t \in Threads, threads[t].pc # "idle", Stable(t), ScopesOK', ServerTypeOK',
           ThreadKnows(t)', server' = server
    PROVE  ScopeInv'
  <1>1. \A u \in Threads : ThreadKnows(u)'
    BY OthersKnow
  <1>2. EndIsQuiet'
    BY DEF ScopeInv, EndIsQuiet
  <1> QED
    BY <1>1, <1>2 DEF ScopeInv

\* While the mutex is free no deletion is between its halves.
LEMMA NobodyErases ==
    ASSUME ScopeInv, mutex = None PROVE \A u \in Threads : threads[u].pc # "erase"
  BY RuntimeConstants DEF ScopeInv, ThreadKnows

LEMMA ScopeResolve ==
    ASSUME ScopeInv, NEW t \in Threads, Resolve(t) PROVE ScopeInv'
  <1>0. /\ RuntimeTypeOK /\ ServerTypeOK /\ ScopesOK /\ mutex = None
        /\ threads[t].pc = "resolve" /\ threads[t].kind # "none" /\ threads[t].owner \in Owners
        /\ threads[t].owner # None /\ t # Server
    BY RuntimeConstants, ServerConstants DEF ScopeInv, ScopesOK, ThreadKnows, Resolve, At
  <1>1. \A u \in Threads : threads[u].pc # "erase"
    BY <1>0, NobodyErases
  <1>2. UNCHANGED <<server, clients, targets, subscribed, requests>>
    BY DEF Resolve, OnlyThreads
  <1>3. ASSUME NEW s \in Registered(threads[t].owner), Reuse(t, s), Serve(t, s) PROVE ScopeInv'
    <2>1. s \in Scopes /\ OwnerOf(s) = threads[t].owner /\ Contains(registry, s)
      BY <1>3 DEF Registered
    <2>2. Without(s) \in Seq(Scopes)
          /\ (\A r : r # s /\ Contains(registry, r) => Contains(Without(s), r))
          /\ \A r : Contains(Without(s), r) => Contains(registry, r)
      BY <1>0, <2>1, WithoutFacts DEF RuntimeTypeOK
    <2>3. registry' \in Seq(Scopes) /\ \A r : Contains(registry', r) <=> Contains(registry, r)
      BY <1>3, <2>1, <2>2, AppendKeeps, ContainsIsHas DEF Reuse
    <2>4. /\ UNCHANGED <<rights, scope, job, worker>>
          /\ leases' = [leases EXCEPT ![s] = @ \cup {t}]
      BY <1>3 DEF Reuse, databaseVars
    <2>5. \A r \in Scopes : leases'[r] = IF r = s THEN leases[r] \cup {t} ELSE leases[r]
      BY <1>0, <2>1, <2>4 DEF RuntimeTypeOK
    <2>6. RuntimeTypeOK'
      BY <1>0, <2>3, <2>4 DEF RuntimeTypeOK
    <2>7. UnbornRests'
      BY <1>0, <2>1, <2>3, <2>4, <2>5 DEF ScopesOK, UnbornRests, OwnerOf
    <2>8. SubscribedPinned'
      BY <1>0, <1>2, <2>5 DEF ScopesOK, SubscribedPinned, ServerTypeOK
    <2>9. ServerTypeOK'
      BY <1>0, <1>2, <1>3, <2>1, ServeFacts, RestOfServer
    <2>10. ThreadKnows(t)'
      BY <1>0, <1>3, <2>1, <2>4, <2>5, ServeFacts DEF ThreadKnows, OwnerOf, Watching
    <2>11. Stable(t)
      BY <1>0, <1>1, <1>2, <1>3, <2>1, <2>4, <2>5, ServeFacts DEF Stable, OwnerOf
    <2> QED  BY <1>0, <1>2, <2>6, <2>7, <2>8, <2>9, <2>10, <2>11, Assembled DEF ScopesOK
  <1>4. ASSUME Open(t, threads[t].owner), Serve(t, Fresh) PROVE ScopeInv'
    <2>1. Fresh \in Scopes /\ scope[Fresh] = Unused /\ OwnerOf(Fresh) = None
      BY <1>4, FreshIsUnborn DEF Open, OwnerOf, Unused
    <2>2. PICK f \in Scopes : f = Fresh
      BY <2>1
    <2>3. PICK o \in Owners : o = threads[t].owner
      BY <1>0
    <2>4. /\ Remaining \in Seq(Scopes) /\ Evicted \subseteq Scopes
          /\ \A s \in Evicted : IsIdle(s) /\ Contains(registry, s)
          /\ \A s : Contains(registry, s) /\ s \notin Evicted => Contains(Remaining, s)
          /\ \A s : Contains(Remaining, s) => Contains(registry, s)
      BY <1>0, <1>4, EvictionFacts DEF Open, RuntimeTypeOK
    <2>5. registry' \in Seq(Scopes) /\ \A r : Contains(registry', r) => r = f \/ Contains(registry, r)
      BY <1>4, <2>2, <2>4, AppendKeeps, ContainsIsHas DEF Open
    <2>6. /\ ~Contains(registry, f) /\ leases[f] = {} /\ job[f] = "none" /\ worker[f] = "idle"
      BY <1>0, <2>1, <2>2 DEF ScopesOK, UnbornRests
    <2>7. /\ rights' = rights /\ worker' = worker /\ leases' = [leases EXCEPT ![f] = {t}]
          /\ job' = [job EXCEPT ![f] = Recovered(o)]
          /\ scope' = [Retire(Evicted) EXCEPT ![f] = [owner |-> o, retired |-> FALSE]]
      BY <1>4, <2>2, <2>3 DEF Open
    <2>8. /\ Retire(Evicted) \in [Scopes -> [owner : Owners \cup {None}, retired : BOOLEAN]]
          /\ \A r \in Scopes : Retire(Evicted)[r].owner = OwnerOf(r)
      BY <1>0 DEF Retire, OwnerOf, RuntimeTypeOK
    <2>9. /\ scope' \in [Scopes -> [owner : Owners \cup {None}, retired : BOOLEAN]]
          /\ OwnerOf(f)' = o /\ \A r \in Scopes \ {f} : OwnerOf(r)' = OwnerOf(r)
      BY <2>7, <2>8 DEF OwnerOf
    <2>10. \A r \in Scopes : leases'[r] = IF r = f THEN {t} ELSE leases[r]
      BY <1>0, <2>7 DEF RuntimeTypeOK
    <2>11. job' \in [Scopes -> Statuses] /\ \A r \in Scopes \ {f} : job'[r] = job[r]
      <3>1. Recovered(o) \in Statuses
        BY DEF Recovered, Statuses, Final
      <3> QED  BY <1>0, <2>7, <3>1 DEF RuntimeTypeOK
    <2>12. RuntimeTypeOK'
      BY <1>0, <2>5, <2>7, <2>9, <2>11 DEF RuntimeTypeOK
    <2>13. UnbornRests'
      BY <1>0, <2>3, <2>5, <2>7, <2>9, <2>10, <2>11, RuntimeConstants DEF ScopesOK, UnbornRests
    <2>14. SubscribedPinned'
      BY <1>0, <1>2, <2>6, <2>10 DEF ScopesOK, SubscribedPinned, ServerTypeOK
    <2>15. ServerTypeOK'
      BY <1>0, <1>2, <1>4, <2>1, ServeFacts, RestOfServer
    <2>16. ThreadKnows(t)'
      BY <1>0, <1>4, <2>1, <2>2, <2>3, <2>9, <2>10, ServeFacts DEF ThreadKnows, Watching
    <2>17. Stable(t)
      BY <1>0, <1>1, <1>2, <1>4, <2>1, <2>2, <2>6, <2>9, <2>10, ServeFacts DEF Stable
    <2> QED  BY <1>0, <1>2, <2>12, <2>13, <2>14, <2>15, <2>16, <2>17, Assembled DEF ScopesOK
  <1>5. ASSUME Denied(t) \/ Refuse(threads[t].owner), Goto(t, "done") PROVE ScopeInv'
    <2>1. UNCHANGED <<rights, leases, job, worker>>
      BY <1>5 DEF Denied, Refuse, runtimeVars, databaseVars, scopeVars
    <2>2. /\ registry' \in Seq(Scopes) /\ \A r : Contains(registry', r) => Contains(registry, r)
          /\ scope' \in [Scopes -> [owner : Owners \cup {None}, retired : BOOLEAN]]
          /\ \A r \in Scopes : OwnerOf(r)' = OwnerOf(r)
      <3>1. CASE UNCHANGED <<registry, scope>>
        BY <1>0, <3>1 DEF RuntimeTypeOK, OwnerOf
      <3>2. CASE HasRoom /\ registry' = Remaining /\ scope' = Retire(Evicted)
        BY <1>0, <3>2, EvictionFacts DEF RuntimeTypeOK, OwnerOf, Retire
      <3> QED  BY <1>5, <3>1, <3>2 DEF Denied, Refuse, runtimeVars, scopeVars
    <2>3. ScopesOK'
      BY <1>0, <1>2, <2>1, <2>2 DEF ScopesOK, RuntimeTypeOK, UnbornRests, SubscribedPinned
    <2>4. /\ threads' \in [Threads -> ThreadType]
          /\ \A u \in Threads \ {t} : threads'[u] = threads[u]
          /\ threads'[t].pc = "done" /\ threads'[t].kind = threads[t].kind
          /\ threads'[t].owner = threads[t].owner
      BY <1>0, <1>5, GotoFacts DEF ThreadAt
    <2>5. ServerTypeOK'
      BY <1>0, <1>2, <2>4, RestOfServer
    <2>6. ThreadKnows(t)'
      BY <1>0, <2>4 DEF ThreadKnows, Watching
    <2>7. Stable(t)
      BY <1>1, <1>2, <2>1, <2>2, <2>4 DEF Stable
    <2> QED  BY <1>0, <1>2, <2>3, <2>5, <2>6, <2>7, Assembled
  <1> QED
    BY <1>3, <1>4, <1>5 DEF Resolve

\* A step of a thread that leaves the scopes as they are.
LEMMA ThreadMoves ==
    ASSUME ScopeInv, NEW t \in Threads, NEW p \in ThreadAt, threads[t].pc # "idle",
           threads' \in [Threads -> ThreadType],
           \A u \in Threads \ {t} : threads'[u] = threads[u],
           threads'[t].pc = p, threads'[t].kind = threads[t].kind,
           threads'[t].owner = threads[t].owner,
           \/ threads'[t].scope = threads[t].scope
              /\ (threads[t].pc \in {"subscribe"} \cup Watching \/ p \notin Watching)
           \/ p \in {"done", "rows"},
           p \notin {"start", "subscribe", "erase"},
           p = "started" => threads[t].pc = "start",
           p \in Watching => threads[t].pc \in Watching,
           p \in {"retire", "rows"} => threads[t].kind = "delete",
           threads[t].pc # "erase",
           clients' \in [Threads -> ClientType],
           UNCHANGED <<registry, scope, leases, mutex, rights, worker>>,
           UNCHANGED <<server, targets, subscribed, requests>>,
           job' \in [Scopes -> Statuses],
           \A s \in Scopes : job[s] # job'[s] => OwnerOf(s) # None
    PROVE  ScopeInv'
  <1>0. RuntimeTypeOK /\ ServerTypeOK /\ ScopesOK /\ ThreadKnows(t)
    BY DEF ScopeInv, ScopesOK
  <1>1. ScopesOK'
    BY <1>0 DEF ScopesOK, RuntimeTypeOK, UnbornRests, SubscribedPinned, OwnerOf
  <1>2. ServerTypeOK'
    BY <1>0 DEF ServerTypeOK
  <1>3. ThreadKnows(t)'
    BY <1>0 DEF ThreadKnows, Watching, OwnerOf
  <1>4. Stable(t)
    BY <1>0 DEF Stable, OwnerOf
  <1> QED
    BY <1>1, <1>2, <1>3, <1>4, Assembled

LEMMA HeardTypes ==
    ASSUME NEW k \in ClientType, NEW v \in Views \cup {None}
    PROVE  /\ Heard(k, v) \in ClientType /\ Retired(k) \in ClientType
           /\ Removed(k) \in ClientType /\ Sent(k, v) \in ClientType
  <1>1. Heard(k, v) \in ClientType /\ Retired(k) \in ClientType
    BY DEF Heard, Retired, ClientType
  <1>2. Removed(k) \in ClientType
    BY <1>1 DEF Removed, ClientType
  <1> QED
    BY <1>1, <1>2 DEF Sent

LEMMA ShownIsView == ASSUME RuntimeTypeOK, NEW s \in Scopes PROVE Shown(s) \in Views
  BY DEF RuntimeTypeOK, Shown, View, Statuses, Views, Final

LEMMA ScopeStart ==
    ASSUME ScopeInv, NEW t \in Threads, StartJob(t) \/ TellStart(t) PROVE ScopeInv'
  <1>0. /\ RuntimeTypeOK /\ ServerTypeOK /\ UnbornRests /\ ThreadKnows(t)
        /\ threads[t].pc \in {"start", "started"} /\ clients \in [Threads -> ClientType]
    BY DEF ScopeInv, ScopesOK, ServerTypeOK, StartJob, TellStart, At
  <1>1. PICK s \in Scopes : s = threads[t].scope /\ OwnerOf(s) # None
    BY <1>0, RuntimeConstants DEF ThreadKnows
  <1>2. UNCHANGED <<server, clients, targets, subscribed, requests>>
    BY DEF StartJob, TellStart, OnlyThreads
  <1>3. ASSUME Goto(t, "done"), UNCHANGED <<registry, scope, leases, mutex, rights, worker, job>>
        PROVE  ScopeInv'
    <2>1. /\ threads' \in [Threads -> ThreadType]
          /\ \A u \in Threads \ {t} : threads'[u] = threads[u]
          /\ threads'[t].pc = "done" /\ threads'[t].kind = threads[t].kind
          /\ threads'[t].owner = threads[t].owner
      BY <1>0, <1>3, GotoFacts DEF ThreadAt
    <2> QED
      BY <1>0, <1>2, <1>3, <2>1, ThreadMoves DEF ThreadAt, Watching, RuntimeTypeOK
  <1>4. CASE TellStart(t)
    <2>1. Goto(t, "done") /\ UNCHANGED <<registry, scope, leases, mutex, rights, worker, job>>
      BY <1>4 DEF TellStart, RecordStart, runtimeVars, scopeVars, databaseVars
    <2> QED  BY <1>3, <2>1
  <1>5. ASSUME Goto(t, "done"), UNCHANGED runtimeVars PROVE ScopeInv'
    BY <1>3, <1>5 DEF runtimeVars, scopeVars, databaseVars
  <1>6. ASSUME Start(s), threads[t].pc = "start",
               threads' = [threads EXCEPT ![t].pc = "started", ![t].seen = View(Started(s))]
        PROVE  ScopeInv'
    <2>1. Started(s) \in Statuses /\ View(Started(s)) \in Views
      BY DEF Started, Statuses, View, Views, Final
    <2>2. PICK th : th = [threads[t] EXCEPT !.pc = "started", !.seen = View(Started(s))]
      OBVIOUS
    <2>3. threads[t] \in ThreadType /\ threads \in [Threads -> ThreadType]
      BY <1>0 DEF ServerTypeOK
    <2>4. /\ th \in ThreadType /\ th.pc = "started" /\ th.kind = threads[t].kind
          /\ th.owner = threads[t].owner /\ th.scope = threads[t].scope
      BY <2>1, <2>2, <2>3 DEF ThreadType, ThreadAt
    <2>5. threads' = [threads EXCEPT ![t] = th]
      BY <1>6, <2>2, <2>3
    <2>6. /\ threads' \in [Threads -> ThreadType] /\ threads'[t] = th
          /\ \A u \in Threads \ {t} : threads'[u] = threads[u]
      BY <1>0, <2>4, <2>5, ThreadChange
    <2>7. /\ UNCHANGED <<registry, scope, leases, mutex, rights, worker>>
          /\ job' = [job EXCEPT ![s] = Started(s)]
      BY <1>6 DEF Start, databaseVars
    <2>8. job' \in [Scopes -> Statuses] /\ \A r \in Scopes : job[r] # job'[r] => OwnerOf(r) # None
      BY <1>0, <1>1, <2>1, <2>7 DEF RuntimeTypeOK
    <2> QED
      BY <1>0, <1>2, <1>6, <2>4, <2>6, <2>7, <2>8, ThreadMoves DEF ThreadAt, Watching
  <1> QED
    BY <1>1, <1>4, <1>5, <1>6 DEF StartJob, At

LEMMA ScopeAccept ==
    ASSUME ScopeInv, NEW t \in Threads, Accept(t) PROVE ScopeInv'
  <1>0. /\ ServerTypeOK /\ ScopesOK /\ threads[t].pc = "idle" /\ server \in {"up", "flagged"}
        /\ requests \in Nat
    BY DEF ScopeInv, Accept, At, ServerTypeOK
  <1>1. PICK kind \in {"start", "socket", "delete"}, o \in Owners :
            threads' = [threads EXCEPT ![t] = [NoThread EXCEPT !.kind = kind, !.owner = o,
                                                               !.pc = "resolve"]]
    BY DEF Accept
  <1>2. PICK th : th = [NoThread EXCEPT !.kind = kind, !.owner = o, !.pc = "resolve"]
    OBVIOUS
  <1>3. th \in ThreadType /\ th.pc = "resolve" /\ th.kind = kind /\ th.owner = o
    BY <1>2 DEF NoThread, ThreadType, ThreadAt
  <1>4. /\ threads' \in [Threads -> ThreadType] /\ threads'[t] = th
        /\ \A u \in Threads \ {t} : threads'[u] = threads[u]
    BY <1>0, <1>1, <1>2, <1>3, ThreadChange
  <1>5. /\ UNCHANGED <<server, clients, targets, subscribed>> /\ requests' = requests + 1
        /\ UNCHANGED <<rights, registry, scope, leases, job, worker, mutex>>
    BY DEF Accept, runtimeVars, scopeVars, databaseVars
  <1>6. ScopesOK'
    BY <1>0, <1>5, ScopesSame
  <1>7. ServerTypeOK'
    BY <1>0, <1>4, <1>5 DEF ServerTypeOK
  <1>8. ThreadKnows(t)'
    BY <1>3, <1>4 DEF ThreadKnows, Watching
  <1>9. Stable(t)
    BY <1>4, <1>5 DEF Stable, OwnerOf
  <1>10. \A u \in Threads : ThreadKnows(u)'
    BY <1>8, <1>9, OthersKnow
  <1>11. EndIsQuiet'
    BY <1>0, <1>5 DEF EndIsQuiet
  <1> QED
    BY <1>6, <1>7, <1>10, <1>11 DEF ScopeInv

LEMMA ScopeSocket ==
    ASSUME ScopeInv, NEW t \in Threads,
           Enlist(t) \/ ListJobs(t) \/ SendSnapshot(t) \/ LeaveLoop(t)
    PROVE  ScopeInv'
  <1>0. /\ RuntimeTypeOK /\ ServerTypeOK /\ ThreadKnows(t) /\ threads[t].pc \in Watching
        /\ clients \in [Threads -> ClientType] /\ threads[t] \in ThreadType
        /\ threads \in [Threads -> ThreadType] /\ requests \in Nat
        /\ threads[t].scope \in Scopes /\ threads[t].owner \in Owners
    BY DEF ScopeInv, ScopesOK, ServerTypeOK, Enlist, ListJobs, SendSnapshot, LeaveLoop, At, Watching,
           ThreadKnows
  <1>1. /\ UNCHANGED <<server, targets, subscribed, requests>>
        /\ UNCHANGED <<registry, scope, leases, mutex, rights, worker, job>>
    BY DEF Enlist, ListJobs, SendSnapshot, LeaveLoop, ThreadOnly, OnlyThreads, runtimeVars, scopeVars,
           databaseVars
  <1>2. job' \in [Scopes -> Statuses] /\ \A r \in Scopes : job[r] = job'[r]
    BY <1>0, <1>1 DEF RuntimeTypeOK
  <1>3. clients' \in [Threads -> ClientType]
    <2>1. CASE Enlist(t)
      BY <1>0, <2>1 DEF Enlist, ClientType
    <2>2. CASE ListJobs(t)
      BY <1>0, <2>2 DEF ListJobs, ThreadOnly, OnlyThreads
    <2>3. CASE SendSnapshot(t)
      <3>1. Sent(clients[t], threads[t].seen) \in ClientType
        BY <1>0, HeardTypes DEF ThreadType
      <3> QED  BY <1>0, <2>3, <3>1 DEF SendSnapshot
    <2>4. CASE LeaveLoop(t)
      <3>1. Removed(clients[t]) \in ClientType
        BY <1>0, HeardTypes
      <3> QED  BY <1>0, <2>4, <3>1 DEF LeaveLoop
    <2> QED  BY <2>1, <2>2, <2>3, <2>4
  <1>4. ASSUME NEW p \in {"list", "loop", "done"}, Goto(t, p) PROVE ScopeInv'
    <2>1. /\ threads' \in [Threads -> ThreadType]
          /\ \A u \in Threads \ {t} : threads'[u] = threads[u]
          /\ threads'[t].pc = p /\ threads'[t].kind = threads[t].kind
          /\ threads'[t].owner = threads[t].owner /\ threads'[t].scope = threads[t].scope
      BY <1>0, <1>4, GotoFacts DEF ThreadAt
    <2> QED
      BY <1>0, <1>1, <1>2, <1>3, <2>1, ThreadMoves DEF ThreadAt, Watching
  <1>5. CASE ListJobs(t)
    <2>1. PICK v : v = Shown(threads[t].scope)
      OBVIOUS
    <2>2. v \in Views
      BY <1>0, <2>1, ShownIsView
    <2>3. PICK th : th = [threads[t] EXCEPT !.pc = "snapshot", !.seen = v]
      OBVIOUS
    <2>4. /\ th \in ThreadType /\ th.pc = "snapshot" /\ th.kind = threads[t].kind
          /\ th.owner = threads[t].owner /\ th.scope = threads[t].scope
      BY <1>0, <2>2, <2>3 DEF ThreadType, ThreadAt
    <2>5. threads' = [threads EXCEPT ![t].pc = "snapshot", ![t].seen = v]
      BY <1>5, <2>1 DEF ListJobs
    <2>6. threads' = [threads EXCEPT ![t] = th]
      BY <1>0, <2>3, <2>5
    <2>7. /\ threads' \in [Threads -> ThreadType] /\ threads'[t] = th
          /\ \A u \in Threads \ {t} : threads'[u] = threads[u]
      BY <1>0, <2>4, <2>6, ThreadChange
    <2> QED
      BY <1>0, <1>1, <1>2, <1>3, <2>4, <2>7, ThreadMoves DEF ThreadAt, Watching
  <1> QED
    BY <1>4, <1>5 DEF Enlist, SendSnapshot, LeaveLoop

LEMMA ScopeSubscribe ==
    ASSUME ScopeInv, NEW t \in Threads, Subscribe(t) PROVE ScopeInv'
  <1>0. /\ RuntimeTypeOK /\ ServerTypeOK /\ ScopesOK /\ UnbornRests /\ SubscribedPinned
        /\ ThreadKnows(t) /\ threads[t].pc = "subscribe" /\ subscribed \subseteq Scopes
    BY DEF ScopeInv, ScopesOK, ServerTypeOK, Subscribe, At
  <1>1. PICK s \in Scopes : /\ s = threads[t].scope /\ t \in leases[s]
                            /\ OwnerOf(s) = threads[t].owner /\ threads[t].owner \in Owners
    BY <1>0 DEF ThreadKnows
  <1>2. /\ UNCHANGED <<server, clients, targets, requests, rights, registry, scope, job, worker, mutex>>
        /\ subscribed' = subscribed \cup {s} /\ Goto(t, "enlist")
    BY <1>1 DEF Subscribe, Release, databaseVars
  <1>3. /\ leases' = [r \in Scopes |-> leases'[r]]
        /\ \A r \in Scopes : /\ leases[r] \ {t} \subseteq leases'[r]
                             /\ leases'[r] \subseteq leases[r] \cup (IF r = s THEN {Server} ELSE {})
        /\ s \notin subscribed => Server \in leases'[s]
    <2>1. CASE s \in subscribed
      <3>1. leases' = [r \in Scopes |-> leases[r] \ {t}]
        BY <1>1, <2>1 DEF Subscribe, Release
      <3> QED  BY <2>1, <3>1
    <2>2. CASE s \notin subscribed
      <3>1. leases' = [leases EXCEPT ![s] = (@ \ {t}) \cup {Server}]
        BY <1>1, <2>2 DEF Subscribe
      <3>2. leases = [r \in Scopes |-> leases[r]]
        BY <1>0 DEF RuntimeTypeOK
      <3>3. \A r \in Scopes :
                leases'[r] = IF r = s THEN (leases[s] \ {t}) \cup {Server} ELSE leases[r]
        BY <3>1, <3>2
      <3>4. leases' = [r \in Scopes |-> leases'[r]]
        BY <3>1, <3>2
      <3> QED  BY <3>3, <3>4
    <2> QED  BY <2>1, <2>2
  <1>4. /\ threads' \in [Threads -> ThreadType]
        /\ \A u \in Threads \ {t} : threads'[u] = threads[u]
        /\ threads'[t].pc = "enlist" /\ threads'[t].kind = threads[t].kind
        /\ threads'[t].owner = threads[t].owner /\ threads'[t].scope = threads[t].scope
    BY <1>0, <1>2, GotoFacts DEF ThreadAt
  <1>5. RuntimeTypeOK'
    BY <1>0, <1>2, <1>3 DEF RuntimeTypeOK
  <1>6. UnbornRests'
    BY <1>0, <1>1, <1>2, <1>3, RuntimeConstants DEF UnbornRests, OwnerOf
  <1>7. SubscribedPinned'
    BY <1>0, <1>2, <1>3, ServerConstants DEF SubscribedPinned
  <1>8. ServerTypeOK'
    BY <1>0, <1>2, <1>4 DEF ServerTypeOK
  <1>9. ThreadKnows(t)'
    BY <1>0, <1>1, <1>2, <1>4 DEF ThreadKnows, Watching, OwnerOf
  <1>10. Stable(t)
    BY <1>2, <1>3, <1>4 DEF Stable, OwnerOf
  <1> QED
    BY <1>0, <1>2, <1>5, <1>6, <1>7, <1>8, <1>9, <1>10, Assembled DEF ScopesOK

LEMMA RetireFacts ==
    ASSUME RuntimeTypeOK, NEW gone
    PROVE  /\ Retire(gone) \in [Scopes -> [owner : Owners \cup {None}, retired : BOOLEAN]]
           /\ \A r \in Scopes : Retire(gone)[r].owner = OwnerOf(r)
  BY DEF Retire, OwnerOf, RuntimeTypeOK

LEMMA ScopeBeginDelete ==
    ASSUME ScopeInv, NEW t \in Threads, BeginDelete(t) PROVE ScopeInv'
  <1>0. /\ RuntimeTypeOK /\ ServerTypeOK /\ ScopesOK /\ UnbornRests /\ SubscribedPinned
        /\ ThreadKnows(t) /\ threads[t].pc = "retire" /\ mutex = None
        /\ threads[t] \in ThreadType /\ threads \in [Threads -> ThreadType]
        /\ clients \in [Threads -> ClientType]
    BY DEF ScopeInv, ScopesOK, ServerTypeOK, BeginDelete, At
  <1>1. \A u \in Threads : threads[u].pc # "erase"
    BY <1>0, NobodyErases
  <1>2. UNCHANGED <<server, clients, targets, subscribed, requests>>
    BY DEF BeginDelete, OnlyThreads
  <1>3. threads[t].owner \in Owners /\ threads[t].owner # None /\ threads[t].kind = "delete"
    BY <1>0, RuntimeConstants DEF ThreadKnows
  <1>4. ASSUME NEW s \in Registered(threads[t].owner), scope' = Retire({s}),
               NEW p \in {"erase", "done"}, NEW th \in ThreadType,
               threads' = [threads EXCEPT ![t] = th], th.pc = p, th.kind = threads[t].kind,
               th.owner = threads[t].owner,
               p = "erase" => th.scope = s /\ mutex' = t,
               UNCHANGED <<rights, registry, leases, worker>>,
               \/ job' = job
               \/ \E v \in Statuses : job' = [job EXCEPT ![s] = v]
        PROVE  ScopeInv'
    <2>1. s \in Scopes /\ OwnerOf(s) = threads[t].owner /\ Contains(registry, s)
      BY <1>4 DEF Registered
    <2>2. /\ scope' \in [Scopes -> [owner : Owners \cup {None}, retired : BOOLEAN]]
          /\ \A r \in Scopes : OwnerOf(r)' = OwnerOf(r)
      BY <1>0, <1>4, RetireFacts DEF OwnerOf
    <2>3. job' \in [Scopes -> Statuses] /\ \A r \in Scopes \ {s} : job'[r] = job[r]
      BY <1>0, <1>4 DEF RuntimeTypeOK
    <2>4. RuntimeTypeOK'
      BY <1>0, <1>4, <2>2, <2>3 DEF RuntimeTypeOK
    <2>5. UnbornRests' /\ SubscribedPinned'
      BY <1>0, <1>2, <1>3, <1>4, <2>1, <2>2, <2>3 DEF UnbornRests, SubscribedPinned
    <2>6. /\ threads' \in [Threads -> ThreadType] /\ threads'[t] = th
          /\ \A u \in Threads \ {t} : threads'[u] = threads[u]
      BY <1>0, <1>4, ThreadChange
    <2>7. ServerTypeOK'
      BY <1>0, <1>2, <2>6, RestOfServer
    <2>8. ThreadKnows(t)'
      BY <1>0, <1>3, <1>4, <2>1, <2>2, <2>6 DEF ThreadKnows, Watching
    <2>9. Stable(t)
      BY <1>1, <1>2, <1>4, <2>2, <2>6 DEF Stable
    <2> QED  BY <1>0, <1>2, <2>4, <2>5, <2>7, <2>8, <2>9, Assembled DEF ScopesOK
  <1>5. ASSUME NEW s \in Registered(threads[t].owner), RetireScope(t, s),
               threads' = [threads EXCEPT ![t].pc = "erase", ![t].scope = s]
        PROVE  ScopeInv'
    <2>1. PICK th : th = [threads[t] EXCEPT !.pc = "erase", !.scope = s]
      OBVIOUS
    <2>2. s \in Scopes
      BY DEF Registered
    <2>3. /\ th \in ThreadType /\ th.pc = "erase" /\ th.kind = threads[t].kind
          /\ th.owner = threads[t].owner /\ th.scope = s
      BY <1>0, <2>1, <2>2 DEF ThreadType, ThreadAt
    <2>4. threads' = [threads EXCEPT ![t] = th]
      BY <1>0, <1>5, <2>1
    <2>5. /\ scope' = Retire({s}) /\ mutex' = t /\ UNCHANGED <<rights, registry, leases, worker>>
          /\ \/ job' = job
             \/ \E v \in Statuses : job' = [job EXCEPT ![s] = v]
      BY <1>5 DEF RetireScope, CancelJob, Statuses, Final
    <2> QED  BY <1>4, <2>3, <2>4, <2>5
  <1>6. ASSUME NEW s \in Registered(threads[t].owner), RetireThrows(s), Goto(t, "done")
        PROVE  ScopeInv'
    <2>1. PICK th : th = [threads[t] EXCEPT !.pc = "done"]
      OBVIOUS
    <2>2. /\ th \in ThreadType /\ th.pc = "done" /\ th.kind = threads[t].kind
          /\ th.owner = threads[t].owner
      BY <1>0, <2>1 DEF ThreadType, ThreadAt
    <2>3. threads' = [threads EXCEPT ![t] = th]
      BY <1>6, <2>1 DEF Goto
    <2>4. PICK v : v = IF job[s] = "queued" THEN "cancelled" ELSE "cancelling"
      OBVIOUS
    <2>5. /\ scope' = Retire({s}) /\ UNCHANGED <<rights, registry, leases, worker>>
          /\ v \in Statuses /\ job' = [job EXCEPT ![s] = v]
      BY <1>6, <2>4 DEF RetireThrows, databaseVars, Statuses, Final
    <2> QED  BY <1>4, <2>2, <2>3, <2>5
  <1>7. ASSUME Goto(t, "rows"), UNCHANGED runtimeVars PROVE ScopeInv'
    <2>1. /\ threads' \in [Threads -> ThreadType]
          /\ \A u \in Threads \ {t} : threads'[u] = threads[u]
          /\ threads'[t].pc = "rows" /\ threads'[t].kind = threads[t].kind
          /\ threads'[t].owner = threads[t].owner
      BY <1>0, <1>7, GotoFacts DEF ThreadAt
    <2>2. UNCHANGED <<registry, scope, leases, mutex, rights, worker, job>>
      BY <1>7 DEF runtimeVars, scopeVars, databaseVars
    <2>3. job' \in [Scopes -> Statuses] /\ clients' \in [Threads -> ClientType]
      BY <1>0, <1>2, <2>2 DEF RuntimeTypeOK
    <2> QED
      BY <1>0, <1>2, <1>3, <2>1, <2>2, <2>3, ThreadMoves DEF ThreadAt, Watching
  <1> QED
    BY <1>5, <1>6, <1>7 DEF BeginDelete

LEMMA ScopeErase ==
    ASSUME ScopeInv, NEW t \in Threads, Erase(t) PROVE ScopeInv'
  <1>0. /\ RuntimeTypeOK /\ ServerTypeOK /\ ScopesOK /\ UnbornRests /\ SubscribedPinned
        /\ ThreadKnows(t) /\ threads[t].pc = "erase"
    BY DEF ScopeInv, ScopesOK, Erase, At
  <1>1. PICK s \in Scopes : /\ s = threads[t].scope /\ mutex = t /\ Contains(registry, s)
                            /\ threads[t].kind = "delete" /\ threads[t].owner \in Owners
    BY <1>0 DEF ThreadKnows
  <1>2. \A u \in Threads \ {t} : threads[u].pc # "erase"
    BY <1>1 DEF ScopeInv, ThreadKnows
  <1>3. /\ UNCHANGED <<server, clients, targets, subscribed, requests>> /\ Goto(t, "rows")
        /\ UNCHANGED <<rights, scope, leases, job, worker>> /\ registry' = Without(s)
    BY <1>1 DEF Erase, EraseScope, OnlyThreads, databaseVars
  <1>4. registry' \in Seq(Scopes) /\ \A r : Contains(registry', r) => Contains(registry, r)
    BY <1>0, <1>1, <1>3, WithoutFacts DEF RuntimeTypeOK
  <1>5. /\ threads' \in [Threads -> ThreadType]
        /\ \A u \in Threads \ {t} : threads'[u] = threads[u]
        /\ threads'[t].pc = "rows" /\ threads'[t].kind = threads[t].kind
        /\ threads'[t].owner = threads[t].owner
    BY <1>0, <1>3, GotoFacts DEF ThreadAt
  <1>6. RuntimeTypeOK' /\ UnbornRests' /\ SubscribedPinned'
    BY <1>0, <1>3, <1>4 DEF RuntimeTypeOK, UnbornRests, SubscribedPinned, OwnerOf
  <1>7. ServerTypeOK'
    BY <1>0, <1>3, <1>5, RestOfServer
  <1>8. ThreadKnows(t)'
    BY <1>1, <1>5 DEF ThreadKnows, Watching
  <1>9. Stable(t)
    BY <1>2, <1>3, <1>5 DEF Stable, OwnerOf
  <1> QED
    BY <1>0, <1>3, <1>6, <1>7, <1>8, <1>9, Assembled DEF ScopesOK

LEMMA ScopeRows ==
    ASSUME ScopeInv, NEW t \in Threads, Rows(t) PROVE ScopeInv'
  <1>0. /\ RuntimeTypeOK /\ ServerTypeOK /\ ScopesOK /\ ThreadKnows(t) /\ threads[t].pc = "rows"
    BY DEF ScopeInv, ScopesOK, Rows, At
  <1>1. /\ UNCHANGED <<server, clients, targets, subscribed, requests>> /\ Goto(t, "done")
        /\ UNCHANGED <<registry, scope, leases, job, worker, mutex>> /\ rights' \subseteq rights
    BY DEF Rows, DeleteRows, OnlyThreads, scopeVars
  <1>2. /\ threads' \in [Threads -> ThreadType]
        /\ \A u \in Threads \ {t} : threads'[u] = threads[u]
        /\ threads'[t].pc = "done" /\ threads'[t].kind = threads[t].kind
        /\ threads'[t].owner = threads[t].owner
    BY <1>0, <1>1, GotoFacts DEF ThreadAt
  <1>3. ScopesOK'
    BY <1>0, <1>1 DEF ScopesOK, RuntimeTypeOK, UnbornRests, SubscribedPinned, OwnerOf
  <1>4. ServerTypeOK'
    BY <1>0, <1>1, <1>2, RestOfServer
  <1>5. ThreadKnows(t)'
    BY <1>0, <1>2 DEF ThreadKnows, Watching
  <1>6. Stable(t)
    BY <1>1, <1>2 DEF Stable, OwnerOf
  <1> QED
    BY <1>0, <1>1, <1>3, <1>4, <1>5, <1>6, Assembled

LEMMA ScopeFinish ==
    ASSUME ScopeInv, NEW t \in Threads, Finish(t) PROVE ScopeInv'
  <1>0. /\ RuntimeTypeOK /\ ServerTypeOK /\ ScopesOK /\ UnbornRests /\ SubscribedPinned
        /\ threads[t].pc = "done" /\ clients \in [Threads -> ClientType]
    BY DEF ScopeInv, ScopesOK, ServerTypeOK, Finish, At
  <1>1. /\ UNCHANGED <<server, targets, subscribed, requests>>
        /\ UNCHANGED <<rights, registry, scope, job, worker, mutex>>
        /\ leases' = [s \in Scopes |-> leases[s] \ {t}]
        /\ threads' = [threads EXCEPT ![t] = NoThread]
        /\ clients' = [clients EXCEPT ![t] = NoClient]
    BY DEF Finish, Release, databaseVars
  <1>2. NoThread \in ThreadType /\ NoThread.pc = "idle" /\ NoClient \in ClientType
    BY DEF NoThread, ThreadType, ThreadAt, NoClient, ClientType
  <1>3. /\ threads' \in [Threads -> ThreadType] /\ threads'[t] = NoThread
        /\ \A u \in Threads \ {t} : threads'[u] = threads[u]
    BY <1>0, <1>1, <1>2, ThreadChange
  <1>4. RuntimeTypeOK' /\ UnbornRests' /\ SubscribedPinned'
    BY <1>0, <1>1, ServerConstants DEF RuntimeTypeOK, UnbornRests, SubscribedPinned, OwnerOf, ScopeInv,
       ServerTypeOK
  <1>5. ServerTypeOK'
    BY <1>0, <1>1, <1>2, <1>3 DEF ServerTypeOK
  <1>6. ThreadKnows(t)'
    BY <1>2, <1>3 DEF ThreadKnows, Watching
  <1>7. Stable(t)
    BY <1>0, <1>1, <1>3 DEF Stable, OwnerOf
  <1> QED
    BY <1>0, <1>1, <1>4, <1>5, <1>6, <1>7, Assembled DEF ScopesOK

LEMMA AllAssembled ==
    ASSUME ScopeInv, Stable(None), ScopesOK', ServerTypeOK', EndIsQuiet' PROVE ScopeInv'
  <1>1. \A u \in Threads \ {None} : ThreadKnows(u)'
    BY OthersKnow
  <1> QED
    BY <1>1, RuntimeConstants DEF ScopeInv

LEMMA ScopeCallback ==
    ASSUME ScopeInv, ObserverTypeOK, NEW n \in Notifiers, CallbackStep(n) PROVE ScopeInv'
  <1>0. /\ ServerTypeOK /\ ScopesOK /\ clients \in [Threads -> ClientType]
        /\ notices[n].what \in Views \cup {None}
    BY DEF ScopeInv, ServerTypeOK, ObserverTypeOK, NoticeType
  <1>1. /\ UNCHANGED <<server, threads, subscribed, requests>>
        /\ UNCHANGED <<rights, registry, scope, leases, job, worker, mutex>>
    BY DEF CallbackStep, Broadcast, EndCallback, scopeVars, databaseVars
  <1>2. targets' = [m \in Notifiers |-> targets'[m]]
    BY <1>0 DEF CallbackStep, Broadcast, EndCallback, ServerTypeOK
  <1>3. clients' \in [Threads -> ClientType]
    <2>1. CASE Broadcast(n)
      BY <1>0, <2>1 DEF Broadcast
    <2>2. CASE EndCallback(n)
      <3>1. \A t \in Threads : Sent(clients[t], notices[n].what) \in ClientType
        BY <1>0, HeardTypes
      <3> QED  BY <1>0, <2>2, <3>1 DEF EndCallback
    <2> QED  BY <2>1, <2>2 DEF CallbackStep
  <1>4. ScopesOK'
    BY <1>0, <1>1, ScopesSame
  <1>5. ServerTypeOK' /\ EndIsQuiet'
    BY <1>0, <1>1, <1>2, <1>3 DEF ServerTypeOK, ScopeInv, EndIsQuiet
  <1>6. Stable(None)
    BY <1>1 DEF Stable, OwnerOf
  <1> QED
    BY <1>4, <1>5, <1>6, AllAssembled

LEMMA ScopeScopes ==
    ASSUME ScopeInv, NEW s \in Scopes, ScopeStep(s) PROVE ScopeInv'
  <1>0. RuntimeTypeOK /\ ServerTypeOK /\ ScopesOK /\ UnbornRests /\ SubscribedPinned /\ EndIsQuiet
    BY DEF ScopeInv, ScopesOK
  <1>1. UNCHANGED <<server, threads, clients, targets, subscribed, requests>>
    BY DEF ScopeStep, serverVars
  <1>2. ServerTypeOK' /\ EndIsQuiet'
    BY <1>0, <1>1 DEF ServerTypeOK, EndIsQuiet
  <1>3. CASE WorkerStep(s)
    <2>1. UNCHANGED <<rights, registry, scope, leases, mutex>>
      BY <1>3 DEF WorkerStep, Take, Decide, Report, Terminate, databaseVars
    <2>2. job' \in [Scopes -> Statuses] /\ worker' \in [Scopes -> {"idle", "analysing", "decided"}]
          /\ (\A r \in Scopes \ {s} : job'[r] = job[r] /\ worker'[r] = worker[r])
          /\ (job[s] = "none" /\ worker[s] = "idle" => job'[s] = "none" /\ worker'[s] = "idle")
      <3>1. CASE Take(s)
        BY <1>0, <3>1 DEF Take, Terminate, RuntimeTypeOK, Statuses
      <3>2. CASE Decide(s)
        BY <1>0, <3>2 DEF Decide, RuntimeTypeOK, Statuses, Final
      <3>3. CASE Report(s)
        BY <1>0, <3>3 DEF Report, Terminate, RuntimeTypeOK
      <3> QED  BY <1>3, <3>1, <3>2, <3>3 DEF WorkerStep
    <2>3. RuntimeTypeOK' /\ SubscribedPinned'
      BY <1>0, <1>1, <2>1, <2>2 DEF RuntimeTypeOK, SubscribedPinned
    <2>4. UnbornRests'
      <3>1. \A r \in Scopes : OwnerOf(r)' = OwnerOf(r)
        BY <2>1 DEF OwnerOf
      <3>2. \A r \in Scopes : job[r] = "none" /\ worker[r] = "idle"
                                => job'[r] = job[r] /\ worker'[r] = worker[r]
        BY <2>2
      <3> QED  BY <1>0, <2>1, <3>1, <3>2 DEF UnbornRests
    <2>5. Stable(None)
      BY <1>1, <2>1 DEF Stable, OwnerOf
    <2> QED  BY <1>2, <2>3, <2>4, <2>5, AllAssembled DEF ScopesOK
  <1>4. CASE Destroy(s)
    <2>1. /\ UNCHANGED <<rights, registry, leases, worker, mutex>> /\ worker[s] = "idle"
          /\ ~Contains(registry, s) /\ leases[s] = {}
          /\ scope' = [scope EXCEPT ![s] = Unused] /\ job' = [job EXCEPT ![s] = "none"]
      BY <1>4 DEF Destroy, IsDying, databaseVars
    <2>2. Unused \in [owner : Owners \cup {None}, retired : BOOLEAN] /\ Unused.owner = None
      BY DEF Unused
    <2>3. RuntimeTypeOK'
      BY <1>0, <2>1, <2>2 DEF RuntimeTypeOK, Statuses
    <2>4. \A r \in Scopes \ {s} : OwnerOf(r)' = OwnerOf(r) /\ job'[r] = job[r]
      BY <1>0, <2>1 DEF OwnerOf, RuntimeTypeOK
    <2>5. job'[s] = "none"
      BY <1>0, <2>1 DEF RuntimeTypeOK
    <2>6. UnbornRests'
      BY <1>0, <2>1, <2>4, <2>5 DEF UnbornRests
    <2>7. SubscribedPinned'
      BY <1>0, <1>1, <2>1 DEF SubscribedPinned
    <2>8. Stable(None)
      BY <1>1, <2>1, <2>4 DEF Stable
    <2> QED  BY <1>2, <2>3, <2>6, <2>7, <2>8, AllAssembled DEF ScopesOK
  <1> QED
    BY <1>3, <1>4 DEF ScopeStep

LEMMA ScopeEnd ==
    ASSUME ScopeInv, DefaultJob \/ Stop \/ EndStep PROVE ScopeInv'
  <1>0. /\ RuntimeTypeOK /\ ServerTypeOK /\ ScopesOK /\ UnbornRests /\ SubscribedPinned /\ EndIsQuiet
        /\ clients \in [Threads -> ClientType] /\ requests \in Nat
    BY DEF ScopeInv, ScopesOK, ServerTypeOK
  <1>1. ASSUME UNCHANGED <<threads, targets, subscribed>>, requests' \in Nat,
               clients' \in [Threads -> ClientType],
               server' \in {"up", "flagged", "stopped", "unobserved", "gone"},
               server' = "unobserved" \/ server' = "gone" => \A t \in Threads : threads[t].pc = "idle",
               UNCHANGED <<rights, registry, scope, leases, job, worker, mutex>>
        PROVE  ScopeInv'
    <2>1. ServerTypeOK' /\ EndIsQuiet'
      BY <1>0, <1>1 DEF ServerTypeOK, EndIsQuiet
    <2>2. ScopesOK'
      BY <1>0, <1>1, ScopesSame
    <2>3. Stable(None)
      BY <1>1 DEF Stable, OwnerOf
    <2> QED  BY <2>1, <2>2, <2>3, AllAssembled
  <1>2. CASE DefaultJob
    BY <1>0, <1>1, <1>2 DEF DefaultJob, ServerTypeOK, EndIsQuiet, scopeVars, databaseVars
  <1>3. CASE Stop
    BY <1>0, <1>1, <1>3 DEF Stop, StopAt, StopOnly, runtimeVars, scopeVars, databaseVars
  <1>4. CASE RetireAll
    <2>1. \A t \in Threads : Retired(clients[t]) \in ClientType
      BY <1>0, HeardTypes
    <2>2. clients' \in [Threads -> ClientType]
      BY <1>0, <1>4, <2>1 DEF RetireAll
    <2> QED
      BY <1>0, <1>1, <1>4, <2>2 DEF RetireAll, StopAt, runtimeVars, scopeVars, databaseVars
  <1>5. CASE Unobserve
    BY <1>0, <1>1, <1>5 DEF Unobserve, StopAt, StopOnly, At, scopeVars, databaseVars
  <1>6. CASE EraseNext
    BY <1>0, <1>1, <1>6 DEF EraseNext, EndIsQuiet, serverVars, scopeVars, databaseVars
  <1>7. CASE Gone
    <2>1. /\ UNCHANGED <<threads, clients, targets, requests>> /\ subscribed' = {}
          /\ server = "unobserved" /\ server' = "gone"
          /\ UNCHANGED <<rights, registry, scope, job, worker, mutex>>
          /\ leases' = [s \in Scopes |-> leases[s] \ {Server}]
      BY <1>7 DEF Gone, StopAt, Release, databaseVars
    <2>2. \A t \in Threads : threads[t].pc = "idle"
      BY <1>0, <2>1 DEF EndIsQuiet
    <2>3. RuntimeTypeOK' /\ UnbornRests' /\ SubscribedPinned'
      BY <1>0, <2>1 DEF RuntimeTypeOK, UnbornRests, SubscribedPinned, OwnerOf
    <2>4. ServerTypeOK' /\ EndIsQuiet'
      BY <1>0, <2>1, <2>2 DEF ServerTypeOK, EndIsQuiet
    <2>5. \A t \in Threads : ThreadKnows(t)'
      BY <2>1, <2>2 DEF ThreadKnows, Watching
    <2> QED  BY <2>3, <2>4, <2>5 DEF ScopeInv, ScopesOK
  <1> QED
    BY <1>2, <1>3, <1>4, <1>5, <1>6, <1>7 DEF EndStep

LEMMA ScopeNext == ScopeInv /\ ObserverTypeOK /\ [Next]_vars => ScopeInv'
  <1> SUFFICES ASSUME ScopeInv, ObserverTypeOK, [Next]_vars PROVE ScopeInv'
    OBVIOUS
  <1>1. ASSUME NEW t \in Threads, ThreadStep(t) PROVE ScopeInv'
    BY <1>1, ScopeResolve, ScopeStart, ScopeSocket, ScopeSubscribe, ScopeBeginDelete, ScopeErase,
       ScopeRows, ScopeFinish DEF ThreadStep, SocketStep, DeleteStep, LoopEnds
  <1>2. ASSUME NEW t \in Threads, Accept(t) \/ PeerCloses(t) PROVE ScopeInv'
    BY <1>2, ScopeAccept, ScopeSocket DEF PeerCloses
  <1>3. CASE UNCHANGED vars
    <2>1. /\ ServerTypeOK /\ ScopesOK /\ EndIsQuiet
      BY DEF ScopeInv
    <2>2. /\ UNCHANGED <<server, threads, clients, targets, subscribed, requests>>
          /\ UNCHANGED <<rights, registry, scope, leases, job, worker, mutex>>
      BY <1>3 DEF vars, serverVars, runtimeVars, scopeVars, databaseVars
    <2>3. ScopesOK'
      BY <2>1, <2>2, ScopesSame
    <2>4. ServerTypeOK' /\ EndIsQuiet'
      BY <2>1, <2>2 DEF ServerTypeOK, EndIsQuiet
    <2>5. Stable(None)
      BY <2>2 DEF Stable, OwnerOf
    <2> QED  BY <2>3, <2>4, <2>5, AllAssembled
  <1> QED
    BY <1>1, <1>2, <1>3, ScopeCallback, ScopeScopes, ScopeEnd DEF Next

-----------------------------------------------------------------------------
(* Jobs and their workers, and what threads remember of a job.              *)

JobFits(s) ==
    /\ worker[s] = "decided" => job[s] \in Final
    /\ worker[s] = "analysing" => job[s] \in {"running", "cancelling"}
    /\ worker[s] = "idle" => job[s] \notin {"running", "cancelling"}
SeenOK == \A t \in Threads : threads[t].pc \in {"started", "snapshot"} => threads[t].seen \in Views
Coherent == (\A s \in Scopes : JobFits(s)) /\ SeenOK

\* The threads of a step of t that shows the job of no scope to it.
LEMMA SeenStays ==
    ASSUME ServerTypeOK, SeenOK, NEW t \in Threads, \A u \in Threads \ {t} : threads'[u] = threads[u],
           threads'[t].pc \in {"started", "snapshot"} => threads'[t].seen \in Views
    PROVE  SeenOK'
  BY DEF SeenOK

LEMMA FitsStays ==
    ASSUME \A s \in Scopes : JobFits(s), UNCHANGED worker, NEW s \in Scopes,
           \A r \in Scopes \ {s} : job'[r] = job[r],
           \/ job'[s] = job[s]
           \/ worker[s] = "idle" /\ job'[s] \notin {"running", "cancelling"}
           \/ job[s] = "queued" /\ job'[s] = "cancelled"
           \/ job[s] \in {"running", "cancelling"} /\ job'[s] = "cancelling"
           \/ job[s] = "none" /\ job'[s] \notin {"running", "cancelling"}
    PROVE  \A r \in Scopes : JobFits(r)'
  BY DEF JobFits, Final

LEMMA CoherentThread ==
    ASSUME ScopeInv, Coherent, NEW t \in Threads, Accept(t) \/ ThreadStep(t) \/ PeerCloses(t)
    PROVE  Coherent'
  <1>0. /\ RuntimeTypeOK /\ ServerTypeOK /\ UnbornRests /\ SeenOK /\ \A s \in Scopes : JobFits(s)
        /\ threads \in [Threads -> ThreadType] /\ job \in [Scopes -> Statuses]
    BY DEF ScopeInv, ScopesOK, Coherent, ServerTypeOK, RuntimeTypeOK
  <1>1. ASSUME UNCHANGED <<job, worker>> PROVE \A s \in Scopes : JobFits(s)'
    BY <1>0, <1>1 DEF JobFits
  <1>2. ASSUME NEW p \in ThreadAt, p \notin {"started", "snapshot"}, Goto(t, p) PROVE SeenOK'
    <2>1. threads'[t].pc = p /\ \A u \in Threads \ {t} : threads'[u] = threads[u]
      BY <1>0, <1>2, GotoFacts
    <2> QED  BY <1>0, <1>2, <2>1, SeenStays
  <1>3. CASE Accept(t) \/ Finish(t)
    <2>1. UNCHANGED <<job, worker>>
      BY <1>3 DEF Accept, Finish, Release, runtimeVars, scopeVars
    <2>2. PICK th : threads' = [threads EXCEPT ![t] = th] /\ th.pc \in {"resolve", "idle"}
      <3>1. CASE Accept(t)
        <4>1. PICK kind, o : threads' = [threads EXCEPT ![t] = [NoThread EXCEPT !.kind = kind, !.owner = o,
                                                                                !.pc = "resolve"]]
          BY <3>1 DEF Accept
        <4>2. PICK th : th = [NoThread EXCEPT !.kind = kind, !.owner = o, !.pc = "resolve"]
          OBVIOUS
        <4>3. th.pc = "resolve"
          BY <4>2 DEF NoThread
        <4> QED  BY <4>1, <4>2, <4>3
      <3>2. CASE Finish(t)
        <4>1. NoThread.pc = "idle"
          BY DEF NoThread
        <4> QED  BY <3>2, <4>1 DEF Finish
      <3> QED  BY <1>3, <3>1, <3>2
    <2>3. threads'[t].pc \in {"resolve", "idle"} /\ \A u \in Threads \ {t} : threads'[u] = threads[u]
      BY <1>0, <2>2
    <2> QED  BY <1>0, <1>1, <2>1, <2>3, SeenStays DEF Coherent
  <1>4. CASE PeerCloses(t) \/ LoopEnds(t) \/ Enlist(t) \/ SendSnapshot(t) \/ TellStart(t)
             \/ Subscribe(t) \/ Erase(t) \/ Rows(t)
    <2>1. UNCHANGED <<job, worker>>
      BY <1>4 DEF PeerCloses, LoopEnds, LeaveLoop, Enlist, SendSnapshot, TellStart, Subscribe, Erase,
         Rows, RecordStart, Release, EraseScope, DeleteRows, runtimeVars, scopeVars
    <2>2. \E p \in {"done", "list", "loop", "enlist", "rows"} : Goto(t, p)
      BY <1>4 DEF PeerCloses, LoopEnds, LeaveLoop, Enlist, SendSnapshot, TellStart, Subscribe, Erase,
         Rows
    <2> QED  BY <1>1, <1>2, <2>1, <2>2 DEF Coherent, ThreadAt
  <1>5. CASE ListJobs(t)
    <2>1. UNCHANGED <<job, worker>> /\ threads[t].pc = "list"
      BY <1>5 DEF ListJobs, ThreadOnly, runtimeVars, scopeVars, At
    <2>2. PICK v \in Views : threads' = [threads EXCEPT ![t].pc = "snapshot", ![t].seen = v]
      <3>1. threads[t].scope \in Scopes
        BY <1>0, <2>1 DEF ScopeInv, ThreadKnows, Watching, ServerTypeOK
      <3> QED  BY <1>0, <1>5, <3>1, ShownIsView DEF ListJobs
    <2>3. threads'[t].seen = v /\ \A u \in Threads \ {t} : threads'[u] = threads[u]
      BY <1>0, <2>2 DEF ThreadType
    <2> QED  BY <1>0, <1>1, <2>1, <2>3, SeenStays DEF Coherent
  <1>6. CASE Resolve(t)
    <2>1. SeenOK'
      <3>1. ASSUME NEW s \in Scopes, Serve(t, s) PROVE SeenOK'
        <4>1. threads[t].kind # "none"
          BY <1>0, <1>6 DEF ScopeInv, ThreadKnows, Resolve, At
        <4>2. threads'[t].pc \in {"start", "subscribe", "retire"}
              /\ \A u \in Threads \ {t} : threads'[u] = threads[u]
          BY <1>0, <3>1, <4>1, ServeFacts
        <4> QED  BY <1>0, <4>2, SeenStays
      <3>2. Open(t, threads[t].owner) => Fresh \in Scopes
        BY FreshIsUnborn DEF Open
      <3> QED  BY <1>2, <1>6, <3>1, <3>2 DEF Resolve, Registered, ThreadAt
    <2>2. CASE Open(t, threads[t].owner)
      <3>1. PICK f \in Scopes : f = Fresh /\ scope[f] = Unused
        BY <2>2, FreshIsUnborn DEF Open
      <3>2. worker[f] = "idle"
        BY <1>0, <3>1 DEF UnbornRests, OwnerOf, Unused
      <3>3. PICK v \in {"none", "queued", "complete"} : job' = [job EXCEPT ![f] = v]
        BY <2>2, <3>1 DEF Open, Recovered
      <3>4. worker' = worker /\ job'[f] = v /\ \A r \in Scopes \ {f} : job'[r] = job[r]
        BY <1>0, <2>2, <3>3 DEF Open
      <3> QED  BY <1>0, <2>1, <3>2, <3>4, FitsStays DEF Coherent
    <2>3. CASE ~Open(t, threads[t].owner)
      <3>1. UNCHANGED <<job, worker>>
        BY <1>6, <2>3 DEF Resolve, Reuse, Denied, Refuse, runtimeVars, scopeVars
      <3> QED  BY <1>1, <2>1, <3>1 DEF Coherent
    <2> QED  BY <2>2, <2>3
  <1>7. CASE StartJob(t)
    <2>1. threads[t].scope \in Scopes
      BY <1>0, <1>7 DEF StartJob, At, ScopeInv, ThreadKnows
    <2>2. PICK s \in Scopes : s = threads[t].scope
      BY <2>1
    <2>3. CASE Goto(t, "done") /\ UNCHANGED runtimeVars
      BY <1>1, <1>2, <2>3 DEF Coherent, runtimeVars, scopeVars, ThreadAt
    <2>4. CASE Start(s) /\ threads' = [threads EXCEPT ![t].pc = "started", ![t].seen = View(Started(s))]
      <3>1. PICK v \in {"queued", "complete"} : v = Started(s)
        BY DEF Started
      <3>2. View(v) \in Views
        BY DEF View, Views, Final
      <3>3. threads'[t].seen = View(v) /\ \A u \in Threads \ {t} : threads'[u] = threads[u]
        BY <1>0, <2>4, <3>1 DEF ThreadType
      <3>4. worker' = worker /\ job[s] = "none" /\ job'[s] = v /\ \A r \in Scopes \ {s} : job'[r] = job[r]
        BY <1>0, <2>4, <3>1 DEF Start, MayStart
      <3>5. SeenOK'
        BY <1>0, <3>2, <3>3, SeenStays
      <3> QED  BY <1>0, <3>4, <3>5, FitsStays DEF Coherent
    <2> QED  BY <1>7, <2>2, <2>3, <2>4 DEF StartJob
  <1>8. CASE BeginDelete(t)
    <2>1. ASSUME NEW s \in Scopes, NEW p \in {"erase", "done"}, threads'[t].pc = p,
                 \A u \in Threads \ {t} : threads'[u] = threads[u], UNCHANGED worker,
                 \/ job' = job
                 \/ WorkPending(s) /\ job' = [job EXCEPT ![s] = IF job[s] = "queued" THEN "cancelled"
                                                                 ELSE "cancelling"]
          PROVE  Coherent'
      <3>1. SeenOK'
        BY <1>0, <2>1, SeenStays
      <3>2. CASE job' = job
        BY <1>1, <2>1, <3>1, <3>2 DEF Coherent
      <3>3. CASE WorkPending(s) /\ job' = [job EXCEPT ![s] = IF job[s] = "queued" THEN "cancelled"
                                                              ELSE "cancelling"]
        <4>1. \A r \in Scopes \ {s} : job'[r] = job[r]
          BY <1>0, <3>3
        <4>2. \/ job[s] = "queued" /\ job'[s] = "cancelled"
              \/ job[s] \in {"running", "cancelling"} /\ job'[s] = "cancelling"
          BY <1>0, <3>3 DEF WorkPending
        <4> QED  BY <1>0, <2>1, <3>1, <4>1, <4>2, FitsStays DEF Coherent
      <3> QED  BY <2>1, <3>2, <3>3
    <2>2. ASSUME NEW s \in Registered(threads[t].owner), RetireScope(t, s),
                 threads' = [threads EXCEPT ![t].pc = "erase", ![t].scope = s]
          PROVE  Coherent'
      <3>1. threads'[t].pc = "erase" /\ \A u \in Threads \ {t} : threads'[u] = threads[u]
        BY <1>0, <2>2 DEF ThreadType
      <3>2. /\ worker' = worker
            /\ \/ job' = job
               \/ WorkPending(s) /\ job' = [job EXCEPT ![s] = IF job[s] = "queued" THEN "cancelled"
                                                               ELSE "cancelling"]
        BY <2>2 DEF RetireScope, CancelJob
      <3> QED  BY <2>1, <3>1, <3>2 DEF Registered
    <2>3. ASSUME NEW s \in Registered(threads[t].owner), RetireThrows(s), Goto(t, "done")
          PROVE  Coherent'
      <3>1. threads'[t].pc = "done" /\ \A u \in Threads \ {t} : threads'[u] = threads[u]
        BY <1>0, <2>3, GotoFacts DEF ThreadAt
      <3>2. /\ worker' = worker /\ WorkPending(s)
            /\ job' = [job EXCEPT ![s] = IF job[s] = "queued" THEN "cancelled" ELSE "cancelling"]
        BY <2>3 DEF RetireThrows
      <3> QED  BY <2>1, <3>1, <3>2 DEF Registered
    <2>4. ASSUME Goto(t, "rows"), UNCHANGED runtimeVars PROVE Coherent'
      BY <1>1, <1>2, <2>4 DEF Coherent, runtimeVars, scopeVars, ThreadAt
    <2> QED  BY <1>8, <2>2, <2>3, <2>4 DEF BeginDelete
  <1> QED
    BY <1>3, <1>4, <1>5, <1>6, <1>7, <1>8 DEF ThreadStep, SocketStep, DeleteStep

LEMMA CoherentNext ==
    ASSUME ScopeInv, Coherent, [Next]_vars PROVE Coherent'
  <1>0. /\ RuntimeTypeOK /\ SeenOK /\ \A s \in Scopes : JobFits(s)
        /\ job \in [Scopes -> Statuses] /\ worker \in [Scopes -> {"idle", "analysing", "decided"}]
    BY DEF ScopeInv, ScopesOK, Coherent, RuntimeTypeOK
  <1>1. ASSUME UNCHANGED <<job, worker, threads>> PROVE Coherent'
    BY <1>1 DEF Coherent, JobFits, SeenOK
  <1>2. ASSUME NEW n \in Notifiers, CallbackStep(n) PROVE Coherent'
    BY <1>1, <1>2 DEF CallbackStep, Broadcast, EndCallback, scopeVars
  <1>3. ASSUME NEW s \in Scopes, ScopeStep(s) PROVE Coherent'
    <2>1. SeenOK'
      BY <1>0, <1>3 DEF ScopeStep, serverVars, SeenOK
    <2>2. CASE Destroy(s)
      <3>1. worker' = worker /\ worker[s] = "idle" /\ job' = [job EXCEPT ![s] = "none"]
        BY <2>2 DEF Destroy
      <3>2. job'[s] = "none" /\ \A r \in Scopes \ {s} : job'[r] = job[r]
        BY <1>0, <3>1
      <3> QED  BY <1>0, <2>1, <3>1, <3>2, FitsStays DEF Coherent
    <2>3. CASE Take(s)
      <3>1. CASE Terminate
        BY <1>0, <2>1, <3>1 DEF Terminate, Coherent, JobFits
      <3>2. CASE job' = [job EXCEPT ![s] = "running"] /\ worker' = [worker EXCEPT ![s] = "analysing"]
        BY <1>0, <2>1, <3>2 DEF Coherent, JobFits
      <3> QED  BY <2>3, <3>1, <3>2 DEF Take
    <2>4. CASE Report(s)
      <3>1. CASE Terminate
        BY <1>0, <2>1, <3>1 DEF Terminate, Coherent, JobFits
      <3>2. CASE job' = job /\ worker[s] = "decided" /\ worker' = [worker EXCEPT ![s] = "idle"]
        BY <1>0, <2>1, <3>2 DEF Coherent, JobFits, Final
      <3> QED  BY <2>4, <3>1, <3>2 DEF Report
    <2>5. CASE Decide(s)
      <3>1. PICK v \in Final : job' = [job EXCEPT ![s] = v] /\ worker' = [worker EXCEPT ![s] = "decided"]
        BY <2>5 DEF Decide, Final
      <3> QED  BY <1>0, <2>1, <3>1 DEF Coherent, JobFits
    <2> QED  BY <1>3, <2>2, <2>3, <2>4, <2>5 DEF ScopeStep, WorkerStep
  <1>4. CASE DefaultJob \/ Stop \/ EndStep
    <2>1. UNCHANGED <<job, worker, threads>>
      BY <1>4 DEF DefaultJob, Stop, EndStep, RetireAll, Unobserve, EraseNext, Gone, StopOnly, Release,
         runtimeVars, scopeVars, serverVars
    <2> QED  BY <1>1, <2>1
  <1>5. CASE UNCHANGED vars
    BY <1>1, <1>5 DEF vars, runtimeVars, scopeVars, serverVars
  <1> QED
    BY <1>2, <1>3, <1>4, <1>5, CoherentThread DEF Next

-----------------------------------------------------------------------------
(* Callbacks.                                                               *)

\* What a step does to the observers.
Telling == \E n \in Notifiers, m \in Managers, v \in Views : Notify(n, m, v)
Adding == \E s \in Scopes : AddObserver(s, Server) /\ s \in subscribed' /\ server # "gone"
Removing == \E m \in Managers : EraseObserver(m, Server) /\ server' = "unobserved"
Calling == \E n \in Notifiers : Enter(n) \/ Leave(n)
ObserverMove == UNCHANGED observerVars \/ Telling \/ Adding \/ Removing \/ Calling

LEMMA ScopesAreManagers == Scopes \subseteq Managers /\ Default \in Managers /\ Scopes \subseteq Notifiers
                           /\ Threads \subseteq Notifiers /\ Default \in Notifiers
                           /\ Managers \subseteq Notifiers
  BY ServerConstants

LEMMA ObserverMoves ==
    ASSUME ScopeInv, Coherent, Next PROVE ObserverMove
  <1>0. RuntimeTypeOK /\ ServerTypeOK /\ EndIsQuiet /\ \A t \in Threads : ThreadKnows(t)
    BY DEF ScopeInv, ScopesOK
  <1>1. ASSUME NEW t \in Threads, Accept(t) \/ ThreadStep(t) \/ PeerCloses(t) PROVE ObserverMove
    <2>1. CASE Accept(t) \/ PeerCloses(t) \/ Finish(t) \/ Erase(t) \/ Rows(t) \/ Enlist(t)
               \/ ListJobs(t) \/ SendSnapshot(t) \/ LoopEnds(t)
      <3>1. UNCHANGED observerVars
        BY <2>1 DEF Accept, PeerCloses, LoopEnds, LeaveLoop, Finish, Release, Erase, EraseScope, Rows,
           DeleteRows, Enlist, ListJobs, SendSnapshot, ThreadOnly, runtimeVars
      <3> QED  BY <3>1 DEF ObserverMove
    <2>2. CASE Resolve(t)
      <3>1. UNCHANGED observerVars
        BY <2>2 DEF Resolve, Reuse, Open, Denied, Refuse, runtimeVars
      <3> QED  BY <3>1 DEF ObserverMove
    <2>3. CASE StartJob(t)
      <3>1. UNCHANGED observerVars
        BY <2>3 DEF StartJob, Start, runtimeVars
      <3> QED  BY <3>1 DEF ObserverMove
    <2>4. CASE TellStart(t)
      <3>1. threads[t] \in ThreadType /\ threads[t].pc = "started" /\ threads[t].scope \in Scopes
        BY <1>0, <2>4 DEF TellStart, At, ThreadKnows, ServerTypeOK
      <3>2. CASE UNCHANGED runtimeVars
        BY <3>2 DEF ObserverMove, runtimeVars
      <3>3. CASE RecordStart(t, threads[t].scope, threads[t].seen)
        <4>1. threads[t].seen \in Views
          BY <3>1 DEF Coherent, SeenOK
        <4> QED  BY <3>1, <3>3, <4>1, ScopesAreManagers DEF RecordStart, RecordAndNotify, ObserverMove, Telling
      <3> QED  BY <2>4, <3>2, <3>3 DEF TellStart
    <2>5. CASE Subscribe(t)
      <3>1. threads[t].pc = "subscribe" /\ threads[t].scope \in Scopes /\ server # "gone"
        BY <1>0, <2>5 DEF Subscribe, At, ThreadKnows, EndIsQuiet
      <3>2. CASE threads[t].scope \in subscribed
        BY <2>5, <3>2 DEF Subscribe, Release, ObserverMove
      <3>3. CASE threads[t].scope \notin subscribed
        BY <2>5, <3>1, <3>3 DEF Subscribe, ObserverMove, Adding
      <3> QED  BY <3>2, <3>3
    <2>6. CASE BeginDelete(t)
      <3>1. ASSUME NEW s \in Registered(threads[t].owner), RetireScope(t, s) PROVE ObserverMove
        <4>1. CASE CancelJob(t, s)
          <5>1. PICK v \in Views : Notify(t, s, v)
            BY <4>1 DEF CancelJob, RecordAndNotify, Views, Final
          <5> QED  BY <5>1, ScopesAreManagers DEF ObserverMove, Telling, Registered
        <4>2. CASE UNCHANGED observerVars
          BY <4>2 DEF ObserverMove
        <4> QED  BY <3>1, <4>1, <4>2 DEF RetireScope
      <3>2. ASSUME NEW s \in Registered(threads[t].owner), RetireThrows(s) PROVE ObserverMove
        BY <3>2 DEF RetireThrows, ObserverMove
      <3>3. ASSUME UNCHANGED runtimeVars PROVE ObserverMove
        BY <3>3 DEF runtimeVars, ObserverMove
      <3> QED  BY <2>6, <3>1, <3>2, <3>3 DEF BeginDelete
    <2> QED
      BY <1>1, <2>1, <2>2, <2>3, <2>4, <2>5, <2>6 DEF ThreadStep, SocketStep, DeleteStep
  <1>2. ASSUME NEW n \in Notifiers, CallbackStep(n) PROVE ObserverMove
    BY <1>2 DEF CallbackStep, Broadcast, EndCallback, ObserverMove, Calling
  <1>3. ASSUME NEW s \in Scopes, ScopeStep(s) PROVE ObserverMove
    <2>1. CASE Take(s)
      <3>1. CASE Terminate
        BY <3>1 DEF Terminate, ObserverMove
      <3>2. CASE RecordAndNotify(s, s, "pending")
        BY <3>2, ScopesAreManagers DEF RecordAndNotify, ObserverMove, Telling, Views
      <3> QED  BY <2>1, <3>1, <3>2 DEF Take
    <2>2. CASE Report(s)
      <3>1. CASE Terminate
        BY <3>1 DEF Terminate, ObserverMove
      <3>2. CASE RecordAndNotify(s, s, job[s])
        <4>1. job[s] \in Views
          BY <2>2 DEF Report, Coherent, JobFits, Views
        <4> QED  BY <3>2, <4>1, ScopesAreManagers DEF RecordAndNotify, ObserverMove, Telling
      <3> QED  BY <2>2, <3>1, <3>2 DEF Report
    <2>3. CASE Decide(s) \/ Destroy(s)
      BY <2>3 DEF Decide, Destroy, ObserverMove
    <2> QED  BY <1>3, <2>1, <2>2, <2>3 DEF ScopeStep, WorkerStep
  <1>4. CASE DefaultJob \/ Stop \/ EndStep
    <2>1. CASE DefaultJob
      BY <2>1, ScopesAreManagers DEF DefaultJob, ObserverMove, Telling, Views
    <2>2. CASE Stop \/ RetireAll \/ Gone
      <3>1. UNCHANGED observerVars
        BY <2>2 DEF Stop, RetireAll, Gone, Release, runtimeVars
      <3> QED  BY <3>1 DEF ObserverMove
    <2>3. CASE Unobserve
      BY <2>3, ScopesAreManagers DEF Unobserve, StopAt, ObserverMove, Removing
    <2>4. CASE EraseNext
      BY <1>0, <2>4, ScopesAreManagers DEF EraseNext, ObserverMove, Removing, ServerTypeOK, serverVars
    <2> QED  BY <1>4, <2>1, <2>2, <2>3, <2>4 DEF EndStep
  <1>5. CASE UNCHANGED vars
    BY <1>5 DEF vars, runtimeVars, ObserverMove
  <1> QED
    BY <1>1, <1>2, <1>3, <1>4, <1>5 DEF Next

LEMMA ServerMoves ==
    ASSUME Next, ~Unobserve, ~Gone
    PROVE  /\ subscribed \subseteq subscribed'
           /\ server \in {"unobserved", "gone"} => server' = server
           /\ server' \in {"unobserved", "gone"} => server' = server
  <1>1. ASSUME NEW t \in Threads, Accept(t) \/ ThreadStep(t) \/ PeerCloses(t)
        PROVE  subscribed \subseteq subscribed' /\ server' = server
    BY <1>1 DEF Accept, PeerCloses, LoopEnds, LeaveLoop, ThreadStep, SocketStep, DeleteStep, Finish,
       Erase, Rows, Enlist, ListJobs, SendSnapshot, ThreadOnly, Resolve, StartJob, TellStart, Subscribe,
       BeginDelete, OnlyThreads
  <1>2. ASSUME NEW n \in Notifiers, CallbackStep(n) PROVE UNCHANGED <<subscribed, server>>
    BY <1>2 DEF CallbackStep, Broadcast, EndCallback
  <1>3. ASSUME NEW s \in Scopes, ScopeStep(s) PROVE UNCHANGED <<subscribed, server>>
    BY <1>3 DEF ScopeStep, serverVars
  <1>4. CASE DefaultJob \/ EraseNext \/ UNCHANGED vars
    BY <1>4 DEF DefaultJob, EraseNext, serverVars, vars
  <1>5. CASE Stop \/ RetireAll
    BY <1>5 DEF Stop, RetireAll, StopAt, StopOnly
  <1> QED
    BY <1>1, <1>2, <1>3, <1>4, <1>5 DEF Next, EndStep

LEMMA SubscribedGrows ==
    ASSUME Next
    PROVE  subscribed' \subseteq subscribed
           \/ \E s : subscribed' = subscribed \cup {s} /\ AddObserver(s, Server)
  <1>1. ASSUME NEW t \in Threads, Accept(t) \/ ThreadStep(t) \/ PeerCloses(t), ~Subscribe(t)
        PROVE  subscribed' = subscribed
    BY <1>1 DEF Accept, PeerCloses, LoopEnds, LeaveLoop, ThreadStep, SocketStep, DeleteStep, Finish,
       Erase, Rows, Enlist, ListJobs, SendSnapshot, ThreadOnly, Resolve, StartJob, TellStart,
       BeginDelete, OnlyThreads
  <1>2. ASSUME NEW t \in Threads, Subscribe(t)
        PROVE  subscribed' \subseteq subscribed
               \/ \E s : subscribed' = subscribed \cup {s} /\ AddObserver(s, Server)
    BY <1>2 DEF Subscribe
  <1>3. ASSUME NEW n \in Notifiers, CallbackStep(n) PROVE subscribed' = subscribed
    BY <1>3 DEF CallbackStep, Broadcast, EndCallback
  <1>4. ASSUME NEW s \in Scopes, ScopeStep(s) PROVE subscribed' = subscribed
    BY <1>4 DEF ScopeStep, serverVars
  <1>5. CASE DefaultJob \/ EraseNext \/ UNCHANGED vars
    BY <1>5 DEF DefaultJob, EraseNext, serverVars, vars
  <1>6. CASE Stop \/ RetireAll \/ Unobserve \/ Gone
    BY <1>6 DEF Stop, RetireAll, Unobserve, Gone, StopOnly
  <1> QED
    BY <1>1, <1>2, <1>3, <1>4, <1>5, <1>6 DEF Next, EndStep

\* A notification has its one callback before it or in it; calls counts the notifications;
\* the server is called by the managers it watches, all of which it knows.
Shaped == \A n \in Notifiers : \/ notices[n] = Silent
                               \/ notices[n].left = {Server} /\ notices[n].in = None
                               \/ notices[n].left = {} /\ notices[n].in = Server
OnlyManagers == \A n \in Notifiers : notices[n] # Silent => notices[n].of \in Managers
Busy(m) == {n \in Notifiers : notices[n].of = m}
CallsExact == \A m \in Managers : calls[m] = Cardinality(Busy(m))
Known(m) == m \in subscribed \/ (m = Default /\ server \notin {"unobserved", "gone"})
WatchedKnown == \A m \in Managers : Server \in observers[m] => Known(m)
CallersKnown == \A n \in Notifiers : notices[n] # Silent => notices[n].of \in subscribed \cup {Default}
WatchesAll == server \notin {"unobserved", "gone"} => \A s \in subscribed : Server \in observers[s]
EndsSilent == server = "gone" => subscribed = {} /\ \A n \in Notifiers : notices[n] = Silent
CallsOK == /\ ObserverTypeOK /\ Shaped /\ OnlyManagers /\ CallsExact
           /\ WatchedKnown /\ CallersKnown /\ WatchesAll /\ EndsSilent

LEMMA SilentFacts ==
    /\ Silent \in NoticeType /\ Silent.of \notin Managers /\ Silent.in # Server
    /\ Silent.left = {} /\ None \notin Managers /\ IsFiniteSet(Notifiers)
  <1>1. None \notin Managers /\ None # Server
    BY RuntimeConstants, ServerConstants
  <1>2. IsFiniteSet(Notifiers)
    <2>1. IsFiniteSet({Default}) /\ IsFiniteSet(Scopes) /\ IsFiniteSet(Threads)
      BY RuntimeConstants, FS_Singleton
    <2>2. IsFiniteSet({Default} \cup Scopes)
      BY <2>1, FS_Union
    <2>3. IsFiniteSet(({Default} \cup Scopes) \cup Threads)
      BY <2>1, <2>2, FS_Union
    <2> QED  BY <2>3, ServerConstants
  <1> QED
    BY <1>1, <1>2 DEF Silent, NoticeType

\* One step of the notifications, whoever makes it.
LEMMA MoveFacts ==
    ASSUME ObserverTypeOK, Shaped, OnlyManagers, CallsExact, ObserverMove
    PROVE  /\ ObserverTypeOK' /\ Shaped' /\ OnlyManagers' /\ CallsExact'
           /\ \A n \in Notifiers : notices'[n] # Silent =>
                 \/ notices[n] # Silent /\ notices'[n].of = notices[n].of
                    /\ notices'[n].what = notices[n].what
                 \/ notices'[n].of \in Managers /\ Server \in observers[notices'[n].of]
           /\ \A m \in Managers : Server \in observers'[m] =>
                 Server \in observers[m] \/ (m \in subscribed' /\ server # "gone")
           /\ \A m \in Managers : Server \in observers[m] =>
                 Server \in observers'[m] \/ server' = "unobserved"
  <1>0. /\ observers \in [Managers -> SUBSET {Server}] /\ calls \in [Managers -> Int]
        /\ notices \in [Notifiers -> NoticeType]
        /\ Silent \in NoticeType /\ Silent.of \notin Managers /\ Silent.in # Server
        /\ Silent.left = {} /\ None \notin Managers /\ IsFiniteSet(Notifiers)
    BY SilentFacts DEF ObserverTypeOK
  <1>1. \A m \in Managers : IsFiniteSet(Busy(m)) /\ Cardinality(Busy(m)) \in Nat
    BY <1>0, FS_Subset, FS_CardinalityType DEF Busy
  <1>2. CASE UNCHANGED <<calls, notices>> /\ (UNCHANGED observers \/ Adding \/ Removing)
    <2>1. \A m \in Managers : Busy(m)' = Busy(m)
      BY <1>2 DEF Busy
    <2>2. Shaped' /\ OnlyManagers' /\ CallsExact'
      BY <1>2, <2>1 DEF Shaped, OnlyManagers, CallsExact
    <2>3. CASE UNCHANGED observers
      BY <1>0, <1>2, <2>2, <2>3 DEF ObserverTypeOK
    <2>4. CASE Adding
      BY <1>0, <1>2, <2>2, <2>4, ScopesAreManagers DEF ObserverTypeOK, Adding, AddObserver
    <2>5. CASE Removing
      BY <1>0, <1>2, <2>2, <2>5 DEF ObserverTypeOK, Removing, EraseObserver
    <2> QED  BY <1>2, <2>3, <2>4, <2>5
  <1>3. ASSUME NEW n \in Notifiers, NEW m \in Managers, NEW v \in Views, Notify(n, m, v),
               observers[m] = {}
        PROVE  UNCHANGED <<calls, notices, observers>>
    <2>1. Cardinality({}) = 0
      BY FS_EmptySet
    <2> QED  BY <1>0, <1>3, <2>1 DEF Notify
  <1>4. ASSUME NEW n \in Notifiers, NEW m \in Managers, NEW c, c \in NoticeType,
               UNCHANGED observers, notices' = [notices EXCEPT ![n] = c],
               \/ /\ notices[n] = Silent /\ c.of = m /\ c.left = {Server} /\ c.in = None
                  /\ calls' = [calls EXCEPT ![m] = @ + 1] /\ Server \in observers[m]
               \/ /\ notices[n].of = m /\ notices[n] # Silent /\ c = Silent
                  /\ calls' = [calls EXCEPT ![m] = @ - 1]
               \/ /\ notices[n].of = m /\ notices[n] # Silent /\ c.of = m /\ c.left = {} /\ c.in = Server
                  /\ c.what = notices[n].what /\ calls' = calls
        PROVE  /\ ObserverTypeOK' /\ Shaped' /\ OnlyManagers' /\ CallsExact'
               /\ \A k \in Notifiers : notices'[k] # Silent =>
                     \/ notices[k] # Silent /\ notices'[k].of = notices[k].of
                        /\ notices'[k].what = notices[k].what
                     \/ notices'[k].of \in Managers /\ Server \in observers[notices'[k].of]
    <2>1. notices'[n] = c /\ \A k \in Notifiers \ {n} : notices'[k] = notices[k]
      BY <1>0, <1>4
    <2>2. calls' \in [Managers -> Int] /\ \A k \in Managers \ {m} : calls'[k] = calls[k]
      BY <1>0, <1>4
    <2>3. ObserverTypeOK'
      BY <1>0, <1>4, <2>2 DEF ObserverTypeOK
    <2>4. Shaped' /\ OnlyManagers'
      BY <1>0, <1>4, <2>1 DEF Shaped, OnlyManagers
    <2>5. \A k \in Managers \ {m} : Busy(k)' = Busy(k)
      BY <1>0, <1>4, <2>1 DEF Busy
    <2>6. calls'[m] = Cardinality(Busy(m)')
      <3>1. CASE notices[n] = Silent /\ c.of = m /\ calls' = [calls EXCEPT ![m] = @ + 1]
        <4>1. n \notin Busy(m) /\ Busy(m)' = Busy(m) \cup {n}
          BY <1>0, <2>1, <3>1 DEF Busy
        <4>2. Cardinality(Busy(m) \cup {n}) = Cardinality(Busy(m)) + 1
          BY <1>1, <4>1, FS_AddElement
        <4> QED  BY <1>0, <3>1, <4>1, <4>2 DEF CallsExact
      <3>2. CASE notices[n].of = m /\ c = Silent /\ calls' = [calls EXCEPT ![m] = @ - 1]
        <4>1. n \in Busy(m) /\ Busy(m)' = Busy(m) \ {n}
          BY <1>0, <2>1, <3>2 DEF Busy
        <4>2. Cardinality(Busy(m) \ {n}) = Cardinality(Busy(m)) - 1
          BY <1>1, <4>1, FS_RemoveElement
        <4> QED  BY <1>0, <3>2, <4>1, <4>2 DEF CallsExact
      <3>3. CASE notices[n].of = m /\ c.of = m /\ calls' = calls
        <4>1. Busy(m)' = Busy(m)
          BY <2>1, <3>3 DEF Busy
        <4> QED  BY <3>3, <4>1 DEF CallsExact
      <3> QED  BY <1>4, <3>1, <3>2, <3>3
    <2>7. CallsExact'
      BY <2>2, <2>5, <2>6 DEF CallsExact
    <2> QED  BY <1>4, <2>1, <2>3, <2>4, <2>7
  <1>5. ASSUME NEW n \in Notifiers, NEW m \in Managers, NEW v \in Views, Notify(n, m, v),
               observers[m] # {}
        PROVE  /\ UNCHANGED observers /\ notices[n] = Silent /\ Server \in observers[m]
               /\ \E c \in NoticeType : /\ notices' = [notices EXCEPT ![n] = c]
                                        /\ c.of = m /\ c.left = {Server} /\ c.in = None
               /\ calls' = [calls EXCEPT ![m] = @ + 1]
    <2>1. observers[m] = {Server} /\ Cardinality({Server}) = 1
      BY <1>0, <1>5, FS_Singleton
    <2>2. PICK c : c = [of |-> m, what |-> v, left |-> {Server}, in |-> None]
      OBVIOUS
    <2>3. c \in NoticeType /\ c.of = m /\ c.left = {Server} /\ c.in = None
      BY <2>2 DEF NoticeType
    <2>4. notices' = [notices EXCEPT ![n] = c]
      BY <1>5, <2>1, <2>2 DEF Notify
    <2> QED  BY <1>5, <2>1, <2>3, <2>4 DEF Notify
  <1>6. ASSUME NEW n \in Notifiers, Enter(n)
        PROVE  /\ UNCHANGED <<observers, calls>> /\ notices[n] # Silent /\ notices[n].of \in Managers
               /\ \E c \in NoticeType :
                     /\ notices' = [notices EXCEPT ![n] = c] /\ c.of = notices[n].of
                     /\ c.left = {} /\ c.in = Server /\ c.what = notices[n].what
    <2>1. PICK o \in notices[n].left : notices' = [notices EXCEPT ![n].in = o, ![n].left = @ \ {o}]
      BY <1>6 DEF Enter
    <2>2. o = Server /\ notices[n] \in NoticeType /\ notices[n] # Silent /\ notices[n].left = {Server}
      BY <1>0, <2>1 DEF NoticeType, Shaped
    <2>3. PICK c : c = [notices[n] EXCEPT !.in = Server, !.left = {}]
      OBVIOUS
    <2>4. /\ c \in NoticeType /\ c.of = notices[n].of /\ c.left = {} /\ c.in = Server
          /\ c.what = notices[n].what
      BY <2>2, <2>3 DEF NoticeType
    <2>5. notices' = [notices EXCEPT ![n] = c]
      <3>1. notices[n].left \ {o} = {}
        BY <2>2
      <3> QED  BY <1>0, <2>1, <2>2, <2>3, <3>1
    <2> QED  BY <1>6, <2>2, <2>4, <2>5 DEF Enter, OnlyManagers
  <1>7. ASSUME NEW n \in Notifiers, Leave(n)
        PROVE  /\ UNCHANGED observers /\ notices[n] # Silent /\ notices[n].of \in Managers
               /\ notices' = [notices EXCEPT ![n] = Silent]
               /\ calls' = [calls EXCEPT ![notices[n].of] = @ - 1]
    <2>1. notices[n].in # None /\ notices[n] \in NoticeType
      BY <1>0, <1>7 DEF Leave
    <2>2. notices[n] # Silent /\ notices[n].left = {}
      BY <2>1 DEF Shaped, Silent
    <2> QED  BY <1>7, <2>2 DEF Leave, OnlyManagers
  <1>8. CASE Telling
    <2>1. PICK n \in Notifiers, m \in Managers, v \in Views : Notify(n, m, v)
      BY <1>8 DEF Telling
    <2>2. CASE observers[m] = {}
      BY <1>2, <1>3, <2>1, <2>2
    <2>3. CASE observers[m] # {}
      BY <1>4, <1>5, <2>1, <2>3
    <2> QED  BY <2>2, <2>3
  <1>9. CASE Calling
    <2>1. PICK n \in Notifiers : Enter(n) \/ Leave(n)
      BY <1>9 DEF Calling
    <2>2. CASE Enter(n)
      BY <1>4, <1>6, <2>2
    <2>3. CASE Leave(n)
      BY <1>0, <1>4, <1>7, <2>3
    <2> QED  BY <2>1, <2>2, <2>3
  <1>10. CASE UNCHANGED observerVars \/ Adding \/ Removing
    BY <1>2, <1>10 DEF observerVars, Adding, Removing, AddObserver, EraseObserver
  <1> QED
    BY <1>8, <1>9, <1>10 DEF ObserverMove

LEMMA CallsInitially == Init => CallsOK
  <1> SUFFICES ASSUME Init PROVE CallsOK
    OBVIOUS
  <1>0. /\ observers = [m \in Managers |-> IF m = Default THEN {Server} ELSE {}]
        /\ calls = [m \in Managers |-> 0] /\ notices = [n \in Notifiers |-> Silent]
        /\ server = "up" /\ subscribed = {}
    BY DEF Init, InitRuntime, InitObservers
  <1>1. ObserverTypeOK /\ Shaped /\ OnlyManagers /\ CallersKnown
    BY <1>0, SilentFacts DEF ObserverTypeOK, Shaped, OnlyManagers, CallersKnown
  <1>2. CallsExact
    <2>1. \A m \in Managers : Busy(m) = {}
      BY <1>0, SilentFacts DEF Busy
    <2> QED  BY <1>0, <2>1, FS_EmptySet DEF CallsExact
  <1>3. WatchedKnown /\ WatchesAll /\ EndsSilent
    BY <1>0 DEF WatchedKnown, WatchesAll, EndsSilent, Known
  <1> QED
    BY <1>1, <1>2, <1>3 DEF CallsOK

LEMMA CallsNext ==
    ASSUME ScopeInv, Coherent, CallsOK, [Next]_vars PROVE CallsOK'
  <1>0. /\ ObserverTypeOK /\ Shaped /\ OnlyManagers /\ CallsExact
        /\ WatchedKnown /\ CallersKnown /\ WatchesAll /\ EndsSilent
        /\ subscribed \subseteq Scopes
    BY DEF CallsOK, ScopeInv, ServerTypeOK
  <1>1. CASE UNCHANGED vars
    <2>1. UNCHANGED <<observers, calls, notices, subscribed, server>>
      BY <1>1 DEF vars, runtimeVars, observerVars, serverVars
    <2> QED
      BY <1>0, <2>1 DEF CallsOK, ObserverTypeOK, Shaped, OnlyManagers, CallsExact, Busy, WatchedKnown,
         Known, CallersKnown, WatchesAll, EndsSilent
  <1>2. CASE Next
    <2>1. /\ ObserverTypeOK' /\ Shaped' /\ OnlyManagers' /\ CallsExact'
          /\ \A n \in Notifiers : notices'[n] # Silent =>
                \/ notices[n] # Silent /\ notices'[n].of = notices[n].of
                \/ notices'[n].of \in Managers /\ Server \in observers[notices'[n].of]
          /\ \A m \in Managers : Server \in observers'[m] =>
                Server \in observers[m] \/ (m \in subscribed' /\ server # "gone")
          /\ \A m \in Managers : Server \in observers[m] =>
                Server \in observers'[m] \/ server' = "unobserved"
      BY <1>0, <1>2, ObserverMoves, MoveFacts
    <2>2. CASE Gone
      <3>1. /\ UNCHANGED observers /\ UNCHANGED notices /\ NoCallsLeft(Default) /\ subscribed' = {}
            /\ server = "unobserved" /\ server' = "gone"
            /\ \A s \in subscribed : Server \notin observers[s] /\ NoCallsLeft(s)
        BY <2>2 DEF Gone, StopAt, Release, observerVars
      <3>2. \A n \in Notifiers : notices[n] = Silent
        <4> SUFFICES ASSUME NEW n \in Notifiers, notices[n] # Silent PROVE FALSE
          OBVIOUS
        <4>1. PICK m \in Managers : notices[n].of = m /\ m \in subscribed \cup {Default}
          BY <1>0 DEF OnlyManagers, CallersKnown
        <4>2. Cardinality(Busy(m)) = 0
          BY <1>0, <3>1, <4>1 DEF NoCallsLeft, CallsExact
        <4>3. IsFiniteSet(Busy(m)) /\ n \in Busy(m)
          BY <4>1, SilentFacts, FS_Subset DEF Busy
        <4> QED  BY <4>2, <4>3, FS_EmptySet
      <3>3. WatchedKnown'
        BY <1>0, <3>1 DEF WatchedKnown, Known
      <3>4. CallersKnown' /\ WatchesAll' /\ EndsSilent'
        BY <3>1, <3>2 DEF CallersKnown, WatchesAll, EndsSilent
      <3> QED  BY <2>1, <3>3, <3>4 DEF CallsOK
    <2>3. CASE Unobserve
      <3>1. /\ observers' = [observers EXCEPT ![Default] = @ \ {Server}] /\ UNCHANGED notices
            /\ subscribed' = subscribed /\ server' = "unobserved"
        BY <2>3 DEF Unobserve, EraseObserver, StopAt, StopOnly
      <3>2. WatchedKnown'
        BY <1>0, <3>1, ScopesAreManagers DEF WatchedKnown, Known, ObserverTypeOK
      <3>3. CallersKnown' /\ WatchesAll' /\ EndsSilent'
        BY <1>0, <3>1 DEF CallersKnown, WatchesAll, EndsSilent
      <3> QED  BY <2>1, <3>2, <3>3 DEF CallsOK
    <2>4. CASE ~Gone /\ ~Unobserve
      <3>1. /\ subscribed \subseteq subscribed' /\ (server \in {"unobserved", "gone"} => server' = server)
            /\ (server' \in {"unobserved", "gone"} => server' = server)
        BY <1>2, <2>4, ServerMoves
      <3>2. WatchedKnown'
        BY <1>0, <2>1, <3>1 DEF WatchedKnown, Known
      <3>3. CallersKnown'
        BY <1>0, <2>1, <3>1 DEF CallersKnown, WatchedKnown, Known
      <3>4. \A s \in subscribed' \ subscribed : s \in Managers /\ Server \in observers'[s]
        <4>1. subscribed' \subseteq Scopes
          BY <1>2, ScopeNext, <1>0 DEF ScopeInv, ServerTypeOK
        <4> QED
          BY <1>0, <1>2, <4>1, SubscribedGrows, ScopesAreManagers DEF AddObserver, ObserverTypeOK
      <3>5. WatchesAll'
        BY <1>0, <2>1, <3>1, <3>4, ScopesAreManagers DEF WatchesAll
      <3>6. EndsSilent'
        <4>1. ASSUME server' = "gone" PROVE subscribed' = {} /\ \A n \in Notifiers : notices'[n] = Silent
          <5>1. server = "gone" /\ subscribed = {} /\ \A n \in Notifiers : notices[n] = Silent
            BY <1>0, <3>1, <4>1 DEF EndsSilent
          <5>2. \A m \in Managers : Server \notin observers[m]
            BY <1>0, <5>1 DEF WatchedKnown, Known
          <5>3. \A n \in Notifiers : notices'[n] = Silent
            BY <2>1, <5>1, <5>2
          <5>4. \A m \in Managers : Server \notin observers'[m]
            BY <2>1, <5>1, <5>2
          <5>5. subscribed' = {}
            BY <3>4, <5>1, <5>4
          <5> QED  BY <5>3, <5>5
        <4> QED  BY <4>1 DEF EndsSilent
      <3> QED  BY <2>1, <3>2, <3>3, <3>5, <3>6 DEF CallsOK
    <2> QED  BY <2>2, <2>3, <2>4
  <1> QED
    BY <1>1, <1>2

ServerInv == ScopeInv /\ Coherent /\ CallsOK

LEMMA CoherentInitially == Init => Coherent
  BY DEF Init, InitRuntime, Coherent, JobFits, SeenOK, NoThread

LEMMA ServerInvariant == Spec => []ServerInv
  <1>1. Init => ServerInv
    BY ScopeInitially, CoherentInitially, CallsInitially DEF ServerInv
  <1>2. ServerInv /\ [Next]_vars => ServerInv'
    BY ScopeNext, CoherentNext, CallsNext DEF ServerInv, CallsOK
  <1> QED
    BY <1>1, <1>2, PTL DEF Spec

\* Once the server is destroyed none of its callbacks runs or is about to: observer_calls_ is
\* the number of notifications under way, so the destructor has waited for all of them, and
\* nobody can ask for another.
THEOREM CallbacksEndHolds == Spec => []CallbacksEnd
  <1>1. ServerInv => CallbacksEnd
    BY SilentFacts DEF ServerInv, CallsOK, EndsSilent, CallbacksEnd
  <1> QED
    BY <1>1, ServerInvariant, PTL

-----------------------------------------------------------------------------
(* One scope for an owner.                                                  *)

\* A scope that is leased or has work stays in the registry, until a deletion has taken it out
\* on its way to the rows.
Used(s) == leases[s] # {} \/ WorkPending(s)
Doomed(o) == o \notin rights \/ \E t \in Threads : threads[t].pc = "rows" /\ threads[t].owner = o
OneScope == \A s \in Scopes : Used(s) /\ ~Doomed(OwnerOf(s)) => Contains(registry, s)

LEMMA RightsShrink == ASSUME Next PROVE rights' \subseteq rights
  <1>1. ASSUME NEW t \in Threads, Accept(t) \/ ThreadStep(t) \/ PeerCloses(t) PROVE rights' \subseteq rights
    <2>1. CASE Resolve(t)
      BY <2>1 DEF Resolve, Reuse, Open, Denied, Refuse, runtimeVars, databaseVars
    <2>2. CASE BeginDelete(t)
      BY <2>2 DEF BeginDelete, RetireScope, RetireThrows, runtimeVars, databaseVars
    <2>3. CASE Rows(t)
      BY <2>3 DEF Rows, DeleteRows
    <2>4. CASE StartJob(t) \/ TellStart(t) \/ Subscribe(t) \/ Finish(t) \/ Erase(t)
      BY <2>4 DEF StartJob, Start, TellStart, RecordStart, Subscribe, Release, Finish, Erase,
         EraseScope, runtimeVars, databaseVars
    <2>5. CASE Accept(t) \/ PeerCloses(t) \/ LoopEnds(t) \/ Enlist(t) \/ ListJobs(t) \/ SendSnapshot(t)
      BY <2>5 DEF Accept, PeerCloses, LoopEnds, LeaveLoop, Enlist, ListJobs, SendSnapshot, ThreadOnly,
         runtimeVars, databaseVars
    <2> QED  BY <1>1, <2>1, <2>2, <2>3, <2>4, <2>5 DEF ThreadStep, SocketStep, DeleteStep
  <1>2. ASSUME NEW n \in Notifiers, CallbackStep(n) PROVE rights' = rights
    BY <1>2 DEF CallbackStep, Broadcast, EndCallback, databaseVars
  <1>3. ASSUME NEW s \in Scopes, ScopeStep(s) PROVE rights' = rights
    BY <1>3 DEF ScopeStep, WorkerStep, Take, Decide, Report, Terminate, Destroy, databaseVars
  <1>4. CASE DefaultJob \/ Stop \/ EndStep \/ UNCHANGED vars
    BY <1>4 DEF DefaultJob, Stop, EndStep, RetireAll, Unobserve, EraseNext, Gone, Release, runtimeVars,
       databaseVars, vars
  <1> QED
    BY <1>1, <1>2, <1>3, <1>4 DEF Next

\* No step ends a doom: the deletion that has taken the scope away goes on to the rows.
LEMMA DoomedStays ==
    ASSUME ScopeInv, Next, NEW o, Doomed(o) PROVE Doomed(o)'
  <1>0. ServerTypeOK /\ threads \in [Threads -> ThreadType]
    BY DEF ScopeInv, ServerTypeOK
  <1>1. rights' \subseteq rights
    BY RightsShrink
  <1>2. CASE o \notin rights
    BY <1>1, <1>2 DEF Doomed
  <1>3. ASSUME NEW u \in Threads, threads[u].pc = "rows", threads[u].owner = o PROVE Doomed(o)'
    <2>1. CASE threads'[u] = threads[u]
      BY <1>3, <2>1 DEF Doomed
    <2>2. CASE Rows(u)
      BY <1>3, <2>2 DEF Rows, DeleteRows, Doomed
    <2>3. ASSUME NEW t \in Threads, Accept(t) \/ ThreadStep(t) \/ PeerCloses(t), ~Rows(u)
          PROVE  threads'[u] = threads[u]
      <3>1. t # u
        BY <1>3, <2>3 DEF Accept, PeerCloses, LoopEnds, LeaveLoop, ThreadStep, SocketStep, DeleteStep, At,
           Finish, Erase, Enlist, ListJobs, SendSnapshot, Resolve, StartJob, TellStart, Subscribe,
           BeginDelete
      <3>2. CASE Accept(t) \/ Finish(t)
        BY <1>0, <3>1, <3>2 DEF Accept, Finish
      <3>3. ASSUME NEW p, Goto(t, p) PROVE threads'[u] = threads[u]
        BY <1>0, <3>1, <3>3 DEF Goto
      <3>4. CASE PeerCloses(t) \/ LoopEnds(t) \/ Enlist(t) \/ SendSnapshot(t) \/ TellStart(t)
                 \/ Subscribe(t) \/ Erase(t) \/ Rows(t)
        BY <3>3, <3>4 DEF PeerCloses, LoopEnds, LeaveLoop, Enlist, SendSnapshot, TellStart, Subscribe,
           Erase, Rows
      <3>5. CASE ListJobs(t)
        BY <1>0, <3>1, <3>5 DEF ListJobs
      <3>6. CASE Resolve(t)
        <4>1. ASSUME NEW s, Serve(t, s) PROVE threads'[u] = threads[u]
          BY <1>0, <3>1, <4>1 DEF Serve
        <4> QED  BY <3>3, <3>6, <4>1 DEF Resolve
      <3>7. CASE StartJob(t)
        BY <1>0, <3>1, <3>3, <3>7 DEF StartJob
      <3>8. CASE BeginDelete(t)
        BY <1>0, <3>1, <3>3, <3>8 DEF BeginDelete
      <3> QED
        BY <2>3, <3>2, <3>4, <3>5, <3>6, <3>7, <3>8 DEF ThreadStep, SocketStep, DeleteStep
    <2>4. ASSUME NEW n \in Notifiers, CallbackStep(n) PROVE threads' = threads
      BY <2>4 DEF CallbackStep, Broadcast, EndCallback
    <2>5. ASSUME NEW s \in Scopes, ScopeStep(s) PROVE threads' = threads
      BY <2>5 DEF ScopeStep, serverVars
    <2>6. ASSUME DefaultJob \/ Stop \/ EndStep \/ UNCHANGED vars PROVE threads' = threads
      BY <2>6 DEF DefaultJob, Stop, EndStep, RetireAll, Unobserve, EraseNext, Gone, StopOnly, serverVars, vars
    <2> QED  BY <2>1, <2>2, <2>3, <2>4, <2>5, <2>6 DEF Next
  <1> QED
    BY <1>2, <1>3 DEF Doomed

\* A step that gives no scope to anybody and takes none out of the registry.
LEMMA ScopeKept ==
    ASSUME OneScope, \A o : Doomed(o) => Doomed(o)',
           \A s \in Scopes : Used(s)' => Used(s) /\ OwnerOf(s)' = OwnerOf(s),
           \A s \in Scopes : Contains(registry, s) => Contains(registry', s)
    PROVE  OneScope'
  <1> SUFFICES ASSUME NEW s \in Scopes, Used(s)', ~Doomed(OwnerOf(s))' PROVE Contains(registry', s)
    BY DEF OneScope
  <1>1. Used(s) /\ OwnerOf(s)' = OwnerOf(s)
    OBVIOUS
  <1>2. PICK o : o = OwnerOf(s)
    OBVIOUS
  <1>3. ~Doomed(o)
    BY <1>1, <1>2 DEF Doomed
  <1> QED
    BY <1>1, <1>2, <1>3 DEF OneScope

LEMMA OneScopeResolve ==
    ASSUME ScopeInv, OneScope, \A o : Doomed(o) => Doomed(o)', NEW t \in Threads, Resolve(t)
    PROVE  OneScope'
  <1>0. /\ RuntimeTypeOK /\ ServerTypeOK /\ UnbornRests /\ registry \in Seq(Scopes)
        /\ threads[t].owner \in Owners
    BY DEF ScopeInv, ScopesOK, RuntimeTypeOK, ThreadKnows, Resolve, At
  <1>1. ASSUME NEW s \in Registered(threads[t].owner), Reuse(t, s) PROVE OneScope'
    <2>1. s \in Scopes /\ Contains(registry, s)
      BY DEF Registered
    <2>2. /\ Without(s) \in Seq(Scopes)
          /\ \A r : r # s /\ Contains(registry, r) => Contains(Without(s), r)
      BY <1>0, <2>1, WithoutFacts
    <2>3. \A r : Contains(registry, r) => Contains(registry', r)
      BY <1>1, <2>1, <2>2, AppendKeeps, ContainsIsHas DEF Reuse
    <2>4. /\ UNCHANGED <<scope, job>> /\ leases' = [leases EXCEPT ![s] = @ \cup {t}]
      BY <1>1 DEF Reuse
    <2>5. \A r \in Scopes \ {s} : leases'[r] = leases[r]
      BY <1>0, <2>4 DEF RuntimeTypeOK
    <2> SUFFICES ASSUME NEW r \in Scopes, Used(r)', ~Doomed(OwnerOf(r))', r # s
                 PROVE  Contains(registry', r)
      BY <2>1, <2>3 DEF OneScope
    <2>6. Used(r) /\ OwnerOf(r)' = OwnerOf(r)
      BY <2>4, <2>5 DEF Used, WorkPending, OwnerOf
    <2>7. ~Doomed(OwnerOf(r))
      BY <2>6 DEF Doomed
    <2> QED  BY <2>3, <2>6, <2>7 DEF OneScope
  <1>2. ASSUME Open(t, threads[t].owner) PROVE OneScope'
    <2>1. PICK f \in Scopes : f = Fresh
      BY <1>2, FreshIsUnborn DEF Open
    <2>2. PICK o \in Owners : o = threads[t].owner
      BY <1>0
    <2>3. /\ Remaining \in Seq(Scopes)
          /\ \A s \in Evicted : IsIdle(s)
          /\ \A s : Contains(registry, s) /\ s \notin Evicted => Contains(Remaining, s)
      BY <1>0, <1>2, EvictionFacts DEF Open
    <2>4. Contains(registry', f) /\ \A r : Contains(Remaining, r) => Contains(registry', r)
      BY <1>2, <2>1, <2>3, AppendKeeps, ContainsIsHas DEF Open
    <2>5. /\ leases' = [leases EXCEPT ![f] = {t}] /\ job' = [job EXCEPT ![f] = Recovered(o)]
          /\ scope' = [Retire(Evicted) EXCEPT ![f] = [owner |-> o, retired |-> FALSE]]
      BY <1>2, <2>1, <2>2 DEF Open
    <2>6. \A r \in Scopes \ {f} : leases'[r] = leases[r] /\ job'[r] = job[r]
      BY <1>0, <2>5 DEF RuntimeTypeOK
    <2>7. \A r \in Scopes \ {f} : OwnerOf(r)' = OwnerOf(r)
      <3>1. /\ Retire(Evicted) \in [Scopes -> [owner : Owners \cup {None}, retired : BOOLEAN]]
            /\ \A r \in Scopes : Retire(Evicted)[r].owner = OwnerOf(r)
        BY <1>0, RetireFacts
      <3> QED  BY <2>5, <3>1 DEF OwnerOf
    <2> SUFFICES ASSUME NEW r \in Scopes, Used(r)', ~Doomed(OwnerOf(r))', r # f
                 PROVE  Contains(registry', r)
      BY <2>4 DEF OneScope
    <2>8. Used(r) /\ OwnerOf(r)' = OwnerOf(r)
      BY <2>6, <2>7 DEF Used, WorkPending
    <2>9. ~Doomed(OwnerOf(r)) /\ r \notin Evicted
      BY <2>3, <2>8 DEF Doomed, IsIdle, Used
    <2> QED  BY <2>3, <2>4, <2>8, <2>9 DEF OneScope
  <1>3. ASSUME Denied(t) \/ Refuse(threads[t].owner) PROVE OneScope'
    <2>1. UNCHANGED <<leases, job>>
      BY <1>3 DEF Denied, Refuse, runtimeVars, scopeVars
    <2>2. CASE UNCHANGED <<registry, scope>>
      <3>1. \A r \in Scopes : Used(r)' => Used(r) /\ OwnerOf(r)' = OwnerOf(r)
        BY <2>1, <2>2 DEF Used, WorkPending, OwnerOf
      <3> QED  BY <2>2, <3>1, ScopeKept
    <2>3. CASE HasRoom /\ registry' = Remaining /\ scope' = Retire(Evicted)
      <3>1. /\ \A s \in Evicted : IsIdle(s)
            /\ \A s : Contains(registry, s) /\ s \notin Evicted => Contains(registry', s)
        BY <1>0, <2>3, EvictionFacts
      <3>2. \A r \in Scopes : OwnerOf(r)' = OwnerOf(r)
        BY <1>0, <2>3, RetireFacts DEF OwnerOf
      <3> SUFFICES ASSUME NEW r \in Scopes, Used(r)', ~Doomed(OwnerOf(r))'
                   PROVE  Contains(registry', r)
        BY DEF OneScope
      <3>3. Used(r) /\ OwnerOf(r)' = OwnerOf(r)
        BY <2>1, <3>2 DEF Used, WorkPending
      <3>4. ~Doomed(OwnerOf(r)) /\ r \notin Evicted
        BY <3>1, <3>3 DEF Doomed, IsIdle, Used
      <3> QED  BY <3>1, <3>3, <3>4 DEF OneScope
    <2> QED  BY <1>3, <2>2, <2>3 DEF Denied, Refuse, runtimeVars, scopeVars
  <1> QED
    BY <1>1, <1>2, <1>3 DEF Resolve

LEMMA OneScopeErase ==
    ASSUME ScopeInv, OneScope, \A o : Doomed(o) => Doomed(o)', NEW t \in Threads, Erase(t)
    PROVE  OneScope'
  <1>0. /\ RuntimeTypeOK /\ ServerTypeOK /\ ThreadKnows(t) /\ threads[t].pc = "erase"
        /\ threads[t].scope \in Scopes /\ registry \in Seq(Scopes)
    BY DEF ScopeInv, ScopesOK, Erase, At, ThreadKnows, RuntimeTypeOK
  <1>1. PICK s \in Scopes : /\ s = threads[t].scope /\ Contains(registry, s)
                            /\ OwnerOf(s) = threads[t].owner
    BY <1>0 DEF ThreadKnows
  <1>2. UNCHANGED <<scope, leases, job>> /\ registry' = Without(s) /\ Goto(t, "rows")
    BY <1>1 DEF Erase, EraseScope
  <1>3. \A r : r # s /\ Contains(registry, r) => Contains(registry', r)
    BY <1>0, <1>1, <1>2, WithoutFacts
  <1>4. threads'[t].pc = "rows" /\ threads'[t].owner = OwnerOf(s)
    BY <1>0, <1>1, <1>2, GotoFacts DEF ThreadAt
  <1> SUFFICES ASSUME NEW r \in Scopes, Used(r)', ~Doomed(OwnerOf(r))' PROVE Contains(registry', r)
    BY DEF OneScope
  <1>5. Used(r) /\ OwnerOf(r)' = OwnerOf(r)
    BY <1>2 DEF Used, WorkPending, OwnerOf
  <1>6. ~Doomed(OwnerOf(r)) /\ r # s
    BY <1>4, <1>5 DEF Doomed
  <1> QED
    BY <1>3, <1>5, <1>6 DEF OneScope

LEMMA OneScopeThread ==
    ASSUME ScopeInv, OneScope, \A o : Doomed(o) => Doomed(o)', NEW t \in Threads,
           Accept(t) \/ ThreadStep(t) \/ PeerCloses(t)
    PROVE  OneScope'
  <1>0. RuntimeTypeOK /\ ServerTypeOK /\ ThreadKnows(t)
    BY DEF ScopeInv, ScopesOK
  <1>1. ASSUME UNCHANGED <<registry, scope, leases, job>> PROVE OneScope'
    <2>1. \A s \in Scopes : Used(s)' => Used(s) /\ OwnerOf(s)' = OwnerOf(s)
      BY <1>1 DEF Used, WorkPending, OwnerOf
    <2> QED  BY <1>1, <2>1, ScopeKept
  <1>2. CASE Accept(t) \/ PeerCloses(t) \/ LoopEnds(t) \/ Enlist(t) \/ ListJobs(t) \/ SendSnapshot(t)
             \/ TellStart(t) \/ Rows(t)
    <2>1. UNCHANGED <<registry, scope, leases, job>>
      BY <1>2 DEF Accept, PeerCloses, LoopEnds, LeaveLoop, Enlist, ListJobs, SendSnapshot, ThreadOnly,
         TellStart, RecordStart, Rows, DeleteRows, runtimeVars, scopeVars
    <2> QED  BY <1>1, <2>1
  <1>3. CASE Finish(t)
    <2>1. UNCHANGED <<registry, scope, job>> /\ leases' = [s \in Scopes |-> leases[s] \ {t}]
      BY <1>3 DEF Finish, Release
    <2>2. \A s \in Scopes : Used(s)' => Used(s) /\ OwnerOf(s)' = OwnerOf(s)
      BY <2>1 DEF Used, WorkPending, OwnerOf
    <2> QED  BY <2>1, <2>2, ScopeKept
  <1>4. CASE Subscribe(t)
    <2>1. PICK s \in Scopes : s = threads[t].scope /\ t \in leases[s]
      BY <1>0, <1>4 DEF Subscribe, At, ThreadKnows
    <2>2. /\ UNCHANGED <<registry, scope, job>>
          /\ \/ leases' = [r \in Scopes |-> leases[r] \ {t}]
             \/ leases' = [leases EXCEPT ![s] = (@ \ {t}) \cup {Server}]
      BY <1>4, <2>1 DEF Subscribe, Release
    <2>3. \A r \in Scopes : leases'[r] # {} => leases[r] # {}
      BY <1>0, <2>1, <2>2 DEF RuntimeTypeOK
    <2>4. \A r \in Scopes : Used(r)' => Used(r) /\ OwnerOf(r)' = OwnerOf(r)
      BY <2>2, <2>3 DEF Used, WorkPending, OwnerOf
    <2> QED  BY <2>2, <2>4, ScopeKept
  <1>5. CASE StartJob(t)
    <2>1. PICK s \in Scopes : s = threads[t].scope /\ t \in leases[s]
      BY <1>0, <1>5 DEF StartJob, At, ThreadKnows
    <2>2. CASE UNCHANGED runtimeVars
      BY <1>1, <2>2 DEF runtimeVars, scopeVars
    <2>3. CASE Start(s)
      <3>1. UNCHANGED <<registry, scope, leases>> /\ \A r \in Scopes \ {s} : job'[r] = job[r]
        BY <1>0, <2>3 DEF Start, RuntimeTypeOK
      <3>2. \A r \in Scopes : Used(r)' => Used(r) /\ OwnerOf(r)' = OwnerOf(r)
        BY <2>1, <3>1 DEF Used, WorkPending, OwnerOf
      <3> QED  BY <3>1, <3>2, ScopeKept
    <2> QED  BY <1>5, <2>1, <2>2, <2>3 DEF StartJob
  <1>6. CASE BeginDelete(t)
    <2>1. CASE UNCHANGED runtimeVars
      BY <1>1, <2>1 DEF runtimeVars, scopeVars
    <2>2. ASSUME NEW s \in Registered(threads[t].owner), RetireScope(t, s) \/ RetireThrows(s)
          PROVE  OneScope'
      <3>1. /\ UNCHANGED <<registry, leases>> /\ scope' = Retire({s})
            /\ \/ job' = job
               \/ WorkPending(s) /\ \E v : job' = [job EXCEPT ![s] = v]
        BY <2>2 DEF RetireScope, CancelJob, RetireThrows
      <3>2. \A r \in Scopes : OwnerOf(r)' = OwnerOf(r)
        BY <1>0, <3>1, RetireFacts DEF OwnerOf
      <3>3. job' = job \/ (WorkPending(s) /\ \A r \in Scopes \ {s} : job'[r] = job[r])
        BY <1>0, <3>1 DEF RuntimeTypeOK
      <3>4. \A r \in Scopes : Used(r)' => Used(r) /\ OwnerOf(r)' = OwnerOf(r)
        BY <3>1, <3>2, <3>3 DEF Used, WorkPending
      <3> QED  BY <3>1, <3>4, ScopeKept
    <2> QED  BY <1>6, <2>1, <2>2 DEF BeginDelete
  <1> QED
    BY <1>2, <1>3, <1>4, <1>5, <1>6, OneScopeResolve, OneScopeErase DEF ThreadStep, SocketStep, DeleteStep

LEMMA OneScopeNext == ASSUME ScopeInv, OneScope, [Next]_vars PROVE OneScope'
  <1>0. RuntimeTypeOK
    BY DEF ScopeInv, ScopesOK
  <1>1. ASSUME UNCHANGED <<registry, scope, leases, job>>, \A o : Doomed(o) => Doomed(o)' PROVE OneScope'
    <2>1. \A s \in Scopes : Used(s)' => Used(s) /\ OwnerOf(s)' = OwnerOf(s)
      BY <1>1 DEF Used, WorkPending, OwnerOf
    <2> QED  BY <1>1, <2>1, ScopeKept
  <1>2. CASE UNCHANGED vars
    <2>1. UNCHANGED <<rights, threads, registry, scope, leases, job>>
      BY <1>2 DEF vars, runtimeVars, scopeVars, databaseVars, serverVars
    <2> QED  BY <1>1, <2>1 DEF Doomed
  <1>3. CASE Next
    <2>0. \A o : Doomed(o) => Doomed(o)'
      BY <1>3, DoomedStays
    <2>1. ASSUME NEW n \in Notifiers, CallbackStep(n) PROVE OneScope'
      BY <1>1, <2>0, <2>1 DEF CallbackStep, Broadcast, EndCallback, scopeVars
    <2>2. ASSUME NEW s \in Scopes, ScopeStep(s) PROVE OneScope'
      <3>1. CASE WorkerStep(s)
        <4>1. /\ UNCHANGED <<registry, scope, leases>>
              /\ \/ job' = job
                 \/ job[s] = "queued" /\ job' = [job EXCEPT ![s] = "running"]
                 \/ \E v \in Final : job' = [job EXCEPT ![s] = v]
          BY <3>1 DEF WorkerStep, Take, Decide, Report, Terminate, Final
        <4>2. \A r \in Scopes : job'[r] = job[r] \/ job[r] = "queued" \/ job'[r] \in Final
          BY <1>0, <4>1 DEF RuntimeTypeOK
        <4>3. \A r \in Scopes : Used(r)' => Used(r) /\ OwnerOf(r)' = OwnerOf(r)
          BY <4>1, <4>2 DEF Used, WorkPending, OwnerOf, Final
        <4> QED  BY <2>0, <4>1, <4>3, ScopeKept
      <3>2. CASE Destroy(s)
        <4>1. /\ UNCHANGED <<registry, leases>> /\ leases[s] = {}
              /\ job' = [job EXCEPT ![s] = "none"] /\ scope' = [scope EXCEPT ![s] = Unused]
          BY <3>2 DEF Destroy, IsDying
        <4>2. \A r \in Scopes \ {s} : job'[r] = job[r] /\ scope'[r] = scope[r]
          BY <1>0, <4>1 DEF RuntimeTypeOK
        <4>3. job'[s] = "none"
          BY <1>0, <4>1 DEF RuntimeTypeOK
        <4>4. \A r \in Scopes : Used(r)' => Used(r) /\ OwnerOf(r)' = OwnerOf(r)
          BY <4>1, <4>2, <4>3 DEF Used, WorkPending, OwnerOf
        <4> QED  BY <2>0, <4>1, <4>4, ScopeKept
      <3> QED  BY <2>2, <3>1, <3>2 DEF ScopeStep
    <2>3. CASE DefaultJob \/ Stop \/ RetireAll \/ Unobserve \/ EraseNext
      <3>1. UNCHANGED <<registry, scope, leases, job>>
        BY <2>3 DEF DefaultJob, Stop, RetireAll, Unobserve, EraseNext, runtimeVars, scopeVars
      <3> QED  BY <1>1, <2>0, <3>1
    <2>4. CASE Gone
      <3>1. /\ UNCHANGED <<registry, scope, job>> /\ leases' = [s \in Scopes |-> leases[s] \ {Server}]
        BY <2>4 DEF Gone, Release
      <3>2. \A r \in Scopes : Used(r)' => Used(r) /\ OwnerOf(r)' = OwnerOf(r)
        BY <3>1 DEF Used, WorkPending, OwnerOf
      <3> QED  BY <2>0, <3>1, <3>2, ScopeKept
    <2> QED
      BY <1>2, <1>3, <2>0, <2>1, <2>2, <2>3, <2>4, OneScopeThread DEF Next, EndStep
  <1> QED
    BY <1>2, <1>3

LEMMA OneScopeInitially == Init => OneScope
  BY DEF Init, InitRuntime, OneScope, Used, WorkPending

\* All who work for an owner share the registered scope: none is evicted while it is leased or
\* has work, and the deletion that takes one away is on its way to the rows.
THEOREM OneScopeAtWorkHolds == Spec => []OneScopeAtWork
  <1>1. Init => ServerInv /\ OneScope
    BY ScopeInitially, CoherentInitially, CallsInitially, OneScopeInitially DEF ServerInv
  <1>2. ServerInv /\ OneScope /\ [Next]_vars => (ServerInv /\ OneScope)'
    BY ScopeNext, CoherentNext, CallsNext, OneScopeNext DEF ServerInv, CallsOK
  <1>3. ServerInv /\ OneScope => OneScopeAtWork
    BY DEF ServerInv, ScopeInv, OneScope, Used, Doomed, OneScopeAtWork, Deleting, ThreadKnows
  <1> QED
    BY <1>1, <1>2, <1>3, PTL DEF Spec

-----------------------------------------------------------------------------
(* Updates.                                                                 *)

\* A websocket that listens has heard what its job shows, or is about to read it in its
\* snapshot, or the news is on its way: the worker, or the thread that started the job, has
\* still to tell it, or a notification has, whose list, if it is made, has the client.
Listening(t) == threads[t].pc \in {"snapshot", "loop"} /\ clients[t].listed
Named(t) == threads[t].pc \in {"list", "snapshot", "loop"} => clients[t].owner = threads[t].owner
OnList(n, t) == [to |-> t, id |-> clients[t].id] \in targets[n]
Carries(n, t, s) ==
    /\ notices[n] # Silent /\ notices[n].of = s /\ notices[n].what = Shown(s)
    /\ Server \in notices[n].left \/ OnList(n, t)
StartTells(u, s) == threads[u].pc = "started" /\ threads[u].scope = s /\ threads[u].seen = Shown(s)
Coming(t, s) ==
    \/ worker[s] = "decided"
    \/ \E u \in Threads : StartTells(u, s)
    \/ \E n \in Notifiers : Carries(n, t, s)
Knows(t, s) ==
    \/ Shown(s) = "pending" \/ Shown(s) \in clients[t].heard
    \/ threads[t].pc = "snapshot" /\ threads[t].seen = Shown(s)
Told(t) ==
    Listening(t) /\ HasRight(threads[t].scope)
    => Knows(t, threads[t].scope) \/ Coming(t, threads[t].scope)
Updated == \A t \in Threads : Named(t) /\ Told(t)

ClientKept(t) ==
    /\ clients'[t].id = clients[t].id /\ clients'[t].owner = clients[t].owner
    /\ clients[t].heard \subseteq clients'[t].heard
    /\ clients'[t].listed => clients[t].listed

\* What is on its way stays so while those who carry it do.
LEMMA NewsStays ==
    ASSUME NEW t \in Threads, NEW s \in Scopes, Coming(t, s), Shown(s)' = Shown(s),
           clients'[t].id = clients[t].id,
           worker[s] = "decided" => worker'[s] = "decided",
           \A u \in Threads : threads[u].pc = "started" => threads'[u] = threads[u],
           \A n \in Notifiers : notices[n] # Silent => notices'[n] = notices[n] /\ targets'[n] = targets[n]
    PROVE  Coming(t, s)'
  <1>1. CASE worker[s] = "decided"
    BY <1>1 DEF Coming
  <1>2. ASSUME NEW u \in Threads, StartTells(u, s) PROVE Coming(t, s)'
    <2>1. StartTells(u, s)'
      BY <1>2 DEF StartTells
    <2> QED  BY <2>1 DEF Coming
  <1>3. ASSUME NEW n \in Notifiers, Carries(n, t, s) PROVE Coming(t, s)'
    <2>1. Carries(n, t, s)'
      BY <1>3 DEF Carries, OnList
    <2> QED  BY <2>1 DEF Coming
  <1> QED
    BY <1>1, <1>2, <1>3 DEF Coming

\* A listening thread has its scope under it: observed, and the same before and after.
LEMMA ListenersScope ==
    ASSUME ServerInv, NEW t \in Threads, threads[t].pc \in Watching
    PROVE  /\ threads[t].scope \in Scopes /\ threads[t].scope \in Managers
           /\ threads[t].scope # Default
           /\ leases[threads[t].scope] # {} /\ Server \in observers[threads[t].scope]
           /\ OwnerOf(threads[t].scope) = threads[t].owner
           /\ server \notin {"unobserved", "gone"}
  <1>1. /\ threads[t].scope \in subscribed /\ OwnerOf(threads[t].scope) = threads[t].owner
        /\ subscribed \subseteq Scopes /\ SubscribedPinned /\ EndIsQuiet /\ WatchesAll
    BY DEF ServerInv, ScopeInv, ScopesOK, ServerTypeOK, CallsOK, ThreadKnows
  <1>2. server \notin {"unobserved", "gone"}
    BY <1>1 DEF EndIsQuiet, Watching
  <1>3. Scopes \subseteq Managers /\ Default \notin Scopes
    BY ScopesAreManagers, RuntimeConstants DEF Default
  <1> QED
    BY <1>1, <1>2, <1>3 DEF SubscribedPinned, WatchesAll

\* A step of others leaves t told.
LEMMA ToldStays ==
    ASSUME ServerInv, ScopeInv', NEW t \in Threads, Named(t), Told(t), threads'[t] = threads[t],
           ClientKept(t), rights' \subseteq rights,
           Listening(t) /\ HasRight(threads[t].scope) =>
               \/ Shown(threads[t].scope)' = "pending"
               \/ Coming(t, threads[t].scope)'
               \/ /\ Shown(threads[t].scope)' = Shown(threads[t].scope)
                  /\ \/ Coming(t, threads[t].scope) => Knows(t, threads[t].scope)'
                     \/ ~clients'[t].listed
    PROVE  Named(t)' /\ Told(t)'
  <1>1. Named(t)'
    BY DEF Named, ClientKept
  <1>2. ASSUME Listening(t)', HasRight(threads[t].scope)'
        PROVE  Knows(t, threads[t].scope)' \/ Coming(t, threads[t].scope)'
    <2>1. Listening(t) /\ threads[t].pc \in Watching
      BY <1>2 DEF Listening, ClientKept, Watching
    <2>2. PICK s \in Scopes : s = threads[t].scope /\ OwnerOf(s) = threads[t].owner
      BY <2>1, ListenersScope
    <2>3. OwnerOf(s)' = threads[t].owner
      BY <2>1, <2>2 DEF ScopeInv, ThreadKnows
    <2>4. HasRight(s)
      BY <1>2, <2>2, <2>3 DEF HasRight
    <2>5. Knows(t, s) \/ Coming(t, s)
      BY <2>1, <2>2, <2>4 DEF Told
    <2>6. ASSUME Shown(s)' = Shown(s), Knows(t, s) PROVE Knows(t, s)'
      BY <2>6 DEF Knows, ClientKept
    <2>7. clients'[t].listed
      BY <1>2 DEF Listening
    <2>8. CASE Shown(s)' = "pending"
      BY <2>2, <2>8 DEF Knows
    <2>9. CASE Coming(t, s)'
      BY <2>2, <2>9
    <2>10. CASE Shown(s)' = Shown(s) /\ (Coming(t, s) => Knows(t, s)')
      BY <2>2, <2>5, <2>6, <2>10
    <2> QED  BY <2>1, <2>2, <2>4, <2>7, <2>8, <2>9, <2>10
  <1>3. Told(t)'
    BY <1>2 DEF Told
  <1> QED
    BY <1>1, <1>3

LEMMA ToldQuiet ==
    ASSUME ServerInv, ScopeInv', NEW t \in Threads, Named(t), Told(t), threads'[t] = threads[t],
           ClientKept(t), rights' \subseteq rights,
           Listening(t) /\ HasRight(threads[t].scope) =>
               \/ Shown(threads[t].scope)' = Shown(threads[t].scope)
               \/ Shown(threads[t].scope)' = "pending"
               \/ Coming(t, threads[t].scope)',
           worker[threads[t].scope] = "decided" => worker'[threads[t].scope] = "decided",
           \A u \in Threads : threads[u].pc = "started" => threads'[u] = threads[u],
           \A n \in Notifiers : notices[n] # Silent => notices'[n] = notices[n] /\ targets'[n] = targets[n]
    PROVE  Named(t)' /\ Told(t)'
  <1>1. ASSUME Listening(t), Coming(t, threads[t].scope),
               Shown(threads[t].scope)' = Shown(threads[t].scope)
        PROVE  Coming(t, threads[t].scope)'
    <2>1. PICK s \in Scopes : s = threads[t].scope
      BY <1>1, ListenersScope DEF Listening, Watching
    <2>2. Coming(t, s)'
      BY <1>1, <2>1, NewsStays DEF ClientKept
    <2> QED  BY <2>1, <2>2
  <1> QED
    BY <1>1, ToldStays

\* A notification that the observed manager makes carries what its job shows.
LEMMA NoticeCarries ==
    ASSUME ServerInv, NEW t \in Threads, Listening(t), NEW n \in Notifiers, NEW v,
           Notify(n, threads[t].scope, v), Shown(threads[t].scope)' = v, threads'[t] = threads[t]
    PROVE  Coming(t, threads[t].scope)'
  <1>1. PICK s \in Scopes : s = threads[t].scope /\ Server \in observers[s]
    BY ListenersScope DEF Listening, Watching
  <1>2. notices \in [Notifiers -> NoticeType] /\ s \in Managers
    BY <1>1, ScopesAreManagers DEF ServerInv, CallsOK, ObserverTypeOK
  <1>3. notices' = [notices EXCEPT ![n] = [of |-> s, what |-> v, left |-> observers[s], in |-> None]]
    BY <1>1 DEF Notify
  <1>4. notices'[n] = [of |-> s, what |-> v, left |-> observers[s], in |-> None]
    BY <1>2, <1>3
  <1>5. notices'[n] # Silent
    BY <1>1, <1>4 DEF Silent
  <1>6. Carries(n, t, s)'
    <2>1. Shown(s)' = v
      BY <1>1 DEF Shown
    <2> QED  BY <1>1, <1>4, <1>5, <2>1 DEF Carries
  <1>7. Coming(t, s)'
    BY <1>6 DEF Coming
  <1> QED
    BY <1>1, <1>7 DEF Coming, Carries, OnList, StartTells, Shown

LEMMA NotifyKeeps ==
    ASSUME ServerInv, NEW n \in Notifiers, NEW m, NEW v, Notify(n, m, v)
    PROVE  \A k \in Notifiers : notices[k] # Silent => notices'[k] = notices[k]
  BY DEF ServerInv, CallsOK, ObserverTypeOK, Notify

LEMMA SentFacts ==
    ASSUME NEW k \in ClientType, NEW v \in Views \cup {None}
    PROVE  /\ Sent(k, v).id = k.id /\ Sent(k, v).owner = k.owner /\ k.heard \subseteq Sent(k, v).heard
           /\ Sent(k, v).listed => IsOpen(k) /\ k.listed /\ Sent(k, v).heard = k.heard \cup ({v} \ {"pending"})
           /\ Removed(k).id = k.id /\ Removed(k).owner = k.owner /\ k.heard = Removed(k).heard
           /\ ~Removed(k).listed
           /\ Retired(k).id = k.id /\ Retired(k).owner = k.owner /\ Retired(k).heard = k.heard
           /\ Retired(k).listed = k.listed
  <1>1. /\ Retired(k).id = k.id /\ Retired(k).owner = k.owner /\ Retired(k).heard = k.heard
        /\ Retired(k).listed = k.listed /\ Retired(k) \in ClientType
    BY DEF Retired, ClientType
  <1>2. /\ Removed(k).id = k.id /\ Removed(k).owner = k.owner /\ Removed(k).heard = k.heard
        /\ Removed(k).listed = FALSE
    BY <1>1 DEF Removed, ClientType
  <1>3. /\ Heard(k, v).id = k.id /\ Heard(k, v).owner = k.owner /\ Heard(k, v).listed = k.listed
        /\ Heard(k, v).heard = k.heard \cup ({v} \ {"pending"})
    BY DEF Heard, ClientType
  <1> QED
    BY <1>1, <1>2, <1>3 DEF Sent

\* The thread's own steps: it begins to listen with a snapshot, and hears the snapshot.
LEMMA UpdatedOwn ==
    ASSUME ServerInv, NEW t \in Threads, Named(t), Told(t),
           Accept(t) \/ ThreadStep(t) \/ PeerCloses(t)
    PROVE  Named(t)' /\ Told(t)'
  <1>0. /\ RuntimeTypeOK /\ ServerTypeOK /\ ThreadKnows(t) /\ threads \in [Threads -> ThreadType]
        /\ threads[t] \in ThreadType /\ clients \in [Threads -> ClientType] /\ clients[t] \in ClientType
    BY DEF ServerInv, ScopeInv, ScopesOK, ServerTypeOK
  <1>1. ASSUME threads'[t].pc \notin {"list", "snapshot", "loop"} PROVE Named(t)' /\ Told(t)'
    BY <1>1 DEF Named, Told, Listening
  <1>2. CASE Accept(t) \/ Finish(t)
    <2>1. PICK th : threads' = [threads EXCEPT ![t] = th] /\ th.pc \in {"resolve", "idle"}
      <3>1. CASE Accept(t)
        <4>1. PICK kind, o : threads' = [threads EXCEPT ![t] = [NoThread EXCEPT !.kind = kind, !.owner = o,
                                                                                !.pc = "resolve"]]
          BY <3>1 DEF Accept
        <4>2. PICK th : th = [NoThread EXCEPT !.kind = kind, !.owner = o, !.pc = "resolve"]
          OBVIOUS
        <4>3. th.pc = "resolve"
          BY <4>2 DEF NoThread
        <4> QED  BY <4>1, <4>2, <4>3
      <3>2. CASE Finish(t)
        <4>1. NoThread.pc = "idle"
          BY DEF NoThread
        <4> QED  BY <3>2, <4>1 DEF Finish
      <3> QED  BY <1>2, <3>1, <3>2
    <2> QED  BY <1>0, <1>1, <2>1
  <1>3. CASE PeerCloses(t) \/ LoopEnds(t) \/ TellStart(t) \/ Subscribe(t) \/ Erase(t) \/ Rows(t)
    <2>1. \E p \in {"done", "enlist", "rows"} : Goto(t, p)
      BY <1>3 DEF PeerCloses, LoopEnds, LeaveLoop, TellStart, Subscribe, Erase, Rows
    <2>2. threads'[t].pc \in {"done", "enlist", "rows"}
      BY <1>0, <2>1, GotoFacts DEF ThreadAt
    <2> QED  BY <1>1, <2>2
  <1>4. CASE Resolve(t) \/ StartJob(t) \/ BeginDelete(t)
    <2>1. ASSUME NEW p \in ThreadAt, Goto(t, p) PROVE threads'[t].pc = p
      BY <1>0, <2>1, GotoFacts
    <2>2. ASSUME NEW s \in Scopes, Serve(t, s), Resolve(t)
          PROVE threads'[t].pc \in {"start", "subscribe", "retire"}
      <3>1. threads[t].kind # "none"
        BY <1>0, <2>2 DEF ThreadKnows, Resolve, At
      <3> QED  BY <1>0, <2>2, <3>1, ServeFacts
    <2>3. CASE Resolve(t)
      <3>1. Open(t, threads[t].owner) => Fresh \in Scopes
        BY FreshIsUnborn DEF Open
      <3>2. threads'[t].pc \in {"start", "subscribe", "retire", "done"}
        BY <2>1, <2>2, <2>3, <3>1 DEF Resolve, Registered, ThreadAt
      <3> QED  BY <1>1, <3>2
    <2>4. CASE StartJob(t)
      <3>1. ASSUME NEW v, threads' = [threads EXCEPT ![t].pc = "started", ![t].seen = v]
            PROVE  threads'[t].pc = "started"
        BY <1>0, <3>1 DEF ThreadType
      <3>2. threads'[t].pc \in {"started", "done"}
        BY <2>1, <2>4, <3>1 DEF StartJob, ThreadAt
      <3> QED  BY <1>1, <3>2
    <2>5. CASE BeginDelete(t)
      <3>1. ASSUME NEW v, threads' = [threads EXCEPT ![t].pc = "erase", ![t].scope = v]
            PROVE  threads'[t].pc = "erase"
        BY <1>0, <3>1 DEF ThreadType
      <3>2. threads'[t].pc \in {"erase", "done", "rows"}
        BY <2>1, <2>5, <3>1 DEF BeginDelete, ThreadAt
      <3> QED  BY <1>1, <3>2
    <2> QED  BY <1>4, <2>3, <2>4, <2>5
  <1>5. CASE Enlist(t)
    <2>1. threads'[t].pc = "list" /\ threads'[t].owner = threads[t].owner
      BY <1>0, <1>5, GotoFacts DEF Enlist, ThreadAt
    <2>2. clients'[t].owner = threads[t].owner
      BY <1>0, <1>5 DEF Enlist
    <2> QED  BY <2>1, <2>2 DEF Named, Told, Listening
  <1>6. CASE ListJobs(t)
    <2>1. threads[t].pc = "list" /\ threads[t].scope \in Scopes
      BY <1>0, <1>6 DEF ListJobs, At, ThreadKnows, Watching, ServerTypeOK
    <2>2. /\ threads' = [threads EXCEPT ![t].pc = "snapshot", ![t].seen = Shown(threads[t].scope)]
          /\ clients' = clients /\ job' = job
      BY <1>6 DEF ListJobs, ThreadOnly, OnlyThreads, runtimeVars, scopeVars
    <2>3. PICK v : v = Shown(threads[t].scope)
      OBVIOUS
    <2>4. /\ threads'[t].pc = "snapshot" /\ threads'[t].seen = v
          /\ threads'[t].scope = threads[t].scope /\ threads'[t].owner = threads[t].owner
      BY <1>0, <2>2, <2>3 DEF ThreadType
    <2>5. Shown(threads[t].scope)' = v
      BY <2>2, <2>3, <2>4 DEF Shown
    <2>6. Named(t)'
      BY <2>1, <2>2, <2>4 DEF Named
    <2>7. Knows(t, threads[t].scope)'
      BY <2>4, <2>5 DEF Knows
    <2> QED  BY <2>6, <2>7 DEF Told
  <1>7. CASE SendSnapshot(t)
    <2>1. /\ threads[t].pc = "snapshot" /\ clients' = [clients EXCEPT ![t] = Sent(clients[t], threads[t].seen)]
          /\ UNCHANGED <<rights, scope, job, worker, notices, targets>>
          /\ Goto(t, IF IsOpen(clients[t]) THEN "loop" ELSE "done")
      BY <1>7 DEF SendSnapshot, At, runtimeVars, scopeVars, databaseVars, observerVars
    <2>2. CASE ~IsOpen(clients[t])
      BY <1>0, <1>1, <2>1, <2>2, GotoFacts DEF ThreadAt
    <2>3. CASE IsOpen(clients[t])
      <3>1. /\ threads'[t].pc = "loop" /\ threads'[t].scope = threads[t].scope
            /\ threads'[t].owner = threads[t].owner
            /\ \A u \in Threads \ {t} : threads'[u] = threads[u]
        BY <1>0, <2>1, <2>3, GotoFacts DEF ThreadAt
      <3>2. clients'[t] = Sent(clients[t], threads[t].seen) /\ threads[t].seen \in Views \cup {None}
        BY <1>0, <2>1 DEF ThreadType
      <3>3. /\ clients'[t].id = clients[t].id /\ clients'[t].owner = clients[t].owner
            /\ clients[t].heard \subseteq clients'[t].heard
            /\ clients'[t].listed => clients[t].listed
                 /\ clients'[t].heard = clients[t].heard \cup ({threads[t].seen} \ {"pending"})
        BY <1>0, <3>2, SentFacts
      <3>4. Named(t)'
        BY <2>1, <3>1, <3>3 DEF Named
      <3>5. PICK s \in Scopes : s = threads[t].scope
        BY <2>1, ListenersScope DEF Watching
      <3>6. Shown(s)' = Shown(s) /\ (HasRight(s)' <=> HasRight(s))
        BY <2>1 DEF Shown, HasRight, OwnerOf
      <3>7. ASSUME clients'[t].listed, HasRight(s) PROVE Knows(t, s)' \/ Coming(t, s)'
        <4>1. Knows(t, s) \/ Coming(t, s)
          BY <2>1, <3>3, <3>5, <3>7 DEF Told, Listening
        <4>2. CASE Knows(t, s)
          BY <3>3, <3>6, <3>7, <4>2 DEF Knows
        <4>3. CASE Coming(t, s)
          <5>1. \A u \in Threads : threads[u].pc = "started" => threads'[u] = threads[u]
            BY <2>1, <3>1
          <5> QED  BY <2>1, <3>3, <3>6, <4>3, <5>1, NewsStays
        <4> QED  BY <4>1, <4>2, <4>3
      <3>8. HasRight(threads[t].scope)' => HasRight(s)'
        BY <3>1, <3>5 DEF HasRight, OwnerOf
      <3>9. Knows(t, s)' => Knows(t, threads[t].scope)'
        BY <3>1, <3>5 DEF Knows, Shown
      <3>10. Coming(t, s)' => Coming(t, threads[t].scope)'
        BY <3>1, <3>5 DEF Coming, StartTells, Carries, OnList, Shown
      <3>11. Told(t)'
        BY <3>6, <3>7, <3>8, <3>9, <3>10 DEF Told, Listening
      <3> QED  BY <3>4, <3>11
    <2> QED  BY <2>2, <2>3
  <1> QED
    BY <1>2, <1>3, <1>4, <1>5, <1>6, <1>7 DEF ThreadStep, SocketStep, DeleteStep

\* The steps of another thread: the news of what it does to a job is with its own thread or
\* with its notification.
LEMMA UpdatedOthers ==
    ASSUME ServerInv, ScopeInv', rights' \subseteq rights, NEW t \in Threads, Named(t), Told(t),
           NEW u \in Threads \ {t}, Accept(u) \/ ThreadStep(u) \/ PeerCloses(u)
    PROVE  Named(t)' /\ Told(t)'
  <1>0. /\ RuntimeTypeOK /\ ServerTypeOK /\ UnbornRests /\ ThreadKnows(u) /\ ThreadKnows(t)
        /\ threads \in [Threads -> ThreadType] /\ threads[u] \in ThreadType
        /\ clients \in [Threads -> ClientType] /\ job \in [Scopes -> Statuses] /\ u \in Notifiers
        /\ notices \in [Notifiers -> NoticeType]
    BY ScopesAreManagers DEF ServerInv, ScopeInv, ScopesOK, ServerTypeOK, RuntimeTypeOK, CallsOK,
       ObserverTypeOK
  <1>1. ASSUME threads'[t] = threads[t], clients'[t] = clients[t], UNCHANGED <<worker, targets>>,
               threads[u].pc # "started", \A v \in Threads \ {u} : threads'[v] = threads[v],
               \A n \in Notifiers : notices[n] # Silent => notices'[n] = notices[n],
               Listening(t) /\ HasRight(threads[t].scope) =>
                  \/ Shown(threads[t].scope)' = Shown(threads[t].scope)
                  \/ Shown(threads[t].scope)' = "pending"
                  \/ Coming(t, threads[t].scope)'
        PROVE  Named(t)' /\ Told(t)'
    <2>1. ClientKept(t)
      BY <1>1 DEF ClientKept
    <2>2. \A v \in Threads : threads[v].pc = "started" => threads'[v] = threads[v]
      BY <1>1
    <2> QED  BY <1>1, <2>1, <2>2, ToldQuiet
  <1>2. ASSUME UNCHANGED <<job, worker, targets, notices>>, threads[u].pc # "started",
               \A v \in Threads \ {u} : threads'[v] = threads[v] /\ clients'[v] = clients[v]
        PROVE  Named(t)' /\ Told(t)'
    <2>1. Shown(threads[t].scope)' = Shown(threads[t].scope)
      BY <1>2 DEF Shown
    <2> QED  BY <1>1, <1>2, <2>1
  <1>3. CASE Accept(u) \/ Finish(u)
    <2>1. \A v \in Threads \ {u} : threads'[v] = threads[v] /\ clients'[v] = clients[v]
      BY <1>0, <1>3 DEF Accept, Finish
    <2>2. UNCHANGED <<job, worker, targets, notices>> /\ threads[u].pc \in {"idle", "done"}
      BY <1>3 DEF Accept, Finish, Release, runtimeVars, scopeVars, observerVars, At
    <2> QED  BY <1>0, <1>2, <2>1, <2>2
  <1>4. CASE PeerCloses(u) \/ LoopEnds(u) \/ Enlist(u) \/ SendSnapshot(u)
    <2>1. PICK p, k : Goto(u, p) /\ clients' = [clients EXCEPT ![u] = k]
      BY <1>4 DEF PeerCloses, LoopEnds, LeaveLoop, Enlist, SendSnapshot
    <2>2. UNCHANGED <<job, worker, targets, notices>> /\ threads[u].pc \in {"loop", "enlist", "snapshot"}
      BY <1>4 DEF PeerCloses, LoopEnds, LeaveLoop, Enlist, SendSnapshot, runtimeVars, scopeVars,
         observerVars, At
    <2> QED  BY <1>0, <1>2, <2>1, <2>2 DEF Goto
  <1>5. CASE ListJobs(u)
    <2>1. /\ UNCHANGED <<job, worker, targets, notices, clients>> /\ threads[u].pc = "list"
          /\ threads' = [threads EXCEPT ![u].pc = "snapshot", ![u].seen = Shown(threads[u].scope)]
      BY <1>5 DEF ListJobs, ThreadOnly, OnlyThreads, runtimeVars, scopeVars, observerVars, At
    <2> QED  BY <1>0, <1>2, <2>1
  <1>6. CASE Subscribe(u) \/ Erase(u) \/ Rows(u)
    <2>1. \E p : Goto(u, p)
      BY <1>6 DEF Subscribe, Erase, Rows
    <2>2. UNCHANGED <<job, worker, targets, notices, clients>> /\ threads[u].pc \in {"subscribe", "erase", "rows"}
      BY <1>6 DEF Subscribe, AddObserver, Release, Erase, EraseScope, Rows, DeleteRows, OnlyThreads, At,
         scopeVars, observerVars
    <2> QED  BY <1>0, <1>2, <2>1, <2>2 DEF Goto
  <1>7. CASE Resolve(u)
    <2>1. /\ UNCHANGED <<worker, targets, notices, clients>> /\ threads[u].pc = "resolve"
          /\ (Open(u, threads[u].owner) \/ UNCHANGED job)
      BY <1>7 DEF Resolve, Reuse, Open, Denied, Refuse, OnlyThreads, At, runtimeVars, scopeVars, observerVars
    <2>2. \A v \in Threads \ {u} : threads'[v] = threads[v]
      <3>1. ASSUME NEW s, Serve(u, s) PROVE \A v \in Threads \ {u} : threads'[v] = threads[v]
        BY <1>0, <3>1 DEF Serve
      <3>2. ASSUME NEW p, Goto(u, p) PROVE \A v \in Threads \ {u} : threads'[v] = threads[v]
        BY <1>0, <3>2 DEF Goto
      <3> QED  BY <1>7, <3>1, <3>2 DEF Resolve
    <2>3. CASE UNCHANGED job
      BY <1>2, <2>1, <2>2, <2>3
    <2>4. CASE Open(u, threads[u].owner)
      <3>1. PICK f \in Scopes : f = Fresh /\ scope[f] = Unused
        BY <2>4, FreshIsUnborn DEF Open
      <3>2. leases[f] = {}
        BY <1>0, <3>1 DEF UnbornRests, OwnerOf, Unused
      <3>3. \A r \in Scopes \ {f} : job'[r] = job[r]
        BY <1>0, <2>4, <3>1 DEF Open
      <3>4. Listening(t) => Shown(threads[t].scope)' = Shown(threads[t].scope)
        <4>1. ASSUME Listening(t) PROVE threads[t].scope \in Scopes \ {f}
          BY <3>2, <4>1, ListenersScope DEF Listening, Watching
        <4>2. threads'[t] = threads[t]
          BY <2>2
        <4> QED  BY <3>3, <4>1, <4>2 DEF Shown
      <3> QED  BY <1>1, <2>1, <2>2, <3>4
    <2> QED  BY <2>1, <2>3, <2>4
  <1>8. CASE StartJob(u)
    <2>1. /\ UNCHANGED <<targets, clients>> /\ threads[u].pc = "start" /\ threads[u].scope \in Scopes
      BY <1>0, <1>8 DEF StartJob, OnlyThreads, At, ThreadKnows
    <2>2. CASE Goto(u, "done") /\ UNCHANGED runtimeVars
      BY <1>0, <1>2, <2>1, <2>2 DEF Goto, runtimeVars, scopeVars, observerVars
    <2>3. PICK s \in Scopes : s = threads[u].scope
      BY <2>1
    <2>4. CASE Start(s) /\ threads' = [threads EXCEPT ![u].pc = "started", ![u].seen = View(Started(s))]
      <3>1. UNCHANGED <<worker, notices>> /\ job' = [job EXCEPT ![s] = Started(s)] /\ UNCHANGED <<scope, analysed>>
        BY <2>4 DEF Start, databaseVars, observerVars
      <3>2. PICK v \in {"queued", "complete"} : v = Started(s)
        BY DEF Started
      <3>3. /\ \A x \in Threads \ {u} : threads'[x] = threads[x]
            /\ threads'[u].pc = "started" /\ threads'[u].seen = View(v) /\ threads'[u].scope = s
        BY <1>0, <2>3, <2>4, <3>2 DEF ThreadType
      <3>4. job'[s] = v /\ \A r \in Scopes \ {s} : job'[r] = job[r]
        BY <1>0, <3>1, <3>2
      <3>5. Coming(t, s)'
        <4>1. StartTells(u, s)'
          BY <3>3, <3>4 DEF StartTells, Shown
        <4> QED  BY <4>1 DEF Coming
      <3>6. Listening(t) => threads[t].scope \in Scopes
        BY ListenersScope DEF Listening, Watching
      <3>7. Listening(t) => Shown(threads[t].scope)' = Shown(threads[t].scope) \/ Coming(t, threads[t].scope)'
        <4>1. threads'[t] = threads[t]
          BY <3>3
        <4>2. CASE threads[t].scope = s
          BY <3>5, <4>1, <4>2 DEF Coming, Carries, OnList, StartTells, Shown
        <4>3. CASE threads[t].scope # s
          BY <3>4, <3>6, <4>1, <4>3 DEF Shown
        <4> QED  BY <4>2, <4>3
      <3> QED  BY <1>1, <2>1, <3>1, <3>3, <3>7
    <2> QED  BY <1>8, <2>2, <2>3, <2>4 DEF StartJob
  <1>9. CASE TellStart(u)
    <2>1. /\ UNCHANGED <<targets, clients>> /\ threads[u].pc = "started" /\ threads[u].scope \in Scopes
          /\ \A v \in Threads \ {u} : threads'[v] = threads[v]
      BY <1>0, <1>9 DEF TellStart, OnlyThreads, At, Goto, ThreadKnows
    <2>2. PICK s, w : s \in Scopes /\ s = threads[u].scope /\ w = threads[u].seen
      BY <2>1
    <2>3. ClientKept(t)
      BY <2>1 DEF ClientKept
    <2>4. CASE ~HasRight(s) /\ UNCHANGED runtimeVars
      <3>1. UNCHANGED <<scope, job, worker, notices>>
        BY <2>4 DEF runtimeVars, scopeVars, observerVars
      <3>2. Shown(threads[t].scope)' = Shown(threads[t].scope)
        BY <2>1, <3>1 DEF Shown
      <3>3. ASSUME Listening(t), HasRight(threads[t].scope), Coming(t, threads[t].scope)
            PROVE  Coming(t, threads[t].scope)'
        <4>1. PICK r \in Scopes : r = threads[t].scope /\ r # s
          BY <2>4, <3>3, ListenersScope DEF Listening, Watching
        <4>2. CASE worker[r] = "decided"
          BY <2>1, <3>1, <4>1, <4>2 DEF Coming
        <4>3. ASSUME NEW v \in Threads, StartTells(v, r) PROVE Coming(t, r)'
          <5>1. v # u
            BY <2>2, <4>1, <4>3 DEF StartTells
          <5>2. StartTells(v, r)'
            BY <2>1, <3>1, <4>3, <5>1 DEF StartTells, Shown
          <5> QED  BY <5>2 DEF Coming
        <4>4. ASSUME NEW n \in Notifiers, Carries(n, t, r) PROVE Coming(t, r)'
          <5>1. Carries(n, t, r)'
            BY <2>1, <3>1, <4>4 DEF Carries, OnList, Shown
          <5> QED  BY <5>1 DEF Coming
        <4>5. threads'[t].scope = r
          BY <2>1, <4>1
        <4> QED
          BY <3>3, <4>1, <4>2, <4>3, <4>4, <4>5 DEF Coming, StartTells, Carries, OnList, Shown
      <3> QED  BY <2>1, <2>3, <3>2, <3>3, ToldStays
    <2>5. CASE RecordStart(u, s, w)
      <3>1. UNCHANGED <<scope, job, worker>> /\ Notify(u, s, w)
        BY <2>5 DEF RecordStart, RecordAndNotify
      <3>2. Shown(threads[t].scope)' = Shown(threads[t].scope)
        BY <2>1, <3>1 DEF Shown
      <3>3. \A k \in Notifiers : notices[k] # Silent => notices'[k] = notices[k]
        BY <1>0, <3>1, NotifyKeeps
      <3>4. ASSUME Listening(t), Coming(t, threads[t].scope) PROVE Coming(t, threads[t].scope)'
        <4>1. PICK r \in Scopes : r = threads[t].scope
          BY <3>4, ListenersScope DEF Listening, Watching
        <4>2. CASE worker[r] = "decided"
          BY <2>1, <3>1, <4>1, <4>2 DEF Coming
        <4>3. ASSUME NEW v \in Threads, StartTells(v, r) PROVE Coming(t, r)'
          <5>1. CASE v # u
            <6>1. StartTells(v, r)'
              BY <2>1, <3>1, <4>3, <5>1 DEF StartTells, Shown
            <6> QED  BY <6>1 DEF Coming
          <5>2. CASE v = u
            <6>1. r = s /\ w = Shown(r)
              BY <2>2, <4>3, <5>2 DEF StartTells
            <6>2. Notify(u, threads[t].scope, w) /\ Shown(threads[t].scope)' = w
              BY <3>1, <3>2, <4>1, <6>1
            <6>3. Coming(t, threads[t].scope)'
              BY <1>0, <2>1, <3>4, <6>2, NoticeCarries
            <6> QED
              BY <2>1, <4>1, <6>3 DEF Coming, StartTells, Carries, OnList, Shown
          <5> QED  BY <5>1, <5>2
        <4>4. ASSUME NEW n \in Notifiers, Carries(n, t, r) PROVE Coming(t, r)'
          <5>1. Carries(n, t, r)'
            BY <2>1, <3>1, <3>3, <4>4 DEF Carries, OnList, Shown
          <5> QED  BY <5>1 DEF Coming
        <4>5. threads'[t].scope = r
          BY <2>1, <4>1
        <4> QED
          BY <3>4, <4>1, <4>2, <4>3, <4>4, <4>5 DEF Coming, StartTells, Carries, OnList, Shown
      <3> QED  BY <2>1, <2>3, <3>2, <3>4, ToldStays
    <2> QED  BY <1>9, <2>2, <2>4, <2>5 DEF TellStart
  <1>10. CASE BeginDelete(u)
    <2>1. /\ UNCHANGED <<targets, clients>> /\ threads[u].pc = "retire"
          /\ \A v \in Threads \ {u} : threads'[v] = threads[v]
      BY <1>0, <1>10 DEF BeginDelete, OnlyThreads, At, Goto
    <2>2. CASE UNCHANGED runtimeVars
      BY <1>2, <2>1, <2>2 DEF runtimeVars, scopeVars, observerVars
    <2>3. ASSUME NEW s \in Scopes, RetireScope(u, s) PROVE Named(t)' /\ Told(t)'
      <3>1. worker' = worker
        BY <2>3 DEF RetireScope
      <3>2. CASE UNCHANGED <<job, observerVars>>
        BY <1>2, <2>1, <3>1, <3>2 DEF observerVars
      <3>3. CASE CancelJob(u, s)
        <4>0. PICK status : status = IF job[s] = "queued" THEN "cancelled" ELSE "cancelling"
          OBVIOUS
        <4>1. /\ status \in {"cancelled", "cancelling"}
              /\ Notify(u, s, IF status = "cancelled" THEN status ELSE "pending")
              /\ job' = [job EXCEPT ![s] = status]
          BY <3>3, <4>0 DEF CancelJob, RecordAndNotify
        <4>2. job'[s] = status /\ \A r \in Scopes \ {s} : job'[r] = job[r]
          BY <1>0, <4>1
        <4>3. \A k \in Notifiers : notices[k] # Silent => notices'[k] = notices[k]
          BY <1>0, <4>1, NotifyKeeps
        <4>4. ASSUME Listening(t) PROVE \/ Shown(threads[t].scope)' = Shown(threads[t].scope)
                                       \/ Shown(threads[t].scope)' = "pending"
                                       \/ Coming(t, threads[t].scope)'
          <5>1. PICK r \in Scopes : r = threads[t].scope /\ r = threads'[t].scope
            BY <2>1, <4>4, ListenersScope DEF Listening, Watching
          <5>2. CASE r # s
            BY <4>2, <5>1, <5>2 DEF Shown
          <5>3. CASE r = s /\ status = "cancelling"
            BY <4>2, <5>1, <5>3 DEF Shown, View
          <5>4. CASE r = s /\ status = "cancelled"
            <6>1. Shown(threads[t].scope)' = status /\ Notify(u, threads[t].scope, status)
              BY <4>1, <4>2, <5>1, <5>4 DEF Shown, View
            <6> QED  BY <1>0, <2>1, <4>4, <6>1, NoticeCarries
          <5> QED  BY <4>1, <5>2, <5>3, <5>4
        <4> QED  BY <1>1, <2>1, <3>1, <4>3, <4>4
      <3> QED  BY <2>3, <3>2, <3>3 DEF RetireScope
    <2>4. ASSUME NEW s \in Scopes, RetireThrows(s) PROVE Named(t)' /\ Told(t)'
      <3>1. UNCHANGED <<worker, notices>> /\ ~HasRight(s)
            /\ job' = [job EXCEPT ![s] = IF @ = "queued" THEN "cancelled" ELSE "cancelling"]
        BY <2>4 DEF RetireThrows, observerVars
      <3>2. \A r \in Scopes \ {s} : job'[r] = job[r]
        BY <1>0, <3>1
      <3>3. ASSUME Listening(t), HasRight(threads[t].scope)
            PROVE  Shown(threads[t].scope)' = Shown(threads[t].scope)
        <4>1. PICK r \in Scopes : r = threads[t].scope /\ r = threads'[t].scope /\ r # s
          BY <2>1, <3>1, <3>3, ListenersScope DEF Listening, Watching
        <4> QED  BY <3>2, <4>1 DEF Shown
      <3> QED  BY <1>1, <2>1, <3>1, <3>3
    <2> QED  BY <1>10, <2>2, <2>3, <2>4 DEF BeginDelete, Registered
  <1> QED
    BY <1>3, <1>4, <1>5, <1>6, <1>7, <1>8, <1>9, <1>10 DEF ThreadStep, SocketStep, DeleteStep

LEMMA UpdatedCallback ==
    ASSUME ServerInv, ScopeInv', rights' \subseteq rights, NEW t \in Threads, Named(t), Told(t),
           NEW n \in Notifiers, CallbackStep(n)
    PROVE  Named(t)' /\ Told(t)'
  <1>0. /\ ServerTypeOK /\ clients[t] \in ClientType /\ clients \in [Threads -> ClientType]
        /\ notices \in [Notifiers -> NoticeType] /\ notices[n] \in NoticeType /\ Shaped /\ OnlyManagers
        /\ targets = [k \in Notifiers |-> targets[k]]
    BY DEF ServerInv, ScopeInv, ServerTypeOK, CallsOK, ObserverTypeOK
  <1>1. /\ UNCHANGED <<threads, job, worker, scope>>
        /\ \A k \in Notifiers \ {n} : targets'[k] = targets[k]
    BY <1>0 DEF CallbackStep, Broadcast, EndCallback, scopeVars
  <1>2. \A k \in Notifiers \ {n} : notices'[k] = notices[k]
    BY <1>0 DEF CallbackStep, Broadcast, Enter, EndCallback, Leave
  <1>3. Shown(threads[t].scope)' = Shown(threads[t].scope) /\ threads'[t] = threads[t]
    BY <1>1 DEF Shown
  <1>4. ASSUME NEW r \in Scopes, Coming(t, r), clients'[t].id = clients[t].id,
               Carries(n, t, r) => Coming(t, r)' \/ Knows(t, r)' \/ ~clients'[t].listed
        PROVE  Coming(t, r)' \/ Knows(t, r)' \/ ~clients'[t].listed
    <2>1. CASE worker[r] = "decided"
      BY <1>1, <2>1 DEF Coming
    <2>2. ASSUME NEW v \in Threads, StartTells(v, r) PROVE Coming(t, r)'
      <3>1. StartTells(v, r)'
        BY <1>1, <2>2 DEF StartTells, Shown
      <3> QED  BY <3>1 DEF Coming
    <2>3. ASSUME NEW k \in Notifiers \ {n}, Carries(k, t, r) PROVE Coming(t, r)'
      <3>1. Carries(k, t, r)'
        BY <1>1, <1>2, <1>4, <2>3 DEF Carries, OnList, Shown
      <3> QED  BY <3>1 DEF Coming
    <2> QED  BY <1>4, <2>1, <2>2, <2>3 DEF Coming
  <1>5. ASSUME ClientKept(t),
               \A r \in Scopes : Listening(t) /\ r = threads[t].scope /\ Carries(n, t, r) =>
                   Coming(t, r)' \/ Knows(t, r)' \/ ~clients'[t].listed
        PROVE  Named(t)' /\ Told(t)'
    <2>1. ASSUME Listening(t), Coming(t, threads[t].scope)
          PROVE  \/ Coming(t, threads[t].scope)' \/ Knows(t, threads[t].scope)' \/ ~clients'[t].listed
      <3>1. PICK r \in Scopes : r = threads[t].scope
        BY <2>1, ListenersScope DEF Listening, Watching
      <3>2. Coming(t, r)' \/ Knows(t, r)' \/ ~clients'[t].listed
        BY <1>4, <1>5, <2>1, <3>1 DEF ClientKept
      <3>3. threads'[t].scope = r
        BY <1>3, <3>1
      <3>4. Coming(t, r)' => Coming(t, threads[t].scope)'
        BY <3>3 DEF Coming, StartTells, Carries, OnList, Shown
      <3>5. Knows(t, r)' => Knows(t, threads[t].scope)'
        BY <3>3 DEF Knows, Shown
      <3> QED  BY <3>2, <3>4, <3>5
    <2> QED  BY <1>3, <1>5, <2>1, ToldStays
  <1>6. CASE Broadcast(n)
    <2>1. clients' = clients /\ Enter(n)
      BY <1>6 DEF Broadcast
    <2>2. ClientKept(t)
      BY <2>1 DEF ClientKept
    <2>3. ASSUME NEW r \in Scopes, Listening(t), r = threads[t].scope, Carries(n, t, r)
          PROVE  Coming(t, r)'
      <3>1. /\ notices[n].of = r /\ r # Default /\ clients[t].owner = OwnerOf(r) /\ clients[t].listed
        BY <2>3, ListenersScope DEF Listening, Watching, Named, Carries
      <3>2. targets' = [targets EXCEPT ![n] = {[to |-> u, id |-> clients[u].id] : u \in Targets(OwnerOf(r))}]
        BY <1>6, <3>1 DEF Broadcast
      <3>3. t \in Targets(OwnerOf(r))
        BY <3>1 DEF Targets
      <3>4. targets'[n] = {[to |-> u, id |-> clients[u].id] : u \in Targets(OwnerOf(r))}
        BY <1>0, <3>2
      <3>5. [to |-> t, id |-> clients'[t].id] \in targets'[n]
        BY <2>1, <3>3, <3>4
      <3>6. notices'[n] # Silent /\ notices'[n].of = r /\ notices'[n].what = Shown(r)
        <4>1. PICK o \in notices[n].left :
                  notices' = [notices EXCEPT ![n].in = o, ![n].left = @ \ {o}]
          BY <2>1 DEF Enter
        <4>2. o = Server
          BY <1>0, <4>1 DEF NoticeType
        <4>3. PICK c : c = [notices[n] EXCEPT !.in = Server, !.left = notices[n].left \ {o}]
          OBVIOUS
        <4>4. notices'[n] = c
          BY <1>0, <4>1, <4>2, <4>3
        <4>5. c.in = Server /\ c.of = notices[n].of /\ c.what = notices[n].what
          BY <1>0, <4>3 DEF NoticeType
        <4> QED  BY <2>3, <4>4, <4>5, SilentFacts DEF Carries
      <3>7. Carries(n, t, r)'
        <4>1. Shown(r)' = Shown(r)
          BY <1>1 DEF Shown
        <4> QED  BY <3>5, <3>6, <4>1 DEF Carries, OnList
      <3> QED  BY <3>7 DEF Coming
    <2> QED  BY <1>5, <2>2, <2>3
  <1>7. CASE EndCallback(n)
    <2>1. /\ clients'[t] = IF OnList(n, t) THEN Sent(clients[t], notices[n].what) ELSE clients[t]
          /\ notices[n].in # None /\ notices[n].what \in Views \cup {None}
      BY <1>0, <1>7 DEF EndCallback, Leave, OnList, NoticeType
    <2>2. ClientKept(t)
      BY <1>0, <2>1, SentFacts DEF ClientKept
    <2>3. ASSUME NEW r \in Scopes, Carries(n, t, r)
          PROVE  Knows(t, r)' \/ ~clients'[t].listed
      <3>1. notices[n].left = {} /\ notices[n].what = Shown(r)
        BY <1>0, <2>1, <2>3 DEF Shaped, Carries
      <3>2. OnList(n, t)
        BY <2>3, <3>1 DEF Carries
      <3>3. ASSUME clients'[t].listed PROVE clients'[t].heard = clients[t].heard \cup ({Shown(r)} \ {"pending"})
        BY <1>0, <2>1, <3>1, <3>2, <3>3, SentFacts
      <3>4. Shown(r)' = Shown(r)
        BY <1>1 DEF Shown
      <3> QED  BY <3>3, <3>4 DEF Knows
    <2> QED  BY <1>5, <2>2, <2>3
  <1> QED
    BY <1>6, <1>7 DEF CallbackStep

LEMMA UpdatedScope ==
    ASSUME ServerInv, ScopeInv', rights' \subseteq rights, NEW t \in Threads, Named(t), Told(t),
           NEW s \in Scopes, ScopeStep(s)
    PROVE  Named(t)' /\ Told(t)'
  <1>0. /\ RuntimeTypeOK /\ job \in [Scopes -> Statuses] /\ JobFits(s) /\ s \in Notifiers
        /\ worker \in [Scopes -> {"idle", "analysing", "decided"}]
    BY ScopesAreManagers DEF ServerInv, ScopeInv, ScopesOK, RuntimeTypeOK, Coherent
  <1>1. UNCHANGED <<threads, clients, targets>>
    BY DEF ScopeStep, serverVars
  <1>2. ClientKept(t) /\ threads'[t] = threads[t]
    BY <1>1 DEF ClientKept
  <1>3. ASSUME \A k \in Notifiers : notices[k] # Silent => notices'[k] = notices[k],
               worker[threads[t].scope] = "decided" => worker'[threads[t].scope] = "decided",
               Listening(t) /\ HasRight(threads[t].scope) =>
                  \/ Shown(threads[t].scope)' = Shown(threads[t].scope)
                  \/ Shown(threads[t].scope)' = "pending"
                  \/ Coming(t, threads[t].scope)'
        PROVE  Named(t)' /\ Told(t)'
    BY <1>1, <1>2, <1>3, ToldQuiet
  <1>4. ASSUME Terminate PROVE Named(t)' /\ Told(t)'
    <2>1. UNCHANGED <<job, worker, notices>>
      BY <1>4 DEF Terminate, observerVars
    <2>2. Shown(threads[t].scope)' = Shown(threads[t].scope)
      BY <1>2, <2>1 DEF Shown
    <2> QED  BY <1>3, <2>1, <2>2
  <1>5. Listening(t) => threads[t].scope \in Scopes /\ leases[threads[t].scope] # {}
    BY ListenersScope DEF Listening, Watching
  <1>6. CASE Destroy(s)
    <2>1. UNCHANGED <<worker, notices>> /\ leases[s] = {} /\ job' = [job EXCEPT ![s] = "none"]
      BY <1>6 DEF Destroy, IsDying, observerVars
    <2>2. Listening(t) => Shown(threads[t].scope)' = Shown(threads[t].scope)
      <3>1. \A r \in Scopes \ {s} : job'[r] = job[r]
        BY <1>0, <2>1
      <3> QED  BY <1>2, <1>5, <2>1, <3>1 DEF Shown
    <2> QED  BY <1>3, <2>1, <2>2
  <1>7. CASE Take(s) /\ ~Terminate
    <2>1. /\ Notify(s, s, "pending") /\ worker[s] = "idle"
          /\ job' = [job EXCEPT ![s] = "running"] /\ worker' = [worker EXCEPT ![s] = "analysing"]
      BY <1>7 DEF Take, RecordAndNotify
    <2>2. \A k \in Notifiers : notices[k] # Silent => notices'[k] = notices[k]
      BY <1>0, <2>1, NotifyKeeps
    <2>3. /\ \A r \in Scopes \ {s} : job'[r] = job[r] /\ worker'[r] = worker[r]
          /\ job'[s] = "running"
      BY <1>0, <2>1
    <2>4. worker[threads[t].scope] = "decided" => worker'[threads[t].scope] = "decided"
      BY <1>0, <2>1
    <2>5. Listening(t) => Shown(threads[t].scope)' \in {Shown(threads[t].scope), "pending"}
      BY <1>2, <1>5, <2>3 DEF Shown, View
    <2> QED  BY <1>3, <2>2, <2>4, <2>5
  <1>8. CASE Decide(s)
    <2>1. UNCHANGED notices /\ worker' = [worker EXCEPT ![s] = "decided"] /\ \E v : job' = [job EXCEPT ![s] = v]
      BY <1>8 DEF Decide, observerVars
    <2>2. worker'[s] = "decided" /\ \A r \in Scopes \ {s} : job'[r] = job[r] /\ worker'[r] = worker[r]
      BY <1>0, <2>1
    <2>3. worker[threads[t].scope] = "decided" => worker'[threads[t].scope] = "decided"
      BY <1>0, <2>1
    <2>4. Listening(t) => Shown(threads[t].scope)' = Shown(threads[t].scope) \/ Coming(t, threads[t].scope)'
      <3>1. CASE threads[t].scope = s
        BY <1>2, <2>2, <3>1 DEF Coming
      <3>2. CASE threads[t].scope # s
        BY <1>2, <1>5, <2>2, <3>2 DEF Shown
      <3> QED  BY <3>1, <3>2
    <2> QED  BY <1>3, <2>1, <2>3, <2>4
  <1>9. CASE Report(s) /\ ~Terminate
    <2>1. /\ Notify(s, s, job[s]) /\ worker[s] = "decided" /\ worker' = [worker EXCEPT ![s] = "idle"]
          /\ job' = job /\ job[s] \in Final
      BY <1>0, <1>9 DEF Report, RecordAndNotify, JobFits
    <2>2. Shown(threads[t].scope)' = Shown(threads[t].scope)
      BY <1>2, <2>1 DEF Shown
    <2>3. \A k \in Notifiers : notices[k] # Silent => notices'[k] = notices[k]
      BY <1>0, <2>1, NotifyKeeps
    <2>4. CASE threads[t].scope # s
      <3>1. worker[threads[t].scope] = "decided" => worker'[threads[t].scope] = "decided"
        BY <1>0, <2>1, <2>4
      <3> QED  BY <1>3, <2>2, <2>3, <3>1
    <2>5. CASE threads[t].scope = s
      <3>1. Shown(s) = job[s]
        BY <2>1 DEF Shown, View, Final
      <3>2. ASSUME Listening(t) PROVE Coming(t, threads[t].scope)'
        <4>1. Notify(s, threads[t].scope, job[s]) /\ Shown(threads[t].scope)' = job[s]
          BY <2>1, <2>2, <2>5, <3>1
        <4> QED  BY <1>0, <1>2, <3>2, <4>1, NoticeCarries
      <3> QED  BY <1>2, <2>2, <3>2, ToldStays
    <2> QED  BY <2>4, <2>5
  <1> QED
    BY <1>4, <1>6, <1>7, <1>8, <1>9 DEF ScopeStep, WorkerStep

LEMMA UpdatedEnd ==
    ASSUME ServerInv, ScopeInv', rights' \subseteq rights, NEW t \in Threads, Named(t), Told(t),
           DefaultJob \/ Stop \/ EndStep \/ UNCHANGED vars
    PROVE  Named(t)' /\ Told(t)'
  <1>0. /\ ServerTypeOK /\ clients[t] \in ClientType /\ Default \in Notifiers /\ None \in Views \cup {None}
    BY ScopesAreManagers DEF ServerInv, ScopeInv, ServerTypeOK
  <1>1. UNCHANGED <<threads, targets, job, worker>>
    BY DEF DefaultJob, Stop, EndStep, RetireAll, Unobserve, EraseNext, Gone, Release, StopOnly, serverVars,
       vars, runtimeVars, scopeVars
  <1>2. \A k \in Notifiers : notices[k] # Silent => notices'[k] = notices[k]
    <2>1. CASE DefaultJob
      BY <1>0, <2>1, NotifyKeeps DEF DefaultJob
    <2>2. CASE Stop \/ EndStep \/ UNCHANGED vars
      BY <2>2 DEF Stop, EndStep, RetireAll, Unobserve, EraseNext, EraseObserver, Gone, Release, vars,
         runtimeVars, observerVars
    <2> QED  BY <2>1, <2>2
  <1>3. ClientKept(t)
    <2>1. CASE RetireAll
      BY <1>0, <2>1, SentFacts DEF RetireAll, ClientKept
    <2>2. CASE ~RetireAll
      <3>1. clients' = clients
        BY <2>2 DEF DefaultJob, Stop, EndStep, Unobserve, EraseNext, Gone, StopOnly, serverVars, vars
      <3> QED  BY <3>1 DEF ClientKept
    <2> QED  BY <2>1, <2>2
  <1>4. Shown(threads[t].scope)' = Shown(threads[t].scope)
    BY <1>1 DEF Shown
  <1> QED
    BY <1>1, <1>2, <1>3, <1>4, ToldQuiet

LEMMA UpdatedNext == ASSUME ServerInv, Updated, [Next]_vars PROVE Updated'
  <1>1. ScopeInv'
    BY ScopeNext DEF ServerInv, CallsOK
  <1>2. rights' \subseteq rights
    BY RightsShrink DEF vars, runtimeVars, databaseVars
  <1> SUFFICES ASSUME NEW t \in Threads PROVE Named(t)' /\ Told(t)'
    BY DEF Updated
  <1>3. Named(t) /\ Told(t)
    BY DEF Updated
  <1>4. ASSUME NEW u \in Threads, Accept(u) \/ ThreadStep(u) \/ PeerCloses(u)
        PROVE  Named(t)' /\ Told(t)'
    <2>1. CASE u = t
      BY <1>3, <1>4, <2>1, UpdatedOwn
    <2>2. CASE u # t
      BY <1>1, <1>2, <1>3, <1>4, <2>2, UpdatedOthers
    <2> QED  BY <2>1, <2>2
  <1>5. ASSUME NEW n \in Notifiers, CallbackStep(n) PROVE Named(t)' /\ Told(t)'
    BY <1>1, <1>2, <1>3, <1>5, UpdatedCallback
  <1>6. ASSUME NEW s \in Scopes, ScopeStep(s) PROVE Named(t)' /\ Told(t)'
    BY <1>1, <1>2, <1>3, <1>6, UpdatedScope
  <1>7. CASE DefaultJob \/ Stop \/ EndStep \/ UNCHANGED vars
    BY <1>1, <1>2, <1>3, <1>7, UpdatedEnd
  <1> QED
    BY <1>4, <1>5, <1>6, <1>7 DEF Next

LEMMA UpdatedInitially == Init => Updated
  BY DEF Init, Updated, Named, Told, Listening, NoThread

\* A websocket that is in its loop has heard the status its job rests in: whoever ends a job
\* tells it, and who begins to listen reads it only once updates reach it.
THEOREM NoMissedUpdateHolds == Spec => []NoMissedUpdate
  <1>1. Init => ServerInv /\ Updated
    BY ScopeInitially, CoherentInitially, CallsInitially, UpdatedInitially DEF ServerInv
  <1>2. ServerInv /\ Updated /\ [Next]_vars => (ServerInv /\ Updated)'
    BY ScopeNext, CoherentNext, CallsNext, UpdatedNext DEF ServerInv, CallsOK
  <1>3. ServerInv /\ Updated => NoMissedUpdate
    <2> SUFFICES ASSUME ServerInv, Updated, NEW t \in Threads, At(t, "loop"), clients[t].listed,
                        Settled(threads[t].scope), HasRight(threads[t].scope)
                 PROVE  Shown(threads[t].scope) \in clients[t].heard \cup {"pending"}
      BY DEF NoMissedUpdate
    <2>1. Knows(t, threads[t].scope) \/ Coming(t, threads[t].scope)
      BY DEF Updated, Told, Listening, At
    <2>2. ~Coming(t, threads[t].scope)
      BY DEF Settled, Coming, StartTells, Carries, At
    <2>3. threads[t].pc = "loop"
      BY DEF At
    <2> QED  BY <2>1, <2>2, <2>3 DEF Knows
  <1> QED
    BY <1>1, <1>2, <1>3, PTL DEF Spec

=============================================================================
