------------------------ MODULE HostedIdentityProofs ------------------------
(***************************************************************************)
(* HostedIdentity for any accounts, guests, games, connections and limits. *)
(* Everything rests on the row locks: what a transaction read under a lock *)
(* is still so when it writes, because every other writer of that row      *)
(* needs the lock as well.  Each property names what its transactions know *)
(* between two of their steps, and is proved from that knowledge.          *)
(*                                                                         *)
(* At the end KeyCache, which says whose bearer it is, for any kids,       *)
(* requests, documents and times.  It rests on what the times in the cache *)
(* stand for: lastAttempt for the beginning of the newest load, unless the *)
(* first successful one has just reset it, and the times of the missing    *)
(* kids for ends of loads.                                                 *)
(***************************************************************************)
EXTENDS HostedIdentity, KeyCache, TLAPS, FiniteSetTheorems, SequenceTheorems

\* A transaction is a record of these eleven fields.
TxFields == {"op", "pc", "owner", "guest", "game", "key", "issued", "past", "since", "seen",
             "locks"}
IsTx(t) == t = [f \in TxFields |-> t[f]]
TxShape == tx = [c \in Connections |-> tx[c]] /\ \A c \in Connections : IsTx(tx[c])

\* A row is locked by one transaction at a time.
Exclusive == \A c, d \in Connections : c # d => tx[c].locks \cap tx[d].locks = {}

\* A claim and a deletion work for an account, everything in the repository for a guest or one.
Actors ==
    /\ born \subseteq AccountIds
    /\ \A c \in Connections :
          /\ tx[c].op \in {"claim", "delete"} => tx[c].owner \in AccountIds
          /\ tx[c].op = "claim" => tx[c].guest \in Guests

Base == TxShape /\ Exclusive /\ Actors

Others(c) == \A d \in Connections \ {c} : tx'[d] = tx[d]

-----------------------------------------------------------------------------
(* The operators.                                                          *)

LEMMA IdleIsTx == /\ IsTx(Idle) /\ Idle.op = "idle" /\ Idle.pc = "" /\ Idle.locks = {}
  BY DEF Idle, IsTx, TxFields

LEMMA ConnectionsType == Identities \subseteq Connections /\ Repositories \subseteq Connections
  BY DEF Connections

\* The rows of accounts, of sessions and of imports are different rows.
LEMMA RowsDiffer ==
    ASSUME NEW a, NEW b
    PROVE  /\ AccountRow(a) = AccountRow(b) => a = b
           /\ SessionRow(a) = SessionRow(b) => a = b
           /\ ImportsOf(a) = ImportsOf(b) => a = b
  BY DEF AccountRow, SessionRow, ImportsOf

\* A step writes the transaction of its connection and no other.
LEMMA StepKeeps ==
    ASSUME TxShape, NEW c \in Connections, NEW t, IsTx(t), tx' = [tx EXCEPT ![c] = t]
    PROVE  TxShape' /\ tx'[c] = t /\ Others(c)
  BY DEF TxShape, Others

LEMMA EndKeeps ==
    ASSUME TxShape, NEW c \in Connections, End(c)
    PROVE  /\ TxShape' /\ Others(c)
           /\ tx'[c].op = "idle" /\ tx'[c].pc = "" /\ tx'[c].locks = {}
  BY IdleIsTx, StepKeeps DEF End, Step

\* A transaction takes rows that nobody else has locked.
LEMMA LocksTaken ==
    ASSUME TxShape, Exclusive, NEW c \in Connections, Others(c),
           \A row \in tx'[c].locks : row \in tx[c].locks \/ Free(c, row)
    PROVE  Exclusive'
  <1> SUFFICES ASSUME NEW d \in Connections, NEW e \in Connections, d # e,
                      NEW row, row \in tx'[d].locks, row \in tx'[e].locks
               PROVE  FALSE
    BY DEF Exclusive
  <1>1. CASE d = c
    <2>1. tx'[e] = tx[e]
      BY <1>1 DEF Others
    <2> QED  BY <1>1, <2>1 DEF Exclusive, Free
  <1>2. CASE e = c
    <2>1. tx'[d] = tx[d]
      BY <1>2 DEF Others
    <2> QED  BY <1>2, <2>1 DEF Exclusive, Free
  <1>3. CASE d # c /\ e # c
    BY <1>3 DEF Others, Exclusive
  <1> QED
    BY <1>1, <1>2, <1>3

\* Nobody else holds a row that one connection has locked or finds free.
LEMMA Alone ==
    ASSUME Exclusive, NEW c \in Connections, NEW d \in Connections, NEW row,
           row \in tx[c].locks, row \in tx[d].locks \/ Free(d, row)
    PROVE  c = d
  BY DEF Exclusive, Free

-----------------------------------------------------------------------------
(* What each step does to the transaction of its connection.               *)

LEMMA BeginKeeps ==
    ASSUME TxShape, NEW c \in Connections, NEW t, IsTx(t), Begin(c, t)
    PROVE  /\ TxShape' /\ tx'[c] = t /\ Others(c)
           /\ UNCHANGED <<identityVars, repositoryVars>>
  BY StepKeeps DEF Begin

LEMMA StartEnsureEffect ==
    ASSUME TxShape, NEW c \in Connections, StartEnsure(c)
    PROVE  /\ TxShape' /\ Others(c) /\ UNCHANGED <<identityVars, repositoryVars>>
           /\ tx'[c].op = "ensure" /\ tx'[c].pc = "receipts" /\ tx'[c].owner \in Subjects
           /\ tx'[c].seen = accounts[tx'[c].owner] /\ tx'[c].locks = EnsureLocks(tx'[c].owner)
           /\ \A row \in tx'[c].locks : Free(c, row)
  <1>1. PICK s \in Subjects, i \in 0 .. clock :
            /\ \A row \in EnsureLocks(s) : Free(c, row)
            /\ Begin(c, [Idle EXCEPT !.op = "ensure", !.pc = "receipts", !.owner = s, !.issued = i,
                         !.past = expired, !.seen = accounts[s], !.locks = EnsureLocks(s)])
    BY DEF StartEnsure
  <1> DEFINE t == [Idle EXCEPT !.op = "ensure", !.pc = "receipts", !.owner = s, !.issued = i,
                   !.past = expired, !.seen = accounts[s], !.locks = EnsureLocks(s)]
  <1>2. /\ IsTx(t) /\ t.op = "ensure" /\ t.pc = "receipts" /\ t.owner = s
        /\ t.seen = accounts[s] /\ t.locks = EnsureLocks(s)
    BY IdleIsTx DEF IsTx, TxFields
  <1>3. Begin(c, t)
    BY <1>1
  <1> HIDE DEF t
  <1> QED
    BY <1>1, <1>2, <1>3, BeginKeeps

LEMMA ReadReceiptsEffect ==
    ASSUME TxShape, NEW c \in Connections, ReadReceipts(c)
    PROVE  /\ TxShape' /\ Others(c) /\ UNCHANGED <<identityVars, repositoryVars>>
           /\ tx'[c].locks \subseteq tx[c].locks
           /\ \/ tx'[c].op = "idle"
              \/ /\ tx'[c].op = "ensure" /\ tx'[c].pc = "found"
                 /\ tx'[c].owner = tx[c].owner /\ tx'[c].issued = tx[c].issued
                 /\ tx'[c].past = tx[c].past
                 /\ tx'[c].seen = tx[c].seen /\ tx'[c].locks = tx[c].locks
                 /\ tx[c].seen # None /\ CutoffsOf(c)' = {}
              \/ /\ tx'[c].op = "ensure" /\ tx'[c].pc = "create" /\ tx'[c].since = clock
                 /\ CutoffsOf(c)' = {}
  <1> DEFINE t == [tx[c] EXCEPT !.pc = "found"]
             u == [tx[c] EXCEPT !.pc = "create", !.since = clock,
                   !.seen = IF Tombstones(c) = {} THEN None ELSE Latest(c).account]
  <1>1. IsTx(tx[c]) /\ tx[c].op = "ensure"
    BY DEF TxShape, ReadReceipts, At
  <1>2. /\ IsTx(t) /\ t.op = "ensure" /\ t.pc = "found" /\ t.owner = tx[c].owner
        /\ t.issued = tx[c].issued /\ t.past = tx[c].past /\ t.seen = tx[c].seen
        /\ t.locks = tx[c].locks
    BY <1>1 DEF IsTx, TxFields
  <1>3. /\ IsTx(u) /\ u.op = "ensure" /\ u.pc = "create" /\ u.locks = tx[c].locks
        /\ u.owner = tx[c].owner /\ u.issued = tx[c].issued /\ u.past = tx[c].past
        /\ u.since = clock
    BY <1>1 DEF IsTx, TxFields
  <1>4. receipts' = receipts /\ UNCHANGED <<identityVars, repositoryVars>>
    BY DEF ReadReceipts, identityVars
  <1>5. CASE End(c)
    BY <1>4, <1>5, EndKeeps
  <1>6. CASE tx' = [tx EXCEPT ![c] = t] /\ tx[c].seen # None /\ ~Predates(c)
    <2> HIDE DEF t
    <2>1. TxShape' /\ tx'[c] = t /\ Others(c)
      BY <1>2, <1>6, StepKeeps
    <2>2. CutoffsOf(c)' = CutoffsOf(c)
      BY <1>2, <1>4, <2>1 DEF CutoffsOf, Tombstones
    <2> QED  BY <1>2, <1>4, <1>6, <2>1, <2>2 DEF Predates
  <1>7. CASE tx' = [tx EXCEPT ![c] = u] /\ ~Predates(c)
    <2> HIDE DEF u
    <2>1. TxShape' /\ tx'[c] = u /\ Others(c)
      BY <1>3, <1>7, StepKeeps
    <2>2. CutoffsOf(c)' = CutoffsOf(c)
      BY <1>3, <1>4, <2>1 DEF CutoffsOf, Tombstones
    <2> QED  BY <1>3, <1>4, <1>7, <2>1, <2>2 DEF Predates
  <1> QED
    BY <1>5, <1>6, <1>7 DEF ReadReceipts, Step

LEMMA StartReserveEffect ==
    ASSUME TxShape, NEW c \in Connections, StartReserve(c)
    PROVE  /\ TxShape' /\ Others(c) /\ UNCHANGED <<identityVars, repositoryVars>>
           /\ tx'[c].op = "reserve" /\ tx'[c].guest \in Guests /\ tx'[c].game \in Games
           /\ \A row \in tx'[c].locks : Free(c, row)
  <1>1. PICK g \in Guests, x \in Games :
            /\ Free(c, SessionRow(g))
            /\ Begin(c, [Idle EXCEPT !.op = "reserve", !.pc = "write", !.guest = g, !.game = x,
                         !.locks = {SessionRow(g)}])
    BY DEF StartReserve
  <1> DEFINE t == [Idle EXCEPT !.op = "reserve", !.pc = "write", !.guest = g, !.game = x,
                   !.locks = {SessionRow(g)}]
  <1>2. IsTx(t) /\ t.op = "reserve" /\ t.guest = g /\ t.game = x /\ t.locks = {SessionRow(g)}
    BY IdleIsTx DEF IsTx, TxFields
  <1>3. Begin(c, t)
    BY <1>1
  <1> HIDE DEF t
  <1> QED
    BY <1>1, <1>2, <1>3, BeginKeeps

LEMMA StartClaimEffect ==
    ASSUME TxShape, NEW c \in Connections, StartClaim(c)
    PROVE  /\ TxShape' /\ Others(c) /\ UNCHANGED <<identityVars, repositoryVars>>
           /\ tx'[c].op = "claim" /\ tx'[c].pc = "receipt"
           /\ tx'[c].guest \in Guests /\ tx'[c].owner \in born
           /\ \A row \in tx'[c].locks : Free(c, row)
  <1>1. PICK g \in Guests, a \in born, k \in Keys :
            /\ Free(c, AccountRow(a))
            /\ Begin(c, [Idle EXCEPT !.op = "claim", !.pc = "receipt", !.guest = g, !.owner = a,
                         !.key = k, !.locks = {AccountRow(a)}])
    BY DEF StartClaim
  <1> DEFINE t == [Idle EXCEPT !.op = "claim", !.pc = "receipt", !.guest = g, !.owner = a,
                   !.key = k, !.locks = {AccountRow(a)}]
  <1>2. /\ IsTx(t) /\ t.op = "claim" /\ t.pc = "receipt" /\ t.guest = g /\ t.owner = a
        /\ t.locks = {AccountRow(a)}
    BY IdleIsTx DEF IsTx, TxFields
  <1>3. Begin(c, t)
    BY <1>1
  <1> HIDE DEF t
  <1> QED
    BY <1>1, <1>2, <1>3, BeginKeeps

LEMMA LockSessionEffect ==
    ASSUME TxShape, NEW c \in Connections, LockSession(c)
    PROVE  /\ TxShape' /\ Others(c) /\ UNCHANGED <<identityVars, repositoryVars>>
           /\ \A row \in tx'[c].locks : row \in tx[c].locks \/ Free(c, row)
           /\ \/ tx'[c].op = "idle"
              \/ /\ tx[c].op = "claim" /\ tx'[c].op = "claim" /\ tx'[c].pc = "transfer"
                 /\ tx'[c].guest = tx[c].guest /\ tx'[c].owner = tx[c].owner
                 /\ tx'[c].seen = sessions[tx[c].guest].by
                 /\ SessionRow(tx[c].guest) \in tx'[c].locks
                 /\ \/ sessions[tx[c].guest].state = "open"
                    \/ sessions[tx[c].guest].by = tx[c].owner
  <1> DEFINE g == tx[c].guest
             t == [tx[c] EXCEPT !.pc = "transfer", !.seen = sessions[g].by,
                   !.locks = @ \cup SessionLocks(c)]
  <1>1. IsTx(tx[c]) /\ tx[c].op = "claim" /\ Free(c, SessionRow(g))
    BY DEF TxShape, LockSession, At
  <1>2. /\ IsTx(t) /\ t.op = "claim" /\ t.pc = "transfer" /\ t.guest = g /\ t.owner = tx[c].owner
        /\ t.seen = sessions[g].by /\ t.locks = tx[c].locks \cup {SessionRow(g)}
    BY <1>1 DEF IsTx, TxFields, SessionLocks
  <1>3. CASE End(c)
    BY <1>3, EndKeeps DEF LockSession
  <1>4. CASE /\ tx' = [tx EXCEPT ![c] = t]
             /\ sessions[g].state = "open" \/ sessions[g].by = tx[c].owner
    <2>1. UNCHANGED <<identityVars, repositoryVars>>
      BY DEF LockSession
    <2> HIDE DEF t
    <2> QED  BY <1>1, <1>2, <1>4, <2>1, StepKeeps
  <1> QED
    BY <1>3, <1>4 DEF LockSession, Step

LEMMA StartDeleteEffect ==
    ASSUME TxShape, NEW c \in Connections, StartDelete(c)
    PROVE  /\ TxShape' /\ Others(c) /\ UNCHANGED <<identityVars, repositoryVars>>
           /\ tx'[c].op = "delete" /\ tx'[c].owner \in born /\ Exists(tx'[c].owner)
           /\ tx'[c].locks = {AccountRow(tx'[c].owner)}
           /\ \A row \in tx'[c].locks : Free(c, row)
  <1>1. PICK a \in born, k \in Keys :
            /\ Exists(a) /\ Free(c, AccountRow(a))
            /\ Begin(c, [Idle EXCEPT !.op = "delete", !.pc = "write", !.owner = a, !.key = k,
                         !.locks = {AccountRow(a)}])
    BY DEF StartDelete
  <1> DEFINE t == [Idle EXCEPT !.op = "delete", !.pc = "write", !.owner = a, !.key = k,
                   !.locks = {AccountRow(a)}]
  <1>2. IsTx(t) /\ t.op = "delete" /\ t.owner = a /\ t.locks = {AccountRow(a)}
    BY IdleIsTx DEF IsTx, TxFields
  <1>3. Begin(c, t)
    BY <1>1
  <1> HIDE DEF t
  <1> QED
    BY <1>1, <1>2, <1>3, BeginKeeps

\* A call of the repository locks nothing when it begins.
LEMMA CallEffect ==
    ASSUME TxShape, NEW c \in Connections, NEW op, NEW o, NEW x, NEW extra, Call(c, op, o, x, extra)
    PROVE  /\ TxShape' /\ Others(c) /\ UNCHANGED <<identityVars, repositoryVars>>
           /\ tx'[c].op = op /\ tx'[c].pc = "begun" /\ tx'[c].owner = o /\ tx'[c].game = x
           /\ tx'[c].locks = {}
  <1> DEFINE t == [Idle EXCEPT !.op = op, !.pc = "begun", !.owner = o, !.game = x, !.key = extra]
  <1>1. /\ IsTx(t) /\ t.op = op /\ t.pc = "begun" /\ t.owner = o /\ t.game = x /\ t.locks = {}
    BY IdleIsTx DEF IsTx, TxFields
  <1>2. Begin(c, t)
    BY DEF Call
  <1> HIDE DEF t
  <1> QED
    BY <1>1, <1>2, BeginKeeps

LEMMA CheckImportEffect ==
    ASSUME TxShape, NEW c \in Connections, CheckImport(c)
    PROVE  /\ TxShape' /\ Others(c) /\ UNCHANGED <<identityVars, repositoryVars>>
           /\ \A row \in tx'[c].locks : Free(c, row)
           /\ \/ tx'[c].op = "idle"
              \/ /\ tx[c].op = "add" /\ tx'[c].op = "add" /\ tx'[c].pc = "write"
                 /\ tx'[c].owner = tx[c].owner /\ tx'[c].game = tx[c].game
                 /\ tx'[c].locks = {ImportsOf(tx[c].owner)}
                 /\ ~(Cardinality(Has(tx[c].owner)) >= StorageLimit)
  <1> DEFINE o == tx[c].owner
             t == [tx[c] EXCEPT !.pc = "write", !.locks = ImportLocks(o)]
  <1>1. IsTx(tx[c]) /\ tx[c].op = "add" /\ \A row \in ImportLocks(o) : Free(c, row)
    BY DEF TxShape, CheckImport, At
  <1>2. /\ IsTx(t) /\ t.op = "add" /\ t.pc = "write" /\ t.owner = o /\ t.game = tx[c].game
        /\ t.locks = {ImportsOf(o)} /\ \A row \in t.locks : Free(c, row)
    BY <1>1 DEF IsTx, TxFields, ImportLocks
  <1>3. CASE End(c)
    BY <1>3, EndKeeps DEF CheckImport
  <1>4. CASE tx' = [tx EXCEPT ![c] = t] /\ ~(Cardinality(Has(o)) >= StorageLimit)
    <2>1. UNCHANGED <<identityVars, repositoryVars>>
      BY DEF CheckImport
    <2> HIDE DEF t
    <2> QED  BY <1>1, <1>2, <1>4, <2>1, StepKeeps
  <1> QED
    BY <1>3, <1>4 DEF CheckImport, Step

LEMMA RepositoryStarts ==
    ASSUME TxShape, NEW c \in Connections, StartAdd(c) \/ StartRecord(c) \/ StartSave(c)
    PROVE  /\ TxShape' /\ Others(c) /\ UNCHANGED <<identityVars, repositoryVars>>
           /\ tx'[c].op \in {"add", "record", "save"} /\ tx'[c].pc = "begun" /\ tx'[c].locks = {}
           /\ tx'[c].op # "add" /\ tx'[c].owner \in Guests =>
                 <<tx'[c].owner, tx'[c].game>> \in permits
  <1>1. CASE StartAdd(c)
    <2>1. PICK o \in Guests \cup born, x \in Games : Call(c, "add", o, x, None)
      BY <1>1 DEF StartAdd
    <2> QED  BY <2>1, CallEffect
  <1>2. CASE StartRecord(c)
    <2>1. PICK p \in owned, status \in Statuses :
              Allowed(p[1], p[2]) /\ Call(c, "record", p[1], p[2], status)
      BY <1>2 DEF StartRecord
    <2> QED  BY <2>1, CallEffect DEF Allowed
  <1>3. CASE StartSave(c)
    <2>1. PICK p \in owned, compatibility \in {"shallow", "review"} :
              Allowed(p[1], p[2]) /\ Call(c, "save", p[1], p[2], compatibility)
      BY <1>3 DEF StartSave
    <2> QED  BY <2>1, CallEffect DEF Allowed
  <1> QED
    BY <1>1, <1>2, <1>3

\* The steps that commit, and those that give up for good.
Commits(c) == \/ Found(c) \/ Create(c) \/ Reserve(c) \/ ReplayClaim(c) \/ AlreadyClaimed(c)
              \/ Transfer(c) \/ ReplayDelete(c) \/ FailDelete(c) \/ Delete(c)
              \/ Import(c) \/ Record(c) \/ Save(c)

LEMMA CommitsEnd ==
    ASSUME TxShape, NEW c \in Connections, Commits(c)
    PROVE  /\ TxShape' /\ Others(c)
           /\ tx'[c].op = "idle" /\ tx'[c].pc = "" /\ tx'[c].locks = {}
  <1>1. End(c)
    BY DEF Commits, Found, Create, Reserve, ReplayClaim, AlreadyClaimed, Transfer, ReplayDelete,
           FailDelete, Delete, Import, Record, Save
  <1> QED
    BY <1>1, EndKeeps

\* What a connection may do, by what becomes of its transaction.
Starts(c) == \/ StartEnsure(c) \/ StartReserve(c) \/ StartClaim(c) \/ StartDelete(c)
             \/ StartAdd(c) \/ StartRecord(c) \/ StartSave(c)
Proceeds(c) == ReadReceipts(c) \/ LockSession(c) \/ CheckImport(c)

LEMMA StepsOfNext ==
    ASSUME Next
    PROVE  \/ \E c \in Connections : Starts(c) \/ Proceeds(c) \/ Commits(c) \/ CreateGuest(c)
           \/ Expire \/ UNCHANGED vars
  BY ConnectionsType DEF Next, Identity, Repository, Ensure, Claim, Remove, Starts, Proceeds, Commits

LEMMA StartsAndProceeds ==
    ASSUME TxShape, NEW c \in Connections, Starts(c) \/ Proceeds(c)
    PROVE  /\ TxShape' /\ Others(c) /\ UNCHANGED <<identityVars, repositoryVars>>
           /\ \A row \in tx'[c].locks : row \in tx[c].locks \/ Free(c, row)
  BY StartEnsureEffect, StartReserveEffect, StartClaimEffect, StartDeleteEffect, RepositoryStarts,
     ReadReceiptsEffect, LockSessionEffect, CheckImportEffect DEF Starts, Proceeds

-----------------------------------------------------------------------------
(* Locks are exclusive.                                                    *)

LEMMA DrawnIsNew == AccountIds \ born # {} => Drawn \in AccountIds
  BY DEF Drawn

LEMMA BaseInit == Init => Base
  <1> SUFFICES ASSUME Init PROVE Base
    OBVIOUS
  <1>1. tx = [c \in Connections |-> Idle] /\ born = {}
    BY DEF Init
  <1> QED
    BY <1>1, IdleIsTx DEF Base, TxShape, Exclusive, Actors

LEMMA ActorsStart ==
    ASSUME Base, NEW c \in Connections, Starts(c) \/ Proceeds(c)
    PROVE  /\ tx'[c].op \in {"claim", "delete"} => tx'[c].owner \in AccountIds
           /\ tx'[c].op = "claim" => tx'[c].guest \in Guests
  <1> USE DEF Base, Actors
  <1>1. CASE StartEnsure(c) \/ StartReserve(c) \/ StartAdd(c) \/ StartRecord(c) \/ StartSave(c)
    BY <1>1, StartEnsureEffect, StartReserveEffect, RepositoryStarts
  <1>2. CASE StartClaim(c) \/ StartDelete(c)
    BY <1>2, StartClaimEffect, StartDeleteEffect
  <1>3. CASE ReadReceipts(c) \/ CheckImport(c)
    BY <1>3, ReadReceiptsEffect, CheckImportEffect
  <1>4. CASE LockSession(c)
    BY <1>4, LockSessionEffect
  <1> QED
    BY <1>1, <1>2, <1>3, <1>4 DEF Starts, Proceeds

LEMMA BornKept ==
    ASSUME born \subseteq AccountIds, NEW c \in Connections, Commits(c) PROVE born' \subseteq AccountIds
  <1>1. CASE Create(c)
    BY <1>1, DrawnIsNew DEF Create
  <1>2. CASE ~Create(c)
    BY <1>2 DEF Commits, Found, Reserve, ReplayClaim, AlreadyClaimed, Transfer, ReplayDelete,
           FailDelete, Delete, Import, Record, Save, identityVars, unclaimedVars
  <1> QED
    BY <1>1, <1>2

LEMMA BaseNext == Base /\ [Next]_vars => Base'
  <1> SUFFICES ASSUME Base, [Next]_vars PROVE Base'
    OBVIOUS
  <1>1. ASSUME NEW c \in Connections, Starts(c) \/ Proceeds(c) PROVE Base'
    <2>1. /\ TxShape' /\ Others(c) /\ born' = born
          /\ \A row \in tx'[c].locks : row \in tx[c].locks \/ Free(c, row)
      BY <1>1, StartsAndProceeds DEF Base, identityVars
    <2>2. Exclusive'
      BY <2>1, LocksTaken DEF Base
    <2>3. Actors'
      BY <1>1, <2>1, ActorsStart DEF Base, Actors, Others
    <2> QED  BY <2>1, <2>2, <2>3 DEF Base
  <1>2. ASSUME NEW c \in Connections, Commits(c) PROVE Base'
    <2>1. TxShape' /\ Others(c) /\ tx'[c].op = "idle" /\ tx'[c].locks = {}
      BY <1>2, CommitsEnd DEF Base
    <2>2. Exclusive'
      BY <2>1, LocksTaken DEF Base
    <2>3. Actors'
      BY <1>2, <2>1, BornKept DEF Base, Actors, Others
    <2> QED  BY <2>1, <2>2, <2>3 DEF Base
  <1>3. CASE tx' = tx /\ born' = born
    BY <1>3 DEF Base, TxShape, Exclusive, Actors
  <1>4. ASSUME NEW c \in Connections, CreateGuest(c) PROVE Base'
    BY <1>3, <1>4 DEF CreateGuest
  <1>5. CASE Expire
    BY <1>3, <1>5 DEF Expire
  <1>6. CASE UNCHANGED vars
    BY <1>3, <1>6 DEF vars, identityVars
  <1> QED
    BY <1>1, <1>2, <1>4, <1>5, <1>6, StepsOfNext

-----------------------------------------------------------------------------
(* Old bearers stay dead.                                                  *)

\* ensure_account knows the account it found under the lock of its row, and that no
\* deletion on record is as late as the bearer; if it found none, that such a deletion was
\* made after it read the receipts.
Ensurer(c) ==
    tx[c].op = "ensure" =>
        /\ tx[c].pc \in {"receipts", "found"} =>
              /\ tx[c].owner \in Subjects
              /\ tx[c].seen # None => /\ accounts[tx[c].owner] = tx[c].seen
                                      /\ AccountRow(tx[c].seen) \in tx[c].locks
        /\ tx[c].pc = "found" => tx[c].seen # None /\ CutoffsOf(c) = {}
        /\ tx[c].pc = "create" => /\ tx[c].since \in Nat /\ tx[c].since <= clock
                                  /\ \A at \in CutoffsOf(c) : at >= tx[c].since

\* delete_account knows that its account exists.
Deleter(c) ==
    tx[c].op = "delete" =>
        /\ AccountRow(tx[c].owner) \in tx[c].locks
        /\ \E s \in Subjects : accounts[s] = tx[c].owner

BearersInv ==
    /\ Base /\ accounts = [s \in Subjects |-> accounts[s]] /\ clock \in Nat
    /\ \A c \in Connections : Ensurer(c) /\ Deleter(c)

LEMMA BearersInit == Init => BearersInv
  <1> SUFFICES ASSUME Init PROVE BearersInv
    OBVIOUS
  <1>1. tx = [c \in Connections |-> Idle] /\ accounts = [s \in Subjects |-> None] /\ clock = 0
    BY DEF Init
  <1> QED
    BY <1>1, IdleIsTx, BaseInit DEF BearersInv, Ensurer, Deleter

\* Receipts that go take cutoffs with them; those that come bring their own.
LEMMA CutoffsShrink ==
    ASSUME NEW c, tx'[c] = tx[c], receipts' \subseteq receipts
    PROVE  CutoffsOf(c)' \subseteq CutoffsOf(c)
  <1>1. \A r \in Tombstones(c)' : r \in Tombstones(c)
    BY DEF Tombstones
  <1> QED
    BY <1>1 DEF CutoffsOf

\* Where no account changes and no receipt is new, only the step's own transaction matters.
LEMMA BearersQuiet ==
    ASSUME BearersInv, Base', NEW c \in Connections, Others(c), clock' = clock,
           accounts' = accounts, receipts' \subseteq receipts, Ensurer(c)', Deleter(c)'
    PROVE  BearersInv'
  <1>1. ASSUME NEW d \in Connections \ {c} PROVE Ensurer(d)' /\ Deleter(d)'
    <2>1. tx'[d] = tx[d] /\ Ensurer(d) /\ Deleter(d)
      BY DEF Others, BearersInv
    <2>2. CutoffsOf(d)' \subseteq CutoffsOf(d)
      BY <2>1, CutoffsShrink
    <2>3. Deleter(d)'
      BY <2>1 DEF Deleter
    <2>4. Ensurer(d)'
      BY <2>1, <2>2 DEF Ensurer
    <2> QED  BY <2>3, <2>4
  <1> QED
    BY <1>1 DEF BearersInv

LEMMA BearersStart ==
    ASSUME BearersInv, NEW c \in Connections, Starts(c) \/ Proceeds(c)
    PROVE  Ensurer(c)' /\ Deleter(c)'
  <1> USE DEF BearersInv, Base
  <1>1. CASE StartEnsure(c)
    <2>1. /\ tx'[c].op = "ensure" /\ tx'[c].pc = "receipts" /\ tx'[c].owner \in Subjects
          /\ tx'[c].seen = accounts[tx'[c].owner] /\ tx'[c].locks = EnsureLocks(tx'[c].owner)
          /\ accounts' = accounts
      BY <1>1, StartEnsureEffect DEF identityVars
    <2>2. tx'[c].seen # None => AccountRow(tx'[c].seen) \in tx'[c].locks
      BY <2>1 DEF EnsureLocks
    <2> QED  BY <2>1, <2>2 DEF Ensurer, Deleter
  <1>2. CASE StartDelete(c)
    <2>1. /\ tx'[c].op = "delete" /\ Exists(tx'[c].owner)
          /\ tx'[c].locks = {AccountRow(tx'[c].owner)} /\ accounts' = accounts
      BY <1>2, StartDeleteEffect DEF identityVars
    <2>2. \E s \in Subjects : accounts[s] = tx'[c].owner
      BY <2>1 DEF Exists, Range
    <2> QED  BY <2>1, <2>2 DEF Ensurer, Deleter
  <1>3. CASE ReadReceipts(c)
    <2>1. UNCHANGED <<accounts, receipts, clock>>
      BY <1>3, ReadReceiptsEffect DEF identityVars
    <2>2. tx[c].op = "ensure" /\ tx[c].pc = "receipts" /\ Ensurer(c)
      BY <1>3 DEF ReadReceipts, At
    <2>3. Deleter(c)'
      BY <1>3, ReadReceiptsEffect DEF Deleter
    <2>4. Ensurer(c)'
      BY <1>3, <2>1, <2>2, ReadReceiptsEffect DEF Ensurer
    <2> QED  BY <2>3, <2>4
  <1>4. CASE StartReserve(c) \/ StartClaim(c) \/ StartAdd(c) \/ StartRecord(c) \/ StartSave(c)
    <2>1. tx'[c].op \in {"reserve", "claim", "add", "record", "save"}
      BY <1>4, StartReserveEffect, StartClaimEffect, RepositoryStarts
    <2> QED  BY <2>1 DEF Ensurer, Deleter
  <1>5. CASE LockSession(c) \/ CheckImport(c)
    <2>1. tx'[c].op \in {"idle", "claim", "add"}
      BY <1>5, LockSessionEffect, CheckImportEffect
    <2> QED  BY <2>1 DEF Ensurer, Deleter
  <1> QED
    BY <1>1, <1>2, <1>3, <1>4, <1>5 DEF Starts, Proceeds

\* A created account takes the place of none, which nobody has found.
LEMMA BearersCreate ==
    ASSUME BearersInv, Base', NEW c \in Connections, Create(c) PROVE BearersInv'
  <1> DEFINE s == tx[c].owner
  <1>1. /\ Others(c) /\ tx'[c].op = "idle" /\ receipts' \subseteq receipts /\ clock' = clock
        /\ \/ accounts' = accounts
           \/ accounts[s] = None /\ \E a : accounts' = [accounts EXCEPT ![s] = a]
    <2>1. Others(c) /\ tx'[c].op = "idle"
      BY CommitsEnd DEF BearersInv, Base, Commits
    <2> QED  BY <2>1 DEF Create, Purge
  <1>2. accounts' = [t \in Subjects |-> accounts'[t]]
    BY <1>1 DEF BearersInv
  <1>3. \A t \in Subjects : accounts[t] # None => accounts'[t] = accounts[t]
    BY <1>1 DEF BearersInv
  <1>4. ASSUME NEW d \in Connections PROVE Ensurer(d)' /\ Deleter(d)'
    <2>1. CASE d = c
      BY <1>1, <2>1 DEF Ensurer, Deleter
    <2>2. CASE d # c
      <3>1. tx'[d] = tx[d] /\ Ensurer(d) /\ Deleter(d)
        BY <1>1, <2>2 DEF Others, BearersInv
      <3>2. CutoffsOf(d)' \subseteq CutoffsOf(d)
        BY <1>1, <3>1, CutoffsShrink
      <3>3. Ensurer(d)'
        BY <1>1, <1>3, <3>1, <3>2 DEF Ensurer
      <3>4. tx[d].op = "delete" => tx[d].owner # None
        BY HostedConstants DEF BearersInv, Base, Actors
      <3>5. Deleter(d)'
        BY <1>3, <3>1, <3>4 DEF Deleter
      <3> QED  BY <3>3, <3>5
    <2> QED  BY <2>1, <2>2
  <1> QED
    BY <1>1, <1>2, <1>4 DEF BearersInv

\* A deletion has the row of its account locked, so nobody else has found that account; a
\* sign-in that found none read the receipts before.
LEMMA BearersDelete ==
    ASSUME BearersInv, Base', NEW c \in Connections, Delete(c) PROVE BearersInv'
  <1> DEFINE a == tx[c].owner
             s == SubjectOf(a)
             new == [subject |-> s, account |-> a, key |-> tx[c].key, at |-> clock]
  <1>1. /\ Others(c) /\ tx'[c].op = "idle" /\ accounts' = [accounts EXCEPT ![s] = None]
        /\ receipts' = receipts \cup {new} /\ clock' = clock + 1
    <2>1. Others(c) /\ tx'[c].op = "idle"
      BY CommitsEnd DEF BearersInv, Base, Commits
    <2>2. /\ accounts' = [accounts EXCEPT ![s] = None]
          /\ receipts' = receipts \cup {new} /\ clock' = clock + 1
      BY DEF Delete
    <2> QED  BY <2>1, <2>2
  <1>2. AccountRow(a) \in tx[c].locks /\ s \in Subjects /\ accounts[s] = a
    BY DEF Delete, At, BearersInv, Deleter, SubjectOf
  <1>3. new.subject = s /\ new.at = clock
    OBVIOUS
  <1> HIDE DEF s, new
  <1>4. \A t \in Subjects \ {s} : accounts'[t] = accounts[t]
    BY <1>1 DEF BearersInv
  <1>5. ASSUME NEW d \in Connections, d # c PROVE Ensurer(d)' /\ Deleter(d)'
    <2>1. tx'[d] = tx[d] /\ Ensurer(d) /\ Deleter(d)
      BY <1>1, <1>5 DEF Others, BearersInv
    <2>2. AccountRow(a) \notin tx[d].locks
      BY <1>2, <1>5, Alone DEF BearersInv, Base
    <2>3. \A r \in Tombstones(d)' : r \in Tombstones(d) \/ (r = new /\ tx[d].owner = s)
      BY <1>1, <1>3, <2>1 DEF Tombstones
    <2>4. CutoffsOf(d)' \subseteq CutoffsOf(d) \cup {clock}
      BY <1>3, <2>1, <2>3 DEF CutoffsOf
    <2>5. tx[d].owner # s => CutoffsOf(d)' \subseteq CutoffsOf(d)
      BY <2>1, <2>3 DEF CutoffsOf
    <2>6. ASSUME tx[d].op = "ensure", tx[d].pc \in {"receipts", "found"} PROVE Ensurer(d)'
      <3>1. tx[d].seen # None => tx[d].owner # s
        BY <1>2, <2>1, <2>2, <2>6 DEF Ensurer
      <3> QED  BY <1>4, <2>1, <2>5, <2>6, <3>1 DEF Ensurer
    <2>7. ASSUME tx[d].op = "ensure", tx[d].pc = "create" PROVE Ensurer(d)'
      BY <1>1, <2>1, <2>4, <2>7 DEF Ensurer, BearersInv
    <2>8. Ensurer(d)'
      BY <2>1, <2>6, <2>7 DEF Ensurer
    <2>9. Deleter(d)'
      BY <1>2, <1>4, <2>1, <2>2 DEF Deleter
    <2> QED  BY <2>8, <2>9
  <1>6. Ensurer(c)' /\ Deleter(c)'
    BY <1>1 DEF Ensurer, Deleter
  <1>7. accounts' = [t \in Subjects |-> accounts'[t]] /\ clock' \in Nat
    BY <1>1 DEF BearersInv
  <1> QED
    BY <1>5, <1>6, <1>7 DEF BearersInv

LEMMA BearersNext == BearersInv /\ [Next]_vars => BearersInv'
  <1> SUFFICES ASSUME BearersInv, [Next]_vars PROVE BearersInv'
    OBVIOUS
  <1>1. Base'
    BY BaseNext DEF BearersInv
  <1>2. ASSUME NEW c \in Connections, Starts(c) \/ Proceeds(c) PROVE BearersInv'
    <2>1. Others(c) /\ UNCHANGED <<accounts, receipts, clock>>
      BY <1>2, StartsAndProceeds DEF BearersInv, Base, identityVars
    <2>2. Ensurer(c)' /\ Deleter(c)'
      BY <1>2, BearersStart
    <2> QED  BY <1>1, <2>1, <2>2, BearersQuiet
  <1>3. ASSUME NEW c \in Connections, Commits(c) PROVE BearersInv'
    <2>1. CASE Create(c) \/ Delete(c)
      BY <1>1, <2>1, BearersCreate, BearersDelete
    <2>2. CASE ~Create(c) /\ ~Delete(c)
      <3>1. Others(c) /\ tx'[c].op = "idle"
        BY <1>3, CommitsEnd DEF BearersInv, Base
      <3>2. accounts' = accounts /\ receipts' \subseteq receipts /\ clock' = clock
        BY <1>3, <2>2 DEF Commits, Found, Purge, Reserve, ReplayClaim, AlreadyClaimed, Transfer,
           ReplayDelete, FailDelete, Import, Record, Save, identityVars, unclaimedVars
      <3>3. Ensurer(c)' /\ Deleter(c)'
        BY <3>1 DEF Ensurer, Deleter
      <3> QED  BY <1>1, <3>1, <3>2, <3>3, BearersQuiet
    <2> QED  BY <2>1, <2>2
  <1>4. CASE tx' = tx /\ accounts' = accounts /\ receipts' = receipts /\ clock' = clock
    <2>1. \A c \in Connections : Ensurer(c)' /\ Deleter(c)'
      BY <1>4, CutoffsShrink DEF BearersInv, Ensurer, Deleter
    <2> QED  BY <1>1, <1>4, <2>1 DEF BearersInv
  <1>5. ASSUME NEW c \in Connections, CreateGuest(c) PROVE BearersInv'
    BY <1>4, <1>5 DEF CreateGuest
  <1>6. CASE Expire
    BY <1>4, <1>6 DEF Expire
  <1>7. CASE UNCHANGED vars
    BY <1>4, <1>7 DEF vars, identityVars
  <1> QED
    BY <1>2, <1>3, <1>5, <1>6, <1>7, StepsOfNext

\* ensure_account, when it finds the account, hands it to no bearer that a deletion on record
\* predates, whatever deletions, creations and other bearers run between its statements;
\* when it finds none, the deletions it has not heard of are those since it read the receipts.
THEOREM BearersStayDead == Spec => []OldBearersStayDead
  <1>1. BearersInv => OldBearersStayDead
    BY ConnectionsType DEF BearersInv, Ensurer, OldBearersStayDead, At, Predates
  <1> QED
    BY <1>1, BearersInit, BearersNext, PTL DEF Spec

-----------------------------------------------------------------------------
(* A guest is claimed once.                                                *)

SessionType == [state : {"none", "open", "expired", "claimed", "gone"}, by : AccountIds \cup {None}]

\* A claim that has locked the session knows who claimed it: nobody, or its own account.
Claimer(c) ==
    tx[c].op = "claim" /\ tx[c].pc = "transfer" =>
        /\ SessionRow(tx[c].guest) \in tx[c].locks
        /\ IF tx[c].seen = None THEN sessions[tx[c].guest].state \in {"open", "expired"}
           ELSE sessions[tx[c].guest].by = tx[c].owner

\* A returned receipt names the account that the session names, as long as that exists.
ReceiptsTrue ==
    \A p \in claims : /\ p.guest \in Guests
                      /\ sessions[p.guest].state \in {"claimed", "gone"}
                      /\ sessions[p.guest].by \in {p.account, None}

ClaimsInv ==
    /\ Base /\ sessions \in [Guests -> SessionType]
    /\ \A g \in Guests : sessions[g].by # None <=> sessions[g].state = "claimed"
    /\ \A c \in Connections : Claimer(c)
    /\ \A r \in records : r.receipt \in claims
    /\ ReceiptsTrue /\ ClaimedOnce

LEMMA ClaimsInit == Init => ClaimsInv
  <1> SUFFICES ASSUME Init PROVE ClaimsInv
    OBVIOUS
  <1>1. /\ tx = [c \in Connections |-> Idle] /\ claims = {} /\ records = {}
        /\ sessions \in [Guests -> {NoSession, [NoSession EXCEPT !.state = "open"]}]
    BY DEF Init
  <1>2. NoSession = [state |-> "none", by |-> None]
    BY DEF NoSession
  <1>3. [NoSession EXCEPT !.state = "open"] = [state |-> "open", by |-> None]
    BY <1>2
  <1>4. \A g \in Guests : sessions[g] \in SessionType /\ sessions[g].by = None
                          /\ sessions[g].state # "claimed"
    BY <1>1, <1>2, <1>3 DEF SessionType
  <1>5. sessions \in [Guests -> SessionType]
    BY <1>1, <1>4
  <1> QED
    BY <1>1, <1>4, <1>5, IdleIsTx, BaseInit DEF ClaimsInv, Claimer, ReceiptsTrue, ClaimedOnce

\* Where no session, receipt or record is written, only the step's own transaction matters.
LEMMA ClaimsQuiet ==
    ASSUME ClaimsInv, Base', NEW c \in Connections, Others(c),
           UNCHANGED <<sessions, records, claims>>, Claimer(c)'
    PROVE  ClaimsInv'
  <1>1. ASSUME NEW d \in Connections \ {c} PROVE Claimer(d)'
    BY DEF Others, ClaimsInv, Claimer
  <1> QED
    BY <1>1 DEF ClaimsInv, ReceiptsTrue, ClaimedOnce

LEMMA ClaimsStart ==
    ASSUME ClaimsInv, NEW c \in Connections, Starts(c) \/ Proceeds(c) PROVE Claimer(c)'
  <1> USE DEF ClaimsInv, Base
  <1>1. CASE LockSession(c) /\ tx'[c].op # "idle"
    <2> DEFINE g == tx[c].guest
    <2>1. /\ tx[c].op = "claim" /\ tx'[c].guest = g /\ tx'[c].owner = tx[c].owner
          /\ tx'[c].seen = sessions[g].by /\ SessionRow(g) \in tx'[c].locks
          /\ sessions[g].state = "open" \/ sessions[g].by = tx[c].owner
          /\ sessions' = sessions
      BY <1>1, LockSessionEffect DEF identityVars
    <2>2. g \in Guests
      BY <2>1 DEF Actors
    <2>3. tx[c].owner # None
      BY <2>1, HostedConstants DEF Actors
    <2> QED  BY <2>1, <2>2, <2>3 DEF Claimer
  <1>2. CASE StartClaim(c)
    BY <1>2, StartClaimEffect DEF Claimer
  <1>3. CASE ~StartClaim(c) /\ ~(LockSession(c) /\ tx'[c].op # "idle")
    <2>1. tx'[c].op # "claim"
      BY <1>3, StartEnsureEffect, StartReserveEffect, StartDeleteEffect, RepositoryStarts,
         ReadReceiptsEffect, CheckImportEffect DEF Starts, Proceeds
    <2> QED  BY <2>1 DEF Claimer
  <1> QED
    BY <1>1, <1>2, <1>3

\* The receipt of a claim that was made before is one that was returned before.
LEMMA ClaimsReplay ==
    ASSUME ClaimsInv, Base', NEW c \in Connections, ReplayClaim(c) PROVE ClaimsInv'
  <1>1. Others(c) /\ tx'[c].op = "idle"
    BY CommitsEnd DEF ClaimsInv, Base, Commits
  <1>2. claims' = claims
    BY DEF ReplayClaim, PriorClaims, Return, ClaimsInv
  <1> QED
    BY <1>1, <1>2, ClaimsQuiet DEF ReplayClaim, Claimer

\* A receipt of what was claimed before names the session's account.
LEMMA ClaimsAlready ==
    ASSUME ClaimsInv, Base', NEW c \in Connections, AlreadyClaimed(c) PROVE ClaimsInv'
  <1> DEFINE g == tx[c].guest
             a == tx[c].owner
             p == Receipt(c, 0, TRUE)
  <1>1. /\ Others(c) /\ tx'[c].op = "idle" /\ sessions' = sessions
        /\ claims' = claims \cup {p} /\ \A r \in records' : r \in records \/ r.receipt = p
    <2>1. Others(c) /\ tx'[c].op = "idle"
      BY CommitsEnd DEF ClaimsInv, Base, Commits
    <2>2. sessions' = sessions /\ Return(p) /\ Recorded(c, p)
      BY DEF AlreadyClaimed
    <2> HIDE DEF p
    <2> QED  BY <2>1, <2>2 DEF Return, Recorded
  <1>2. p.guest = g /\ p.account = a /\ p.already = TRUE
    BY DEF Receipt
  <1>3. /\ g \in Guests /\ a # None /\ sessions[g].by = a /\ sessions[g].state = "claimed"
    BY HostedConstants DEF AlreadyClaimed, At, ClaimsInv, Claimer, Base, Actors
  <1> HIDE DEF p
  <1>4. \A d \in Connections : Claimer(d)'
    BY <1>1 DEF ClaimsInv, Claimer, Others
  <1>5. ReceiptsTrue'
    BY <1>1, <1>2, <1>3 DEF ClaimsInv, ReceiptsTrue
  <1>6. ClaimedOnce'
    <2>1. \A q \in claims : q.guest = g => q.account = a
      BY <1>3 DEF ClaimsInv, ReceiptsTrue
    <2> QED  BY <1>1, <1>2, <2>1 DEF ClaimsInv, ClaimedOnce
  <1> QED
    BY <1>1, <1>4, <1>5, <1>6 DEF ClaimsInv

\* A transfer finds a session that nobody has claimed, hence no receipt for its guest.
LEMMA ClaimsTransfer ==
    ASSUME ClaimsInv, Base', NEW c \in Connections, Transfer(c) PROVE ClaimsInv'
  <1> DEFINE g == tx[c].guest
             a == tx[c].owner
             games == {x \in Games : <<g, x>> \in owned /\ <<a, x>> \notin owned}
             p == Receipt(c, Cardinality(games), FALSE)
  <1>1. /\ Others(c) /\ tx'[c].op = "idle"
        /\ sessions' = [sessions EXCEPT ![g] = [state |-> "claimed", by |-> a]]
        /\ claims' = claims \cup {p} /\ \A r \in records' : r \in records \/ r.receipt = p
    <2>1. Others(c) /\ tx'[c].op = "idle"
      BY CommitsEnd DEF ClaimsInv, Base, Commits
    <2>2. /\ sessions' = [sessions EXCEPT ![g] = [state |-> "claimed", by |-> a]]
          /\ Return(p) /\ Recorded(c, p)
      BY DEF Transfer
    <2> HIDE DEF p
    <2> QED  BY <2>1, <2>2 DEF Return, Recorded
  <1>2. p.guest = g /\ p.account = a
    BY DEF Receipt
  <1>3. /\ g \in Guests /\ a \in AccountIds /\ a # None /\ SessionRow(g) \in tx[c].locks
        /\ sessions[g].state \in {"open", "expired"}
    BY HostedConstants DEF Transfer, At, ClaimsInv, Claimer, Base, Actors
  <1> HIDE DEF p
  <1>4. /\ sessions' \in [Guests -> SessionType]
        /\ sessions'[g].by = a /\ sessions'[g].state = "claimed"
        /\ \A h \in Guests \ {g} : sessions'[h] = sessions[h]
    BY <1>1, <1>3 DEF ClaimsInv, SessionType
  <1>5. ASSUME NEW d \in Connections PROVE Claimer(d)'
    <2>1. CASE d = c
      BY <1>1, <2>1 DEF Claimer
    <2>2. CASE d # c
      <3>1. tx'[d] = tx[d] /\ Claimer(d)
        BY <1>1, <2>2 DEF Others, ClaimsInv
      <3>2. SessionRow(g) \notin tx[d].locks
        BY <1>3, <2>2, Alone DEF ClaimsInv, Base
      <3>3. tx[d].op = "claim" => tx[d].guest \in Guests
        BY DEF ClaimsInv, Base, Actors
      <3> QED  BY <1>4, <3>1, <3>2, <3>3 DEF Claimer
    <2> QED  BY <2>1, <2>2
  <1>6. \A q \in claims : q.guest \in Guests /\ q.guest # g
    BY <1>3 DEF ClaimsInv, ReceiptsTrue
  <1>7. ReceiptsTrue'
    BY <1>1, <1>2, <1>3, <1>4, <1>6 DEF ClaimsInv, ReceiptsTrue
  <1>8. ClaimedOnce'
    BY <1>1, <1>2, <1>6 DEF ClaimsInv, ClaimedOnce
  <1>9. \A h \in Guests : sessions'[h].by # None <=> sessions'[h].state = "claimed"
    BY <1>3, <1>4 DEF ClaimsInv
  <1> QED
    BY <1>1, <1>4, <1>5, <1>7, <1>8, <1>9 DEF ClaimsInv

\* A deletion takes the sessions that its account claimed, under the locks of their rows.
LEMMA ClaimsDelete ==
    ASSUME ClaimsInv, Base', NEW c \in Connections, Delete(c) PROVE ClaimsInv'
  <1> DEFINE mine == {g \in Guests : sessions[g].by = tx[c].owner}
  <1>1. /\ Others(c) /\ tx'[c].op = "idle" /\ claims' = claims /\ records' \subseteq records
        /\ \A g \in mine : Free(c, SessionRow(g))
        /\ sessions' = [g \in Guests |-> IF g \in mine THEN [state |-> "gone", by |-> None]
                                         ELSE sessions[g]]
    <2>1. Others(c) /\ tx'[c].op = "idle"
      BY CommitsEnd DEF ClaimsInv, Base, Commits
    <2> QED  BY <2>1 DEF Delete
  <1>2. tx[c].owner # None
    BY HostedConstants DEF Delete, At, ClaimsInv, Base, Actors
  <1> HIDE DEF mine
  <1>3. /\ sessions' \in [Guests -> SessionType]
        /\ \A g \in mine : g \in Guests => sessions'[g].state = "gone" /\ sessions'[g].by = None
        /\ \A g \in Guests : g \notin mine => sessions'[g] = sessions[g]
    BY <1>1 DEF ClaimsInv, SessionType
  <1>4. ASSUME NEW d \in Connections PROVE Claimer(d)'
    <2>1. CASE d = c
      BY <1>1, <2>1 DEF Claimer
    <2>2. CASE d # c
      <3>1. tx'[d] = tx[d] /\ Claimer(d)
        BY <1>1, <2>2 DEF Others, ClaimsInv
      <3>2. \A g \in mine : SessionRow(g) \notin tx[d].locks
        BY <1>1, <2>2 DEF Free
      <3>3. tx[d].op = "claim" => tx[d].guest \in Guests
        BY DEF ClaimsInv, Base, Actors
      <3> QED  BY <1>3, <3>1, <3>2, <3>3 DEF Claimer
    <2> QED  BY <2>1, <2>2
  <1>5. \A g \in Guests : sessions'[g].by # None <=> sessions'[g].state = "claimed"
    BY <1>3 DEF ClaimsInv
  <1>6. ReceiptsTrue'
    BY <1>1, <1>3 DEF ClaimsInv, ReceiptsTrue
  <1>7. ClaimedOnce'
    BY <1>1 DEF ClaimsInv, ClaimedOnce
  <1> QED
    BY <1>1, <1>3, <1>4, <1>5, <1>6, <1>7 DEF ClaimsInv

\* A session is made where there is none, and ends where nobody has claimed it.
LEMMA ClaimsSessions ==
    ASSUME ClaimsInv, Base', UNCHANGED <<tx, claims, records>>,
           NEW g \in Guests, sessions[g].state \in {"none", "open"},
           sessions' = [sessions EXCEPT ![g].state = IF @ = "none" THEN "open" ELSE "expired"]
    PROVE  ClaimsInv'
  <1>1. /\ sessions' \in [Guests -> SessionType]
        /\ sessions'[g].by = sessions[g].by /\ sessions'[g].state \in {"open", "expired"}
        /\ sessions[g].state = "open" => sessions'[g].state = "expired"
        /\ \A h \in Guests \ {g} : sessions'[h] = sessions[h]
    BY DEF ClaimsInv, SessionType
  <1>2. ASSUME NEW d \in Connections PROVE Claimer(d)'
    <2>1. Claimer(d) /\ (tx[d].op = "claim" => tx[d].guest \in Guests /\ tx[d].owner # None)
      BY HostedConstants DEF ClaimsInv, Base, Actors
    <2> QED  BY <1>1, <2>1 DEF Claimer
  <1>3. ReceiptsTrue'
    BY <1>1 DEF ClaimsInv, ReceiptsTrue
  <1>4. ClaimedOnce'
    BY DEF ClaimsInv, ClaimedOnce
  <1>5. \A h \in Guests : sessions'[h].by # None <=> sessions'[h].state = "claimed"
    BY <1>1 DEF ClaimsInv
  <1> QED
    BY <1>1, <1>2, <1>3, <1>4, <1>5 DEF ClaimsInv

LEMMA ClaimsNext == ClaimsInv /\ [Next]_vars => ClaimsInv'
  <1> SUFFICES ASSUME ClaimsInv, [Next]_vars PROVE ClaimsInv'
    OBVIOUS
  <1>1. Base'
    BY BaseNext DEF ClaimsInv
  <1>2. ASSUME NEW c \in Connections, Starts(c) \/ Proceeds(c) PROVE ClaimsInv'
    <2>1. Others(c) /\ UNCHANGED <<sessions, records, claims>>
      BY <1>2, StartsAndProceeds DEF ClaimsInv, Base, identityVars
    <2> QED  BY <1>1, <1>2, <2>1, ClaimsStart, ClaimsQuiet
  <1>3. ASSUME NEW c \in Connections, Commits(c) PROVE ClaimsInv'
    <2>1. CASE ReplayClaim(c) \/ AlreadyClaimed(c) \/ Transfer(c) \/ Delete(c)
      BY <1>1, <2>1, ClaimsReplay, ClaimsAlready, ClaimsTransfer, ClaimsDelete
    <2>2. CASE Found(c) \/ Create(c) \/ Reserve(c) \/ ReplayDelete(c) \/ FailDelete(c)
               \/ Import(c) \/ Record(c) \/ Save(c)
      <3>1. Others(c) /\ tx'[c].op = "idle"
        BY <1>3, CommitsEnd DEF ClaimsInv, Base
      <3>2. UNCHANGED <<sessions, records, claims>>
        BY <2>2 DEF Found, Create, Reserve, ReplayDelete, FailDelete, Import, Record, Save, identityVars
      <3> QED  BY <1>1, <3>1, <3>2, ClaimsQuiet DEF Claimer
    <2> QED  BY <1>3, <2>1, <2>2 DEF Commits
  <1>4. CASE UNCHANGED <<tx, sessions, records, claims>>
    BY <1>1, <1>4 DEF ClaimsInv, Claimer, ReceiptsTrue, ClaimedOnce
  <1>5. ASSUME NEW c \in Connections, CreateGuest(c) PROVE ClaimsInv'
    <2>1. PICK g \in Guests : sessions[g].state = "none" /\ sessions' = [sessions EXCEPT ![g].state = "open"]
      BY <1>5 DEF CreateGuest
    <2> QED  BY <1>1, <1>5, <2>1, ClaimsSessions DEF CreateGuest
  <1>6. CASE Expire
    <2>1. CASE sessions' = sessions
      BY <1>4, <1>6, <2>1 DEF Expire
    <2>2. CASE \E g \in Guests : /\ sessions[g].state = "open"
                                 /\ sessions' = [sessions EXCEPT ![g].state = "expired"]
      BY <1>1, <1>6, <2>2, ClaimsSessions DEF Expire
    <2> QED  BY <1>6, <2>1, <2>2 DEF Expire
  <1>7. CASE UNCHANGED vars
    BY <1>4, <1>7 DEF vars, identityVars
  <1> QED
    BY <1>2, <1>3, <1>5, <1>6, <1>7, StepsOfNext

\* claim_guest transfers a guest's reviews once, to one account, whatever retries, other keys,
\* second processes, expiries and deletions of accounts come between its statements.
THEOREM GuestClaimedOnce == Spec => []ClaimedOnce
  <1>1. ClaimsInv => ClaimedOnce
    BY DEF ClaimsInv
  <1> QED
    BY <1>1, ClaimsInit, ClaimsNext, PTL DEF Spec

-----------------------------------------------------------------------------
(* One free analysis.                                                      *)

RunFields == {"owner", "game", "kind", "copy"}
IsRun(r) == r = [f \in RunFields |-> r[f]]

\* What a guest was permitted is the game it has reserved.
PermitsReserved ==
    /\ permits \subseteq Guests \X Games
    /\ reserved = [g \in Guests |-> reserved[g]]
    /\ \A p \in permits : reserved[p[1]] = p[2]

\* A call for a guest's game, and every run a guest has, goes back to a permit.
Permitted(c) == tx[c].op \in {"record", "save"} /\ tx[c].owner \in Guests =>
                    <<tx[c].owner, tx[c].game>> \in permits
Reserver(c) == tx[c].op = "reserve" => tx[c].guest \in Guests /\ tx[c].game \in Games
RunsPermitted == \A r \in DOMAIN runs :
                     IsRun(r) /\ (r.owner \in Guests => <<r.owner, r.game>> \in permits)

AnalysisInv == /\ Base /\ PermitsReserved /\ RunsPermitted
               /\ \A c \in Connections : Permitted(c) /\ Reserver(c)

LEMMA AnalysisInit == Init => AnalysisInv
  <1> SUFFICES ASSUME Init PROVE AnalysisInv
    OBVIOUS
  <1>1. /\ tx = [c \in Connections |-> Idle] /\ permits = {} /\ reserved = [g \in Guests |-> None]
    BY DEF Init
  <1>2. RunsPermitted
    <2>1. \A r \in DOMAIN <<>> : FALSE
      OBVIOUS
    <2> QED  BY <2>1 DEF Init, RunsPermitted
  <1> QED
    BY <1>1, <1>2, IdleIsTx, BaseInit DEF AnalysisInv, PermitsReserved, Permitted, Reserver

\* Where no permit or reservation is written and no run of a guest is new.
LEMMA AnalysisQuiet ==
    ASSUME AnalysisInv, Base', NEW c \in Connections, Others(c), UNCHANGED <<permits, reserved>>,
           RunsPermitted', Permitted(c)', Reserver(c)'
    PROVE  AnalysisInv'
  <1>1. ASSUME NEW d \in Connections \ {c} PROVE Permitted(d)' /\ Reserver(d)'
    BY DEF Others, AnalysisInv, Permitted, Reserver
  <1> QED
    BY <1>1 DEF AnalysisInv, PermitsReserved

LEMMA AnalysisStart ==
    ASSUME AnalysisInv, NEW c \in Connections, Starts(c) \/ Proceeds(c)
    PROVE  Permitted(c)' /\ Reserver(c)'
  <1> USE DEF AnalysisInv, Base
  <1>1. CASE StartReserve(c)
    BY <1>1, StartReserveEffect DEF Permitted, Reserver
  <1>2. CASE StartAdd(c) \/ StartRecord(c) \/ StartSave(c)
    BY <1>2, RepositoryStarts DEF Permitted, Reserver, identityVars
  <1>3. CASE StartEnsure(c) \/ StartClaim(c) \/ StartDelete(c) \/ Proceeds(c)
    <2>1. tx'[c].op \in {"ensure", "claim", "delete", "add", "idle"}
      BY <1>3, StartEnsureEffect, StartClaimEffect, StartDeleteEffect, ReadReceiptsEffect,
         LockSessionEffect, CheckImportEffect DEF Proceeds
    <2> QED  BY <2>1 DEF Permitted, Reserver
  <1> QED
    BY <1>1, <1>2, <1>3 DEF Starts

\* reserve_guest_analysis permits the game that is reserved, and no other.
LEMMA AnalysisReserve ==
    ASSUME AnalysisInv, Base', NEW c \in Connections, Reserve(c) PROVE AnalysisInv'
  <1> DEFINE g == tx[c].guest
             x == tx[c].game
  <1>1. Others(c) /\ tx'[c].op = "idle" /\ runs' = runs
    BY CommitsEnd DEF AnalysisInv, Base, Commits, Reserve, repositoryVars
  <1>2. g \in Guests /\ x \in Games /\ x # None
    BY HostedConstants DEF Reserve, At, AnalysisInv, Reserver
  <1>3. CASE Refused(g, x)
    <2>1. RunsPermitted' /\ Permitted(c)' /\ Reserver(c)'
      BY <1>1, <1>3 DEF Refused, AnalysisInv, RunsPermitted, Permitted, Reserver
    <2> QED  BY <1>1, <1>3, <2>1, AnalysisQuiet DEF Refused
  <1>4. CASE Reserved(g, x)
    <2>1. PermitsReserved'
      <3>1. /\ reserved[g] \in {None, x} /\ reserved' = [reserved EXCEPT ![g] = x]
            /\ permits' = permits \cup {<<g, x>>}
        BY <1>4 DEF Reserved
      <3>2. \A p \in permits : p[1] = g => p[2] = x
        BY <3>1, HostedConstants DEF AnalysisInv, PermitsReserved
      <3> QED  BY <1>2, <3>1, <3>2 DEF AnalysisInv, PermitsReserved
    <2>2. permits \subseteq permits'
      BY <1>4 DEF Reserved
    <2>3. RunsPermitted'
      BY <1>1, <2>2 DEF AnalysisInv, RunsPermitted
    <2>4. \A d \in Connections : Permitted(d)' /\ Reserver(d)'
      BY <1>1, <2>2 DEF AnalysisInv, Permitted, Reserver, Others
    <2> QED  BY <2>1, <2>3, <2>4 DEF AnalysisInv
  <1> QED
    BY <1>3, <1>4 DEF Reserve

IsRunOf(r, o, x) == IsRun(r) /\ r.owner = o /\ r.game = x

LEMMA RunOfIsRun == \A o, x : IsRunOf(RunOf(o, x), o, x)
  BY DEF RunOf, IsRunOf, IsRun, RunFields

LEMMA SavedRunIsRun == \A o, x, k : IsRunOf(SavedRun(o, x, k), o, x)
  <1>1. \A o, x, r, k : IsRunOf(r, o, x) => IsRunOf([r EXCEPT !.kind = k], o, x)
    BY DEF IsRunOf, IsRun, RunFields
  <1> QED
    BY <1>1, RunOfIsRun DEF SavedRun

LEMMA CopiedIsRun ==
    ASSUME NEW r, IsRun(r), NEW a PROVE IsRun(Copied(r, a)) /\ Copied(r, a).owner = a
  BY DEF Copied, IsRun, RunFields

\* The runs after a commit: those before it, one of the permitted game, or copies for an account.
LEMMA RunsOfCommits ==
    ASSUME AnalysisInv, NEW c \in Connections, Commits(c), ~Reserve(c), NEW r \in DOMAIN runs'
    PROVE  IsRun(r) /\ (r.owner \in Guests => <<r.owner, r.game>> \in permits)
  <1> USE DEF AnalysisInv
  <1>1. CASE r \in DOMAIN runs
    BY <1>1 DEF RunsPermitted
  <1>2. CASE Record(c) /\ r \notin DOMAIN runs
    <2>1. tx[c].op = "record" /\ r = RunOf(tx[c].owner, tx[c].game)
      BY <1>2 DEF Record, At, With, Merged
    <2>2. IsRunOf(r, tx[c].owner, tx[c].game)
      BY <2>1, RunOfIsRun
    <2> QED  BY <2>1, <2>2 DEF Permitted, IsRunOf
  <1>3. CASE Save(c) /\ r \notin DOMAIN runs
    <2>1. tx[c].op = "save" /\ r = SavedRun(tx[c].owner, tx[c].game, tx[c].key)
      BY <1>3 DEF Save, At, With, Merged
    <2>2. IsRunOf(r, tx[c].owner, tx[c].game)
      BY <2>1, SavedRunIsRun
    <2> QED  BY <2>1, <2>2 DEF Permitted, IsRunOf
  <1>4. CASE Transfer(c) /\ r \notin DOMAIN runs
    <2> DEFINE a == tx[c].owner
    <2>1. PICK q \in DOMAIN runs : r = Copied(q, a)
      BY <1>4 DEF Transfer, WithCopies, Merged, Transferable
    <2>2. IsRun(q)
      BY DEF RunsPermitted
    <2>3. a \in AccountIds
      BY <1>4 DEF Transfer, At, Base, Actors
    <2> QED  BY <2>1, <2>2, <2>3, CopiedIsRun, HostedConstants
  <1>5. CASE Delete(c)
    BY <1>1, <1>5 DEF Delete, Without
  <1>6. CASE Found(c) \/ Create(c) \/ ReplayClaim(c) \/ AlreadyClaimed(c) \/ ReplayDelete(c)
            \/ FailDelete(c) \/ Import(c)
    <2>1. runs' = runs
      BY <1>6 DEF Found, Create, ReplayClaim, AlreadyClaimed, ReplayDelete, FailDelete, Import,
         repositoryVars
    <2> QED  BY <1>1, <2>1
  <1> QED
    BY <1>1, <1>2, <1>3, <1>4, <1>5, <1>6 DEF Commits

LEMMA AnalysisNext == AnalysisInv /\ [Next]_vars => AnalysisInv'
  <1> SUFFICES ASSUME AnalysisInv, [Next]_vars PROVE AnalysisInv'
    OBVIOUS
  <1>1. Base'
    BY BaseNext DEF AnalysisInv
  <1>2. ASSUME NEW c \in Connections, Starts(c) \/ Proceeds(c) PROVE AnalysisInv'
    <2>1. Others(c) /\ UNCHANGED <<permits, reserved, runs>>
      BY <1>2, StartsAndProceeds DEF AnalysisInv, Base, identityVars, repositoryVars
    <2>2. RunsPermitted'
      BY <2>1 DEF AnalysisInv, RunsPermitted
    <2> QED  BY <1>1, <1>2, <2>1, <2>2, AnalysisStart, AnalysisQuiet
  <1>3. ASSUME NEW c \in Connections, Commits(c), ~Reserve(c) PROVE AnalysisInv'
    <2>1. Others(c) /\ tx'[c].op = "idle"
      BY <1>3, CommitsEnd DEF AnalysisInv, Base
    <2>2. UNCHANGED <<permits, reserved>>
      BY <1>3 DEF Commits, Found, Create, ReplayClaim, AlreadyClaimed, Transfer, ReplayDelete,
         FailDelete, Delete, Import, Record, Save, identityVars, unclaimedVars
    <2>3. RunsPermitted'
      BY <1>3, <2>2, RunsOfCommits DEF RunsPermitted
    <2> QED  BY <1>1, <2>1, <2>2, <2>3, AnalysisQuiet DEF Permitted, Reserver
  <1>4. CASE UNCHANGED <<tx, permits, reserved, runs>>
    BY <1>1, <1>4 DEF AnalysisInv, PermitsReserved, RunsPermitted, Permitted, Reserver
  <1>5. ASSUME NEW c \in Connections, CreateGuest(c) PROVE AnalysisInv'
    BY <1>4, <1>5 DEF CreateGuest, repositoryVars
  <1>6. CASE Expire
    BY <1>4, <1>6 DEF Expire, repositoryVars
  <1>7. CASE UNCHANGED vars
    BY <1>4, <1>7 DEF vars, identityVars, repositoryVars
  <1> QED
    BY <1>1, <1>2, <1>3, <1>5, <1>6, <1>7, StepsOfNext, AnalysisReserve

\* A guest has analyses of one game at most, the one reserve_guest_analysis permitted first,
\* whatever it imports, retries and claims meanwhile.
THEOREM FreeAnalysisIsOne == Spec => []OneFreeAnalysis
  <1>1. AnalysisInv => OneFreeAnalysis
    <2> SUFFICES ASSUME AnalysisInv, NEW g \in Guests
                 PROVE  Cardinality({r.game : r \in {q \in DOMAIN runs : q.owner = g}}) <= 1
      BY DEF OneFreeAnalysis
    <2> DEFINE games == {r.game : r \in {q \in DOMAIN runs : q.owner = g}}
    <2>1. games \subseteq {reserved[g]}
      BY DEF AnalysisInv, RunsPermitted, PermitsReserved
    <2>2. Cardinality({reserved[g]}) = 1 /\ Cardinality({}) = 0
      BY FS_Singleton, FS_EmptySet
    <2>3. games = {} \/ games = {reserved[g]}
      BY <2>1
    <2>4. Cardinality(games) = 1 \/ Cardinality(games) = 0
      BY <2>2, <2>3
    <2> QED  BY <2>4
  <1> QED
    BY <1>1, AnalysisInit, AnalysisNext, PTL DEF Spec

-----------------------------------------------------------------------------
(* The limit on games.                                                     *)

\* An import of a guest that has counted holds the advisory lock, and there is still room.
Importer(c) ==
    tx[c].op = "add" /\ tx[c].pc = "write" /\ tx[c].owner \in Guests =>
        /\ ImportsOf(tx[c].owner) \in tx[c].locks
        /\ Cardinality(Has(tx[c].owner)) < StorageLimit

LimitInv == Base /\ WithinLimit /\ \A c \in Connections : Importer(c)

LEMMA HasIsFinite ==
    ASSUME NEW g PROVE IsFiniteSet(Has(g)) /\ Cardinality(Has(g)) \in Nat
  BY HostedConstants, FS_Subset, FS_CardinalityType DEF Has

LEMMA LimitInit == Init => LimitInv
  <1> SUFFICES ASSUME Init PROVE LimitInv
    OBVIOUS
  <1>1. tx = [c \in Connections |-> Idle]
    BY DEF Init
  <1> QED
    BY <1>1, IdleIsTx, BaseInit DEF Init, LimitInv, WithinLimit, Has, Importer

\* Where no guest has more games than before, only the step's own transaction matters.
LEMMA LimitQuiet ==
    ASSUME LimitInv, Base', NEW c \in Connections, Others(c),
           \A g \in Guests : Has(g)' \subseteq Has(g), Importer(c)'
    PROVE  LimitInv'
  <1>1. ASSUME NEW g \in Guests PROVE Cardinality(Has(g)') <= Cardinality(Has(g))
    BY HasIsFinite, FS_Subset
  <1>2. \A g \in Guests : Cardinality(Has(g)) \in Nat /\ Cardinality(Has(g)') \in Nat
    BY HasIsFinite, <1>1, FS_Subset, FS_CardinalityType
  <1>3. WithinLimit'
    BY <1>1, <1>2, HostedConstants DEF LimitInv, WithinLimit
  <1>4. ASSUME NEW d \in Connections \ {c} PROVE Importer(d)'
    <2>1. tx'[d] = tx[d] /\ Importer(d)
      BY DEF Others, LimitInv
    <2>2. \A g \in Guests : Cardinality(Has(g)) < StorageLimit =>
                                 Cardinality(Has(g)') < StorageLimit
      BY <1>1, <1>2, HostedConstants
    <2> QED  BY <2>1, <2>2 DEF Importer, Has
  <1> QED
    BY <1>3, <1>4 DEF LimitInv

LEMMA LimitStart ==
    ASSUME LimitInv, NEW c \in Connections, Starts(c) \/ Proceeds(c) PROVE Importer(c)'
  <1> USE DEF LimitInv, Base
  <1>1. owned' = owned
    BY StartsAndProceeds DEF repositoryVars
  <1>2. CASE StartAdd(c) \/ StartRecord(c) \/ StartSave(c)
    BY <1>2, RepositoryStarts DEF Importer
  <1>3. CASE CheckImport(c)
    <2>1. CASE tx'[c].op = "idle"
      BY <2>1 DEF Importer
    <2>2. CASE tx'[c].op # "idle"
      <3>1. /\ tx'[c].owner = tx[c].owner /\ tx'[c].locks = {ImportsOf(tx[c].owner)}
            /\ ~(Cardinality(Has(tx[c].owner)) >= StorageLimit)
        BY <1>3, <2>2, CheckImportEffect
      <3>2. \A g : Cardinality(Has(g)) \in Nat /\ Has(g)' = Has(g)
        BY <1>1, HasIsFinite DEF Has
      <3>3. Cardinality(Has(tx[c].owner)) < StorageLimit
        BY <3>1, <3>2, HostedConstants
      <3> QED  BY <1>1, <3>1, <3>3 DEF Importer, Has
    <2> QED  BY <2>1, <2>2
  <1>4. CASE StartEnsure(c) \/ StartReserve(c) \/ StartClaim(c) \/ StartDelete(c)
    BY <1>4, StartEnsureEffect, StartReserveEffect, StartClaimEffect, StartDeleteEffect DEF Importer
  <1>5. CASE ReadReceipts(c) \/ LockSession(c)
    BY <1>5, ReadReceiptsEffect, LockSessionEffect DEF Importer
  <1> QED
    BY <1>2, <1>3, <1>4, <1>5 DEF Starts, Proceeds

\* An import adds one game to an owner that nobody else adds to meanwhile.
LEMMA LimitImport ==
    ASSUME LimitInv, Base', NEW c \in Connections, Import(c) PROVE LimitInv'
  <1> DEFINE o == tx[c].owner
             x == tx[c].game
  <1>1. /\ Others(c) /\ tx'[c].op = "idle"
        /\ owned' = owned \/ owned' = owned \cup {<<o, x>>}
    BY CommitsEnd DEF LimitInv, Base, Commits, Import, OwnerOf
  <1>2. \A g : Has(g)' \subseteq Has(g) \cup {x} /\ (g # o => Has(g)' = Has(g))
    BY <1>1 DEF Has
  <1>3. /\ tx[c].op = "add" /\ tx[c].pc = "write"
        /\ o \in Guests => ImportsOf(o) \in tx[c].locks /\ Cardinality(Has(o)) < StorageLimit
    BY DEF Import, At, LimitInv, Importer
  <1> HIDE DEF o, x
  <1>4. WithinLimit'
    <2> SUFFICES ASSUME NEW g \in Guests PROVE Cardinality(Has(g)') <= StorageLimit
      BY DEF WithinLimit, Has
    <2>1. CASE g # o
      BY <1>2, <2>1 DEF LimitInv, WithinLimit
    <2>2. CASE g = o
      <3>1. Cardinality(Has(g)) < StorageLimit
        BY <1>3, <2>2
      <3>2. /\ IsFiniteSet(Has(g) \cup {x})
            /\ Cardinality(Has(g) \cup {x}) \in {Cardinality(Has(g)), Cardinality(Has(g)) + 1}
        BY HasIsFinite, FS_AddElement
      <3>3. Cardinality(Has(g)') <= Cardinality(Has(g) \cup {x}) /\ Cardinality(Has(g)') \in Nat
        BY <1>2, <3>2, FS_Subset, FS_CardinalityType
      <3> QED  BY <3>1, <3>2, <3>3, HasIsFinite, HostedConstants
    <2> QED  BY <2>1, <2>2
  <1>5. ASSUME NEW d \in Connections PROVE Importer(d)'
    <2>1. CASE d = c
      BY <1>1, <2>1 DEF Importer
    <2>2. CASE d # c
      <3>1. tx'[d] = tx[d] /\ Importer(d)
        BY <1>1, <2>2 DEF Others, LimitInv
      <3>2. CASE tx[d].owner = o /\ o \in Guests
        <4>1. ImportsOf(o) \notin tx[d].locks
          BY <1>3, <2>2, <3>2, Alone DEF LimitInv, Base
        <4> QED  BY <3>1, <3>2, <4>1 DEF Importer
      <3>3. CASE tx[d].owner # o
        <4>1. \A g : g # o => Has(g)' = Has(g)
          BY <1>2
        <4> QED  BY <3>1, <3>3, <4>1 DEF Importer, Has
      <3>4. CASE tx[d].owner \notin Guests
        BY <3>1, <3>4 DEF Importer
      <3> QED  BY <3>2, <3>3, <3>4
    <2> QED  BY <2>1, <2>2
  <1> QED
    BY <1>4, <1>5 DEF LimitInv

LEMMA LimitNext == LimitInv /\ [Next]_vars => LimitInv'
  <1> SUFFICES ASSUME LimitInv, [Next]_vars PROVE LimitInv'
    OBVIOUS
  <1>1. Base'
    BY BaseNext DEF LimitInv
  <1>2. ASSUME NEW c \in Connections, Starts(c) \/ Proceeds(c) PROVE LimitInv'
    <2>1. Others(c) /\ owned' = owned
      BY <1>2, StartsAndProceeds DEF LimitInv, Base, repositoryVars
    <2>2. \A g \in Guests : Has(g)' \subseteq Has(g)
      BY <2>1 DEF Has
    <2> QED  BY <1>1, <1>2, <2>1, <2>2, LimitStart, LimitQuiet
  <1>3. ASSUME NEW c \in Connections, Commits(c), ~Import(c) PROVE LimitInv'
    <2>1. Others(c) /\ tx'[c].op = "idle"
      BY <1>3, CommitsEnd DEF LimitInv, Base
    <2>2. ASSUME NEW g \in Guests PROVE Has(g)' \subseteq Has(g)
      <3>1. CASE Transfer(c)
        <4>1. tx[c].owner # g
          BY <3>1, HostedConstants DEF Transfer, At, LimitInv, Base, Actors
        <4> QED  BY <3>1, <4>1 DEF Transfer, Has
      <3>2. CASE Delete(c)
        BY <3>2 DEF Delete, Has
      <3>3. CASE Found(c) \/ Create(c) \/ Reserve(c) \/ ReplayClaim(c) \/ AlreadyClaimed(c)
                 \/ ReplayDelete(c) \/ FailDelete(c) \/ Record(c) \/ Save(c)
        <4>1. owned' = owned
          BY <3>3 DEF Found, Create, Reserve, ReplayClaim, AlreadyClaimed, ReplayDelete, FailDelete,
             Record, Save, repositoryVars
        <4> QED  BY <4>1 DEF Has
      <3> QED  BY <1>3, <3>1, <3>2, <3>3 DEF Commits
    <2>3. Importer(c)'
      BY <2>1 DEF Importer
    <2> QED  BY <1>1, <2>1, <2>2, <2>3, LimitQuiet
  <1>4. CASE UNCHANGED <<tx, owned>>
    BY <1>1, <1>4 DEF LimitInv, WithinLimit, Importer, Has
  <1>5. ASSUME NEW c \in Connections, CreateGuest(c) PROVE LimitInv'
    BY <1>4, <1>5 DEF CreateGuest, repositoryVars
  <1>6. CASE Expire
    BY <1>4, <1>6 DEF Expire, repositoryVars
  <1>7. CASE UNCHANGED vars
    BY <1>4, <1>7 DEF vars, repositoryVars
  <1> QED
    BY <1>1, <1>2, <1>3, <1>5, <1>6, <1>7, StepsOfNext, LimitImport

\* No guest has more games than the limit, on however many connections it imports at once:
\* add counts and inserts under the advisory lock of the owner.
THEOREM GamesWithinLimit == Spec => []WithinLimit
  <1>1. LimitInv => WithinLimit
    BY DEF LimitInv
  <1> QED
    BY <1>1, LimitInit, LimitNext, PTL DEF Spec


Loading(r) == request[r].pc \in {"load", "land"}

RequestType == [pc : {"idle", "ask", "load", "land"}, kid : Kids \cup {Nobody}, at : Nat,
                warm : BOOLEAN, got : SUBSET Kids, owner : BOOLEAN]

KeyTypeOK ==
    /\ published \in Documents /\ now \in Nat
    /\ keysLoaded \in BOOLEAN /\ keysLoadedAt \in Nat /\ keys \subseteq Kids
    /\ lastAttempt \in Nat /\ inFlight \in BOOLEAN
    /\ \A k \in DOMAIN missing : missing[k] \in Nat
    /\ request \in [Requests -> RequestType]
    /\ begun \in Seq(Nat) /\ ended \in Nat

\* refresh_in_flight stands for one request that loads, which knows whether the cache was
\* ever filled before.
OneLoad ==
    /\ inFlight <=> \E r \in Requests : Loading(r)
    /\ \A r, q \in Requests : Loading(r) /\ Loading(q) => r = q
    /\ \A r \in Requests : Loading(r) => request[r].warm = keysLoaded

\* Nothing in the cache is newer than the clock.
Past ==
    /\ ended <= now
    /\ lastAttempt <= now
    /\ \A r \in Requests : request[r].at <= now
    /\ \A k \in DOMAIN missing : missing[k] <= ended
    /\ ~inFlight => lastAttempt <= ended

Newest == begun # <<>> => lastAttempt = begun[Len(begun)]

\* Before the reset, right after it, and from the next load on.
AttemptsKept ==
    \/ Close = {} /\ Newest
    \/ Close = {} /\ keysLoaded /\ ~inFlight
    \/ keysLoaded /\ Newest /\ \A i, j \in Close : i = j

KeyInv == KeyTypeOK /\ OneLoad /\ Past /\ AttemptsKept

-----------------------------------------------------------------------------
(* The operators.                                                          *)

\* What parse_jwks yields are kids.
LEMMA ParsedKids == ASSUME NEW d \in Documents PROVE Parsed(d) \subseteq Kids
  <1>1. d \in Seq([kid : Kids, usable : BOOLEAN])
    BY KeyCacheConstants
  <1>2. \A i \in DOMAIN d : d[i].kid \in Kids
    <2>1. DOMAIN d = 1 .. Len(d)
      BY <1>1, LenProperties
    <2>2. \A i \in DOMAIN d : d[i] \in [kid : Kids, usable : BOOLEAN]
      BY <1>1, <2>1, ElementOfSeq
    <2> QED  BY <2>2
  <1> QED
    BY <1>2 DEF Parsed

LEMMA ConstantsType == Cooldown \in Nat /\ Lifetime \in Nat /\ Cooldown > 0
  BY KeyCacheConstants

LEMMA IdleType == ASSUME NEW b \in BOOLEAN PROVE IdleAs(b) \in RequestType /\ IdleAs(b).pc = "idle" /\ IdleAs(b).at = 0
  BY DEF IdleAs, RequestType

\* Pairs of neighbours in a longer list of loads are those of the shorter one and the last.
LEMMA CloseAppend ==
    ASSUME NEW t \in Nat, begun \in Seq(Nat), begun' = Append(begun, t)
    PROVE  /\ \A i \in Close' : i \in Close \/ (begun # <<>> /\ i = Len(begun))
           /\ begun # <<>> /\ t - begun[Len(begun)] >= Cooldown => Close' \subseteq Close
           /\ begun' # <<>> /\ begun'[Len(begun')] = t
  <1>1. /\ Len(begun') = Len(begun) + 1 /\ Len(begun) \in Nat
        /\ \A i \in 1 .. Len(begun) : begun'[i] = begun[i]
        /\ begun'[Len(begun) + 1] = t
    BY AppendProperties
  <1>2. ASSUME NEW i \in Close'
        PROVE  /\ i \in 1 .. Len(begun) /\ begun'[i + 1] - begun[i] < Cooldown
               /\ i \in Close \/ (begun # <<>> /\ i = Len(begun))
    BY <1>1 DEF Close
  <1>3. Cooldown \in Nat
    BY ConstantsType
  <1>4. ASSUME begun # <<>>, t - begun[Len(begun)] >= Cooldown, NEW i \in Close' PROVE i \in Close
    <2>1. i = Len(begun) => ~(t - begun[Len(begun)] < Cooldown)
      BY <1>3, <1>4, <1>1
    <2> QED  BY <1>1, <1>2, <2>1
  <1> QED
    BY <1>1, <1>2, <1>4

\* A step writes the request it works for and no other.
LEMMA UpdateKeeps ==
    ASSUME KeyTypeOK, NEW r \in Requests, NEW v \in RequestType, Update(r, v)
    PROVE  /\ request' \in [Requests -> RequestType] /\ request'[r] = v
           /\ \A q \in Requests \ {r} : request'[q] = request[q]
  BY DEF KeyTypeOK, Update

LEMMA AnsweredKeeps ==
    ASSUME KeyTypeOK, NEW r \in Requests, NEW found \in BOOLEAN, Answered(r, found)
    PROVE  /\ request' \in [Requests -> RequestType]
           /\ request'[r].pc = "idle" /\ request'[r].at = 0
           /\ \A q \in Requests \ {r} : request'[q] = request[q]
  <1>1. PICK signed \in BOOLEAN : Update(r, IdleAs(found /\ signed))
    BY DEF Answered
  <1> QED
    BY <1>1, IdleType, UpdateKeeps

\* Forgetting a kid keeps the times of the others; noting one gives it the time of the clock.
LEMMA ForgottenKeeps ==
    ASSUME NEW kid
    PROVE  /\ DOMAIN Forgotten(kid) \subseteq DOMAIN missing
           /\ \A k \in DOMAIN Forgotten(kid) : Forgotten(kid)[k] = missing[k]
  BY DEF Forgotten

LEMMA NotedIsPast ==
    ASSUME KeyTypeOK, Past, NEW kid, NEW old,
           DOMAIN old \subseteq DOMAIN missing, \A k \in DOMAIN old : old[k] = missing[k]
    PROVE  \A k \in DOMAIN Noted(kid, old) : Noted(kid, old)[k] \in Nat /\ Noted(kid, old)[k] <= now
  <1>1. \A k \in DOMAIN old : old[k] \in Nat /\ old[k] <= now
    BY DEF KeyTypeOK, Past
  <1> QED
    BY <1>1 DEF Noted, KeyTypeOK

-----------------------------------------------------------------------------
(* The steps.                                                              *)

LEMMA KeyInvInit == KeyInit => KeyInv
  <1> SUFFICES ASSUME KeyInit PROVE KeyInv
    OBVIOUS
  <1> USE DEF KeyInit
  <1>1. IdleAs(FALSE) \in RequestType /\ IdleAs(FALSE).pc = "idle" /\ IdleAs(FALSE).at = 0
    BY IdleType
  <1>2. \A k \in DOMAIN <<>> : FALSE
    OBVIOUS
  <1>3. KeyTypeOK
    <2>1. begun \in Seq(Nat)
      BY EmptySeq
    <2>2. request \in [Requests -> RequestType]
      BY <1>1
    <2> QED  BY <1>2, <2>1, <2>2 DEF KeyTypeOK
  <1>4. OneLoad
    BY <1>1 DEF OneLoad, Loading
  <1>5. Past
    <2>1. \A r \in Requests : request[r].at = now
      BY <1>1
    <2>2. 0 <= 0
      OBVIOUS
    <2> QED  BY <1>2, <2>1, <2>2, Zenon DEF Past
  <1>6. AttemptsKept
    BY EmptySeq DEF AttemptsKept, Newest, Close
  <1> QED
    BY <1>3, <1>4, <1>5, <1>6 DEF KeyInv

LEMMA AskStep == ASSUME KeyInv, NEW r \in Requests, Ask(r) PROVE KeyInv'
  <1> USE DEF KeyInv
  <1>1. PICK kid \in Kids :
            Update(r, [IdleAs(FALSE) EXCEPT !.pc = "ask", !.kid = kid, !.at = now])
    BY DEF Ask
  <1> DEFINE v == [IdleAs(FALSE) EXCEPT !.pc = "ask", !.kid = kid, !.at = now]
  <1>2. v \in RequestType /\ v.pc = "ask" /\ v.at = now
    BY IdleType DEF RequestType, KeyTypeOK
  <1>3. /\ request' \in [Requests -> RequestType] /\ request'[r] = v
        /\ \A q \in Requests \ {r} : request'[q] = request[q]
    BY <1>1, <1>2, UpdateKeeps
  <1> HIDE DEF v
  <1>4. KeyTypeOK'
    BY <1>3 DEF KeyTypeOK, Ask, cacheVars
  <1>5. \A q \in Requests : Loading(q)' <=> Loading(q)
    BY <1>2, <1>3 DEF Loading, Ask
  <1>6. OneLoad'
    BY <1>3, <1>5, <1>2 DEF OneLoad, Ask, cacheVars, Loading
  <1>7. Past'
    BY <1>2, <1>3 DEF Past, Ask, cacheVars, KeyTypeOK
  <1>8. AttemptsKept'
    BY DEF AttemptsKept, Newest, Close, Ask, cacheVars
  <1> QED
    BY <1>4, <1>6, <1>7, <1>8

\* The three ways of key_for to answer without a load.
LEMMA AnswerStep ==
    ASSUME KeyInv, NEW r \in Requests, request[r].pc = "ask", NEW found \in BOOLEAN,
           Answered(r, found), missing' = missing \/ missing' = Forgotten(request[r].kid),
           UNCHANGED <<keys, keysLoaded, keysLoadedAt, lastAttempt, inFlight, begun>>,
           UNCHANGED <<published, now, ended>>
    PROVE  KeyInv'
  <1> USE DEF KeyInv
  <1>1. /\ request' \in [Requests -> RequestType]
        /\ request'[r].pc = "idle" /\ request'[r].at = 0
        /\ \A q \in Requests \ {r} : request'[q] = request[q]
    BY AnsweredKeeps
  <1>2. \A k \in DOMAIN missing' : k \in DOMAIN missing /\ missing'[k] = missing[k]
    BY ForgottenKeeps
  <1>3. KeyTypeOK'
    BY <1>1, <1>2 DEF KeyTypeOK
  <1>4. \A q \in Requests : Loading(q)' <=> Loading(q)
    BY <1>1 DEF Loading
  <1>5. OneLoad'
    BY <1>1, <1>4 DEF OneLoad, Loading
  <1>6. Past'
    BY <1>1, <1>2 DEF Past, KeyTypeOK
  <1>7. AttemptsKept'
    BY DEF AttemptsKept, Newest, Close
  <1> QED
    BY <1>3, <1>5, <1>6, <1>7

\* The beginning of a load: a cooldown after the newest one, or after the reset.
LEMMA BeginStep ==
    ASSUME KeyInv, NEW r \in Requests, request[r].pc = "ask", MayLoad(request[r].at),
           Update(r, [request[r] EXCEPT !.pc = "load", !.warm = keysLoaded]),
           lastAttempt' = request[r].at, inFlight' = TRUE, missing' = Forgotten(request[r].kid),
           begun' = Append(begun, request[r].at),
           UNCHANGED <<keys, keysLoaded, keysLoadedAt>>, UNCHANGED <<published, now, ended>>
    PROVE  KeyInv'
  <1> USE DEF KeyInv
  <1> DEFINE at == request[r].at
             v == [request[r] EXCEPT !.pc = "load", !.warm = keysLoaded]
  <1>1. at \in Nat /\ request[r] \in RequestType
    BY DEF KeyTypeOK, RequestType
  <1>2. v \in RequestType /\ v.pc = "load" /\ v.at = at /\ v.warm = keysLoaded
    BY <1>1 DEF RequestType, KeyTypeOK
  <1>3. /\ request' \in [Requests -> RequestType] /\ request'[r] = v
        /\ \A q \in Requests \ {r} : request'[q] = request[q]
    BY <1>2, UpdateKeeps
  <1>4. \A k \in DOMAIN missing' : k \in DOMAIN missing /\ missing'[k] = missing[k]
    BY ForgottenKeeps
  <1>5. begun' \in Seq(Nat)
    BY <1>1, AppendProperties DEF KeyTypeOK
  <1>6. KeyTypeOK'
    BY <1>1, <1>3, <1>4, <1>5 DEF KeyTypeOK
  <1>7. \A q \in Requests : ~Loading(q)
    BY DEF MayLoad, OneLoad
  <1>8. Loading(r)' /\ \A q \in Requests \ {r} : ~Loading(q)'
    BY <1>2, <1>3, <1>7 DEF Loading
  <1>9. OneLoad'
    BY <1>2, <1>3, <1>8 DEF OneLoad
  <1>10. Past'
    BY <1>1, <1>2, <1>3, <1>4 DEF Past, KeyTypeOK
  <1>11. AttemptsKept'
    <2>1. /\ \A i \in Close' : i \in Close \/ (begun # <<>> /\ i = Len(begun))
          /\ begun # <<>> /\ at - begun[Len(begun)] >= Cooldown => Close' \subseteq Close
          /\ Newest'
      BY <1>1, CloseAppend DEF KeyTypeOK, Newest
    <2>2. CASE Newest
      <3>1. Close' \subseteq Close
        BY <2>1, <2>2 DEF MayLoad, Newest
      <3> QED  BY <2>1, <3>1 DEF AttemptsKept
    <2>3. CASE Close = {} /\ keysLoaded
      BY <2>1, <2>3 DEF AttemptsKept
    <2> QED  BY <2>2, <2>3 DEF AttemptsKept
  <1> QED
    BY <1>6, <1>9, <1>10, <1>11

LEMMA LookStep == ASSUME KeyInv, NEW r \in Requests, Look(r) PROVE KeyInv'
  <1> DEFINE kid == request[r].kid
             at == request[r].at
  <1>1. CASE Fresh(kid, at) /\ Answered(r, TRUE) /\ UNCHANGED <<cacheVars, begun>>
    BY <1>1, AnswerStep DEF Look, cacheVars
  <1>2. CASE Asleep(kid, at) /\ Answered(r, FALSE) /\ UNCHANGED <<cacheVars, begun>>
    BY <1>2, AnswerStep DEF Look, cacheVars
  <1>3. CASE /\ Answered(r, kid \in keys) /\ missing' = Forgotten(kid)
             /\ UNCHANGED <<keys, keysLoaded, keysLoadedAt, lastAttempt, inFlight, begun>>
    <2>1. (kid \in keys) \in BOOLEAN
      OBVIOUS
    <2> QED  BY <1>3, <2>1, AnswerStep DEF Look
  <1>4. CASE /\ MayLoad(at)
             /\ Update(r, [request[r] EXCEPT !.pc = "load", !.warm = keysLoaded])
             /\ lastAttempt' = at /\ inFlight' = TRUE /\ missing' = Forgotten(kid)
             /\ begun' = Append(begun, at)
             /\ UNCHANGED <<keys, keysLoaded, keysLoadedAt>>
    BY <1>4, BeginStep DEF Look
  <1> QED
    BY <1>1, <1>2, <1>3, <1>4 DEF Look

LEMMA LoadStep == ASSUME KeyInv, NEW r \in Requests, Load(r) PROVE KeyInv'
  <1> USE DEF KeyInv
  <1>1. PICK got \in {Parsed(published), {}} :
            Update(r, [request[r] EXCEPT !.pc = "land", !.got = got])
    BY DEF Load
  <1> DEFINE v == [request[r] EXCEPT !.pc = "land", !.got = got]
  <1>2. /\ v \in RequestType /\ v.pc = "land" /\ v.at = request[r].at
        /\ v.warm = request[r].warm
    <2>1. got \subseteq Kids
      BY ParsedKids DEF KeyTypeOK
    <2>2. request[r] \in RequestType
      BY DEF KeyTypeOK
    <2> QED  BY <2>1, <2>2 DEF RequestType
  <1>3. /\ request' \in [Requests -> RequestType] /\ request'[r] = v
        /\ \A q \in Requests \ {r} : request'[q] = request[q]
    BY <1>1, <1>2, UpdateKeeps
  <1>4. KeyTypeOK'
    BY <1>3 DEF KeyTypeOK, Load, cacheVars
  <1>5. \A q \in Requests : Loading(q)' <=> Loading(q)
    BY <1>2, <1>3 DEF Loading, Load
  <1>6. OneLoad'
    BY <1>2, <1>3, <1>5 DEF OneLoad, Load, cacheVars
  <1>7. Past'
    BY <1>2, <1>3 DEF Past, Load, cacheVars, KeyTypeOK
  <1>8. AttemptsKept'
    BY DEF AttemptsKept, Newest, Close, Load, cacheVars
  <1> QED
    BY <1>4, <1>6, <1>7, <1>8

LEMMA LandStep == ASSUME KeyInv, NEW r \in Requests, Land(r) PROVE KeyInv'
  <1> USE DEF KeyInv
  <1> DEFINE got == request[r].got
             kid == request[r].kid
             found == kid \in got
  <1>1. /\ request[r].pc = "land" /\ inFlight' = FALSE /\ Answered(r, found) /\ ended' = now
        /\ UNCHANGED <<published, now, begun>>
    BY DEF Land, Landed
  <1>2. /\ request' \in [Requests -> RequestType]
        /\ request'[r].pc = "idle" /\ request'[r].at = 0
        /\ \A q \in Requests \ {r} : request'[q] = request[q]
    <2>1. found \in BOOLEAN
      OBVIOUS
    <2> QED  BY <1>1, <2>1, AnsweredKeeps
  <1>3. got \subseteq Kids /\ request[r].warm \in BOOLEAN
    BY DEF KeyTypeOK, RequestType
  <1>4. /\ Loading(r) /\ request[r].warm = keysLoaded
        /\ \A q \in Requests : ~Loading(q)'
    BY <1>1, <1>2 DEF Loading, OneLoad
  <1>5. \A k \in DOMAIN missing' : missing'[k] \in Nat /\ missing'[k] <= now
    <2>1. \A k \in DOMAIN Noted(kid, <<>>) : Noted(kid, <<>>)[k] \in Nat /\ Noted(kid, <<>>)[k] <= now
      BY DEF Noted, KeyTypeOK
    <2>2. \A k \in DOMAIN Noted(kid, missing) :
             Noted(kid, missing)[k] \in Nat /\ Noted(kid, missing)[k] <= now
      BY NotedIsPast
    <2>3. \A k \in DOMAIN Noted(kid, Forgotten(Oldest)) :
             /\ Noted(kid, Forgotten(Oldest))[k] \in Nat
             /\ Noted(kid, Forgotten(Oldest))[k] <= now
      BY NotedIsPast, ForgottenKeeps
    <2>4. \A k \in DOMAIN <<>> : FALSE
      OBVIOUS
    <2>5. missing' \in {<<>>, Noted(kid, <<>>), Noted(kid, missing), Noted(kid, Forgotten(Oldest))}
      BY DEF Land
    <2> QED  BY <2>1, <2>2, <2>3, <2>4, <2>5
  <1>6. \/ /\ got # {} /\ keys' = got /\ keysLoaded' = TRUE /\ keysLoadedAt' = now
           /\ lastAttempt' = IF ~request[r].warm /\ found THEN 0 ELSE lastAttempt
        \/ UNCHANGED <<keys, keysLoaded, keysLoadedAt, lastAttempt>>
    BY DEF Land, NextAttempt
  <1>7. KeyTypeOK'
    <2>1. published' \in Documents /\ now' \in Nat /\ begun' \in Seq(Nat) /\ ended' \in Nat
      BY <1>1 DEF KeyTypeOK
    <2>2. keysLoaded' \in BOOLEAN /\ keys' \subseteq Kids
      BY <1>3, <1>6 DEF KeyTypeOK
    <2>3. keysLoadedAt' \in Nat /\ lastAttempt' \in Nat
      BY <1>6 DEF KeyTypeOK
    <2> QED  BY <1>1, <1>2, <1>5, <2>1, <2>2, <2>3 DEF KeyTypeOK
  <1>8. OneLoad'
    BY <1>1, <1>4 DEF OneLoad
  <1>9. Past'
    BY <1>1, <1>2, <1>5, <1>6 DEF Past, KeyTypeOK
  <1>10. AttemptsKept'
    <2>1. Close' = Close /\ inFlight
      BY <1>1, <1>4 DEF Close, OneLoad
    <2>2. CASE lastAttempt' = lastAttempt
      <3>1. Newest' <=> Newest
        BY <1>1, <2>2 DEF Newest
      <3>2. keysLoaded => keysLoaded'
        BY <1>6
      <3> QED  BY <2>1, <3>1, <3>2 DEF AttemptsKept
    <2>3. CASE keysLoaded' = TRUE /\ ~request[r].warm
      BY <1>1, <1>4, <2>1, <2>3 DEF AttemptsKept
    <2> QED  BY <1>6, <2>2, <2>3
  <1> QED
    BY <1>7, <1>8, <1>9, <1>10

LEMMA KeyInvNext == KeyInv /\ [KeyNext]_keyVars => KeyInv'
  <1> SUFFICES ASSUME KeyInv, [KeyNext]_keyVars PROVE KeyInv'
    OBVIOUS
  <1> USE DEF KeyInv
  <1>1. ASSUME NEW r \in Requests, Ask(r) \/ Look(r) \/ Load(r) \/ Land(r) PROVE KeyInv'
    BY <1>1, AskStep, LookStep, LoadStep, LandStep
  <1>2. CASE Rotate
    <2>1. KeyTypeOK'
      BY <1>2 DEF Rotate, KeyTypeOK, cacheVars
    <2> QED  BY <1>2, <2>1 DEF Rotate, cacheVars, OneLoad, Loading, Past, AttemptsKept, Newest, Close
  <1>3. CASE Tick
    <2>1. KeyTypeOK'
      BY <1>3 DEF Tick, KeyTypeOK, cacheVars
    <2>2. Past'
      <3>1. \A r \in Requests : request[r].at \in Nat
        BY DEF KeyTypeOK, RequestType
      <3> QED  BY <1>3, <3>1 DEF Tick, cacheVars, Past, KeyTypeOK
    <2> QED  BY <1>3, <2>1, <2>2 DEF Tick, cacheVars, OneLoad, Loading, AttemptsKept, Newest, Close
  <1>4. CASE UNCHANGED keyVars
    BY <1>4 DEF keyVars, cacheVars, KeyTypeOK, OneLoad, Loading, Past, AttemptsKept, Newest, Close
  <1> QED
    BY <1>1, <1>2, <1>3, <1>4 DEF KeyNext

-----------------------------------------------------------------------------
(* The theorems.                                                           *)

\* Two loads of the provider's keys begin a cooldown apart, but for one pair: the first load
\* that ever worked and the one after it, whatever kids the bearers name and however the
\* loads end (key_for: last_refresh_attempt, and its reset at the first success).
THEOREM LoadsSpaced == KeySpec => []LoadsAreSpaced
  <1>1. KeyInv => LoadsAreSpaced
    <2> SUFFICES ASSUME KeyInv PROVE Cardinality(Close) <= 1
      BY DEF LoadsAreSpaced
    <2>1. \A i, j \in Close : i = j
      BY DEF KeyInv, AttemptsKept
    <2>2. CASE Close = {}
      BY <2>2, FS_EmptySet
    <2>3. CASE Close # {}
      <3>1. PICK i : Close = {i}
        BY <2>1, <2>3
      <3>2. Cardinality({i}) = 1
        BY FS_Singleton
      <3> QED  BY <3>1, <3>2
    <2> QED  BY <2>2, <2>3
  <1> QED
    BY <1>1, KeyInvInit, KeyInvNext, PTL DEF KeySpec

\* No load that fails, throws or lacks the kid shuts a kid out for longer than a cooldown
\* after its end (key_for: refresh_in_flight, missing_kids).
THEOREM AnswersBacked == KeySpec => AnswersAreBacked
  <1> DEFINE Backed ==
        \A r \in Requests : request[r].pc = "ask" /\ request'[r].pc = "idle" =>
          \/ Fresh(request[r].kid, request[r].at)
          \/ \E q \in Requests : request[q].pc \in {"load", "land"}
          \/ request[r].at - ended < Cooldown
  <1>1. KeyInv /\ KeyNext => Backed
    <2> SUFFICES ASSUME KeyInv, KeyNext, NEW r \in Requests,
                        request[r].pc = "ask", request'[r].pc = "idle",
                        ~Fresh(request[r].kid, request[r].at), ~inFlight
                 PROVE  request[r].at - ended < Cooldown
      BY DEF Backed, KeyInv, OneLoad, Loading
    <2>1. /\ request[r].at \in Nat /\ ended \in Nat /\ lastAttempt \in Nat /\ Cooldown \in Nat
          /\ \A k \in DOMAIN missing : missing[k] \in Nat /\ missing[k] <= ended
          /\ lastAttempt <= ended /\ request \in [Requests -> RequestType]
      BY ConstantsType DEF KeyInv, KeyTypeOK, Past, RequestType
    <2>2. Look(r)
      <3>1. ASSUME NEW q \in Requests, Ask(q) \/ Load(q) \/ Land(q) PROVE FALSE
        <4>1. request[q].pc # "ask"
          BY <3>1 DEF Ask, Load, Land
        <4>2. request'[r] = request[r]
          BY <2>1, <3>1, <4>1 DEF Ask, Load, Land, Update, Answered
        <4> QED  BY <4>2
      <3>2. ASSUME NEW q \in Requests, Look(q) PROVE q = r
        BY <2>1, <3>2 DEF Look, Update, Answered
      <3> QED  BY <3>1, <3>2 DEF KeyNext, Rotate, Tick
    <2>3. CASE Asleep(request[r].kid, request[r].at)
      BY <2>1, <2>3 DEF Asleep
    <2>4. CASE ~MayLoad(request[r].at)
      BY <2>1, <2>4 DEF MayLoad
    <2>5. CASE Update(r, [request[r] EXCEPT !.pc = "load", !.warm = keysLoaded])
      <3>1. request'[r].pc = "load"
        BY <2>1, <2>5 DEF Update, RequestType
      <3> QED  BY <3>1
    <2> QED  BY <2>2, <2>3, <2>4, <2>5 DEF Look
  <1>2. KeyInv /\ [KeyNext]_keyVars => [Backed]_keyVars
    BY <1>1
  <1> QED
    BY <1>2, KeyInvInit, KeyInvNext, PTL DEF KeySpec, AnswersAreBacked
=============================================================================
