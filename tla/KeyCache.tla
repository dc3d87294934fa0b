------------------------------ MODULE KeyCache ------------------------------
(***************************************************************************)
(* The signing keys that OidcTokenVerifier keeps for the bearers it        *)
(* verifies (src/src/service/oidc_token_verifier.cpp): key_for answers     *)
(* from the cache, or loads the provider's key set outside of the lock,    *)
(* one load at a time, not more often than a cooldown allows.              *)
(*                                                                         *)
(* Of a bearer whose claims pass only the kid matters; its signature fits  *)
(* the key or not.  The account it names is HostedIdentity's matter.       *)
(***************************************************************************)
EXTENDS Integers, Sequences, FiniteSets

CONSTANTS Kids, Requests,
          Documents,   \* what the provider may publish: sequences of keys, usable or not
          Cooldown,    \* key_refresh_cooldown
          Lifetime,    \* key_cache_ttl
          MaxMissing,  \* max_missing_kid_count
          MaxTime      \* bound: the clock

ASSUME KeyCacheConstants ==
    /\ Documents \subseteq Seq([kid : Kids, usable : BOOLEAN])
    /\ {Cooldown, Lifetime, MaxMissing} \subseteq Nat \ {0} /\ MaxTime \in Nat

VARIABLES
    published,    \* the provider's document
    now,          \* steady_clock, which counts from the start of the host
    keys,         \* the kids of keys
    keysLoaded,   \* keys_loaded
    keysLoadedAt, \* keys_loaded_at
    lastAttempt,  \* last_refresh_attempt, 0 as long as there was none
    inFlight,     \* refresh_in_flight
    missing,      \* missing_kids: when each was last looked for in vain
    request,      \* the request on each thread
    begun,        \* the times of the loads so far
    ended         \* when the last of them ended

cacheVars == <<keys, keysLoaded, keysLoadedAt, lastAttempt, inFlight, missing>>
keyVars == <<published, now, cacheVars, request, begun, ended>>

Nobody == CHOOSE k \in Kids : TRUE
IdleAs(owner) == [pc |-> "idle", kid |-> Nobody, at |-> 0, warm |-> FALSE, got |-> {}, owner |-> owner]
KeyInit ==
    /\ published \in Documents /\ now = 0
    /\ keys = {} /\ keysLoaded = FALSE /\ keysLoadedAt = 0
    /\ lastAttempt = 0 /\ inFlight = FALSE /\ missing = <<>>
    /\ request = [r \in Requests |-> IdleAs(FALSE)]
    /\ begun = <<>> /\ ended = 0

\* parse_jwks: the keys that can be used, or none at all when two of them share a kid.
Parsed(document) ==
    LET usable == {i \in DOMAIN document : document[i].usable}
        kids == {document[i].kid : i \in usable}
    IN IF Cardinality(kids) = Cardinality(usable) THEN kids ELSE {}

Update(r, fields) == request' = [request EXCEPT ![r] = fields]
\* verify: the key of the kid, and the signature with it.
Answered(r, found) == \E signed \in BOOLEAN : Update(r, IdleAs(found /\ signed))

\* The clock is read before the lock is taken.
Ask(r) ==
    /\ request[r].pc = "idle"
    /\ \E kid \in Kids : Update(r, [IdleAs(FALSE) EXCEPT !.pc = "ask", !.kid = kid, !.at = now])
    /\ UNCHANGED <<published, now, cacheVars, begun, ended>>

Fresh(kid, at) == keysLoaded /\ at - keysLoadedAt <= Lifetime /\ kid \in keys
Asleep(kid, at) == kid \in DOMAIN missing /\ at - missing[kid] < Cooldown
MayLoad_Anytime(at) == ~inFlight                                             \* mutant
MayLoad(at) == ~inFlight /\ at - lastAttempt >= Cooldown
Forgotten(kid) == [k \in DOMAIN missing \ {kid} |-> missing[k]]

\* The first critical section of key_for.
Look(r) ==
    LET kid == request[r].kid at == request[r].at
    IN /\ request[r].pc = "ask"
       /\ \/ /\ Fresh(kid, at) /\ Answered(r, TRUE)
             /\ UNCHANGED <<cacheVars, begun>>
          \/ /\ ~Fresh(kid, at) /\ Asleep(kid, at) /\ Answered(r, FALSE)
             /\ UNCHANGED <<cacheVars, begun>>
          \/ /\ ~Fresh(kid, at) /\ ~Asleep(kid, at) /\ ~MayLoad(at)
             /\ Answered(r, kid \in keys) /\ missing' = Forgotten(kid)
             /\ UNCHANGED <<keys, keysLoaded, keysLoadedAt, lastAttempt, inFlight, begun>>
          \/ /\ ~Fresh(kid, at) /\ ~Asleep(kid, at) /\ MayLoad(at)
             /\ Update(r, [request[r] EXCEPT !.pc = "load", !.warm = keysLoaded])
             /\ lastAttempt' = at /\ inFlight' = TRUE /\ missing' = Forgotten(kid)
             /\ begun' = Append(begun, at)
             /\ UNCHANGED <<keys, keysLoaded, keysLoadedAt>>
       /\ UNCHANGED <<published, now, ended>>

\* load_jwks, without the lock: the document as it is now, or nothing.
Load(r) ==
    /\ request[r].pc = "load"
    /\ \E got \in {Parsed(published), {}} : Update(r, [request[r] EXCEPT !.pc = "land", !.got = got])
    /\ UNCHANGED <<published, now, cacheVars, begun, ended>>

\* A full list of missing kids forgets the one that is oldest.
Oldest == CHOOSE k \in DOMAIN missing : \A l \in DOMAIN missing : missing[k] <= missing[l]
Noted(kid, old) == [k \in DOMAIN old \cup {kid} |-> IF k = kid THEN now ELSE old[k]]

\* Only the first load ever may be followed by another one at once.
NextAttempt(r, found) == IF ~request[r].warm /\ found THEN 0 ELSE lastAttempt
Landed_OnSuccess(got) == inFlight' = (got = {})                              \* mutant
Landed(got) == inFlight' = FALSE

\* The second critical section of key_for.
Land(r) ==
    LET kid == request[r].kid got == request[r].got found == kid \in got
    IN /\ request[r].pc = "land" /\ Landed(got) /\ Answered(r, found) /\ ended' = now
       /\ \/ /\ got # {}
             /\ keys' = got /\ keysLoaded' = TRUE /\ keysLoadedAt' = now
             /\ missing' = IF found THEN <<>> ELSE Noted(kid, <<>>)
             /\ lastAttempt' = NextAttempt(r, found)
          \/ /\ got = {}
             /\ missing' = Noted(kid, IF Cardinality(DOMAIN missing) < MaxMissing THEN missing
                                      ELSE Forgotten(Oldest))
             /\ UNCHANGED <<keys, keysLoaded, keysLoadedAt, lastAttempt>>
       /\ UNCHANGED <<published, now, begun>>

Rotate == published' \in Documents \ {published} /\ UNCHANGED <<now, cacheVars, request, begun, ended>>
Tick == /\ now < MaxTime /\ now' = now + 1
        /\ UNCHANGED <<published, cacheVars, request, begun, ended>>

KeyNext == (\E r \in Requests : Ask(r) \/ Look(r) \/ Load(r) \/ Land(r)) \/ Rotate \/ Tick
KeySpec == KeyInit /\ [][KeyNext]_keyVars
-----------------------------------------------------------------------------
(* Properties.                                                              *)

\* Whatever kids the bearers name and however the loads end, two loads begin a cooldown
\* apart, but for one pair: the first load that ever worked and the one after it
\* (oidc_token_verifier.cpp:370, "must not turn an untrusted kid into an outbound request").
Close == {i \in 1 .. Len(begun) - 1 : begun[i + 1] - begun[i] < Cooldown}
LoadsAreSpaced == Cardinality(Close) <= 1

\* A bearer is refused, or judged by a key past its lifetime, without a load of its own only
\* while another request loads or within a cooldown of a load's end (or of the start of the
\* host): no load that fails, throws or lacks the kid shuts a kid out for longer.
AnswersAreBacked ==
    [][\A r \in Requests : request[r].pc = "ask" /\ request'[r].pc = "idle" =>
          \/ Fresh(request[r].kid, request[r].at)
          \/ \E q \in Requests : request[q].pc \in {"load", "land"}
          \/ request[r].at - ended < Cooldown]_keyVars

=============================================================================
