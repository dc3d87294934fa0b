-------------------------- MODULE MCHostedIdentity --------------------------
(***************************************************************************)
(* Two subjects, two API processes, one guest and three games of which an  *)
(* owner may keep two; or two requests of one process that ask for keys.   *)
(* The tables and the keys share nothing, so a behaviour takes one of the  *)
(* two scenes.                                                             *)
(***************************************************************************)
EXTENDS HostedIdentity, KeyCache, TLC

VARIABLE scene

Entry(k, u) == [kid |-> k, usable |-> u]
MCDocuments ==
    LET k == CHOOSE k \in Kids : TRUE
        l == CHOOSE l \in Kids : l # k
    IN {<<Entry(k, TRUE), Entry(l, FALSE)>>, <<Entry(l, TRUE)>>, <<Entry(k, TRUE), Entry(k, TRUE)>>}

SceneInit ==
    /\ Init /\ KeyInit
    /\ \/ scene = "keys" /\ \A g \in Guests : sessions[g] = NoSession
       \/ scene = "tables" /\ Parsed(published) = {}
TableStep == scene = "tables" /\ Next /\ UNCHANGED <<scene, keyVars>>
KeyStep == scene = "keys" /\ KeyNext /\ UNCHANGED <<scene, vars>>
SceneSpec == SceneInit /\ [][TableStep \/ KeyStep]_<<vars, scene, keyVars>>

Symmetry == Permutations(Games) \cup Permutations(Keys) \cup Permutations(Identities)
=============================================================================
