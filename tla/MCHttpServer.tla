---------------------------- MODULE MCHttpServer ----------------------------
(***************************************************************************)
(* Two requests on two client threads meet in every way, with room for one *)
(* scope between two owners, one of them an account with a job to recover. *)
(***************************************************************************)
EXTENDS HttpServer
MCScopes == 1 .. 3
MCThreads == {11, 12}
MCManagers == {Default} \cup MCScopes
MCNotifiers == MCManagers \cup MCThreads
=============================================================================
