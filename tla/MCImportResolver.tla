-------------------------- MODULE MCImportResolver --------------------------
(* Instances of ImportResolver for TLC.                                    *)
EXTENDS ImportResolver

MCUsers == {"alice", "bob"}
=============================================================================
