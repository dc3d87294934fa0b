---------------------------- MODULE MCArchiveSync ----------------------------
(* Instances of ArchiveSync for TLC: the games of one player over two      *)
(* months of one tick, one of them with a record that cannot be read.      *)
EXTENDS ArchiveSync

MCGames     == {"g0", "g1", "g2", "g3"}
MCUsers     == {"alice", "bob"}
MCMalformed == {"g3"}
MCPlayedBy  == [g \in MCGames |-> "alice"]
MCPlayedAt  == [g \in MCGames |-> IF g = "g0" THEN 0 ELSE 1]
MCMaxMonths == [d \in Windows |-> 2]
=============================================================================
