----------------------------- MODULE MCEngines ------------------------------
(***************************************************************************)
(* A game of two plies: three positions, each asked for at both depths,    *)
(* and scores in pawns.  The scan sees either move as the greater loss,    *)
(* and the first one perhaps as a pawn too little to matter; the deep look *)
(* may see anything.  Or two callers of a pool of two workers.             *)
(* EnginePool leaves what an engine does to Analyzer, and Analyzer who     *)
(* waits for it to EnginePool: they share no variable, so a behaviour      *)
(* takes one of the two scenes.                                            *)
(***************************************************************************)
EXTENDS Analyzer, EnginePool

AllQuestions == (0 .. 2) \X {"shallow", "deep"}
Scanned(position) == CASE position = 0 -> {7, 9} [] position = 1 -> {-6} [] position = 2 -> {8}
AllScores == [q \in AllQuestions |-> IF q[2] = "deep" THEN {0, 1} ELSE Scanned(q[1])]
\* Of the moves above, those that lose more than 0.05 of the expected points.
Losing == {<<9, -6>>, <<-6, 8>>, <<0, 1>>, <<1, 0>>, <<1, 1>>}

VARIABLE scene

SceneInit == scene \in {"review", "pool"} /\ Init /\ PoolInit
ReviewStep == scene = "review" /\ Next /\ UNCHANGED <<scene, allVars>>
PoolStep == scene = "pool" /\ PoolNext /\ UNCHANGED <<scene, vars>>

\* The fairness of Analyzer's Spec and of PoolFairSpec, each in its scene.
InReview(step) == scene = "review" /\ step /\ UNCHANGED <<scene, allVars>>
InPool(step) == scene = "pool" /\ step /\ UNCHANGED <<scene, vars>>
SceneSpec ==
    /\ SceneInit /\ [][ReviewStep \/ PoolStep]_<<scene, vars, allVars>>
    /\ WF_vars(InReview(AnalyzerStep)) /\ WF_vars(InReview(Client))
    /\ WF_vars(InReview(Commands)) /\ WF_vars(InReview(Searches))
    /\ \A w \in Workers : WF_allVars(InPool(WorkerStep(w)))
    /\ \A c \in Callers : WF_allVars(InPool(CallerProceeds(c)))
    /\ WF_allVars(InPool(Destructor))

=============================================================================
