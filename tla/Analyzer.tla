------------------------------ MODULE Analyzer ------------------------------
(***************************************************************************)
(* The reviews of Analyzer (src/src/analysis/analyzer.cpp) and the         *)
(* AnalysisCache it asks before the engine: analyze_shallow scans every    *)
(* position of a game, analyze_deep looks again at the plies that deserve  *)
(* it and ranks the mistakes.  The engine is a StockfishSession that may   *)
(* fail at every question; a review that fails is given up as a whole, but *)
(* the answers it got stay in the cache.                                   *)
(*                                                                         *)
(* A score is the engine's, for the side to move.  The loss of a move is   *)
(* the difference of two scores, its quality that of the points they       *)
(* promise: the greater loss need not be the worse quality.  Sacrifices    *)
(* and moves with one acceptable alternative are a constant set of plies.  *)
(***************************************************************************)
EXTENDS StockfishSession, SequencesExt

CONSTANTS Plies,      \* the plies of the game
          Special,    \* plies that get a deep look whatever their loss
          Inaccurate, \* the scores before and after a move that make it an inaccuracy or worse
          Threshold,  \* AnalyzerOptions::candidate_threshold_cp
          MaxDeep,    \* AnalyzerOptions::max_deep_candidates
          Top,        \* AnalyzerOptions::top_mistakes
          MaxEntries, \* AnalysisCache::max_entries_
          MaxReviews  \* scans that are finished

ASSUME AnalyzerConstants ==
    /\ Plies \in Nat \ {0} /\ Special \subseteq 1 .. Plies
    /\ Inaccurate \subseteq Int \X Int /\ Threshold \in Int
    /\ {MaxDeep, Top, MaxEntries, MaxReviews} \subseteq Nat
    /\ Questions = (0 .. Plies) \X {"shallow", "deep"}

VARIABLES
    cache,   \* values_: the questions answered, each with its answer
    order,   \* insertion_order_
    task,    \* the review under way: stage, the plies it looks at, questions, answers
    review,  \* the last GameAnalysis: moves, mistakes, and how far it is
    reviews

cacheVars == <<cache, order>>
vars == <<sessionVars, cacheVars, task, review, reviews>>

NoTask == [stage |-> "none", plies |-> <<>>, todo |-> <<>>, got |-> <<>>, asking |-> FALSE]
NoReview == [state |-> "none", moves |-> <<>>, mistakes |-> <<>>]

Init ==
    /\ SessionInit
    /\ cache = <<>> /\ order = <<>> /\ task = NoTask /\ review = NoReview
    /\ reviews = 0

-----------------------------------------------------------------------------
(* AnalysisCache.                                                           *)

\* put: an answer to a new question drives out the oldest ones when the cache is full.
Dropped == SubSeq(order, 1, Len(order) + 1 - MaxEntries)
Put(q, a) ==
    IF q \in DOMAIN cache THEN cache' = [cache EXCEPT ![q] = a] /\ UNCHANGED order
    ELSE IF MaxEntries = 0 THEN UNCHANGED cacheVars
    ELSE /\ cache' = [k \in (DOMAIN cache \ ToSet(Dropped)) \cup {q} |->
                          IF k = q THEN a ELSE cache[k]]
         /\ order' = Append(SubSeq(order, Len(Dropped) + 1, Len(order)), q)

-----------------------------------------------------------------------------
(* The losses of the moves, and what follows from them.                     *)

Positive(n) == IF n > 0 THEN n ELSE 0
\* Before a ply its mover is to move, after it the opponent.
Loss(before, after) == Positive(before.score + after.score)
Move(before, after, state) == [loss |-> Loss(before, after), state |-> state,
                               bad |-> <<before.score, after.score>> \in Inaccurate,
                               of |-> <<before.of, after.of>>]

\* The stable sorts of some places of plies: by loss, then in the order they had.
Precedes(moves, plies, i, j) ==
    \/ moves[plies[i]].loss > moves[plies[j]].loss
    \/ moves[plies[i]].loss = moves[plies[j]].loss /\ i < j
Rank(moves, plies, places, i) == Cardinality({j \in places : Precedes(moves, plies, j, i)})
ByLoss(moves, plies, places) ==
    [n \in 1 .. Cardinality(places) |->
        plies[CHOOSE i \in places : Rank(moves, plies, places, i) = n - 1]]
First(s, n) == SubSeq(s, 1, IF Len(s) < n THEN Len(s) ELSE n)

AllPlies == [p \in 1 .. Plies |-> p]
Deserves(moves, p) == moves[p].bad \/ p \in Special \/ moves[p].loss >= Threshold
Deserving(moves, bad) == {p \in 1 .. Plies : Deserves(moves, p) /\ moves[p].bad = bad}
\* The inaccurate moves go before the others.
Candidates(moves) == First(ByLoss(moves, AllPlies, Deserving(moves, TRUE))
                             \o ByLoss(moves, AllPlies, Deserving(moves, FALSE)), MaxDeep)

Questions2(plies, depth) ==
    [i \in 1 .. 2 * Len(plies) |-> <<plies[(i + 1) \div 2] - (i % 2), depth>>]

\* The answers of the i-th ply of the task.
Assessed(i, state) == Move(task.got[2 * i - 1], task.got[2 * i], state)

Verified ==
    [p \in 1 .. Plies |->
        IF \E i \in DOMAIN task.plies : task.plies[i] = p
        THEN Assessed(CHOOSE i \in DOMAIN task.plies : task.plies[i] = p, "final")
        ELSE [review.moves[p] EXCEPT !.state = "final"]]
Errors(moves) == {i \in DOMAIN task.plies : moves[task.plies[i]].bad}
Mistakes_Unsorted(moves) ==                                                  \* mutant
    ByLoss(moves, task.plies,
           {i \in Errors(moves) : Cardinality({j \in Errors(moves) : j < i}) < Top})
Mistakes(moves) == First(ByLoss(moves, task.plies, Errors(moves)), Top)

-----------------------------------------------------------------------------
(* analyze_shallow and analyze_deep.                                        *)

Task(stage, plies, depth) == [NoTask EXCEPT !.stage = stage, !.plies = plies,
                                            !.todo = Questions2(plies, depth)]

BeginShallow ==
    /\ task = NoTask /\ reviews < MaxReviews
    /\ task' = Task("shallow", AllPlies, "shallow")
    /\ UNCHANGED <<sessionVars, cacheVars, review, reviews>>

BeginDeep ==
    /\ task = NoTask /\ review.state = "provisional"
    /\ task' = Task("deep", Candidates(review.moves), "deep")
    /\ UNCHANGED <<sessionVars, cacheVars, review, reviews>>

\* analyze_cached: the cache, else the engine.
Question == task.todo[Len(task.got) + 1]
Busy == task.stage # "none" /\ ~task.asking /\ Len(task.got) < Len(task.todo)

Lookup ==
    /\ Busy /\ Question \in DOMAIN cache
    /\ task' = [task EXCEPT !.got = Append(@, cache[Question])]
    /\ UNCHANGED <<sessionVars, cacheVars, review, reviews>>

AskEngine ==
    /\ Busy /\ Question \notin DOMAIN cache
    /\ Analyze(Question)
    /\ task' = [task EXCEPT !.asking = TRUE]
    /\ UNCHANGED <<cacheVars, review, reviews>>

Receive ==
    /\ task.asking /\ call.pc = "idle" /\ call.answer.kind = "found"
    /\ Put(Question, call.answer)
    /\ task' = [task EXCEPT !.got = Append(@, call.answer), !.asking = FALSE]
    /\ UNCHANGED <<sessionVars, review, reviews>>

\* The exception leaves the analyzer; the pool drops the engine of the worker, whose
\* destructor stops it, and a direct user of Stockfish keeps it.
Fail ==
    /\ task.asking /\ call.pc = "idle" /\ call.answer.kind = "error"
    /\ task' = NoTask
    /\ engine' \in {engine, NoProcess}
    /\ UNCHANGED <<call, faults, stops, cacheVars, review, reviews>>

\* The stop token is looked at before every ply of the shallow scan.
Cancelled ==
    /\ task.stage = "shallow" /\ Busy /\ Len(task.got) % 2 = 0 /\ Strike
    /\ task' = NoTask
    /\ UNCHANGED <<call, engine, faults, cacheVars, review, reviews>>

Answered == task.stage # "none" /\ Len(task.got) = Len(task.todo)

FinishShallow ==
    /\ Answered /\ task.stage = "shallow"
    /\ review' = [state |-> "provisional", mistakes |-> <<>>,
                  moves |-> [p \in 1 .. Plies |-> Assessed(p, "provisional")]]
    /\ task' = NoTask /\ reviews' = reviews + 1
    /\ UNCHANGED <<sessionVars, cacheVars>>

FinishDeep ==
    /\ Answered /\ task.stage = "deep"
    /\ review' = [state |-> "final", moves |-> Verified, mistakes |-> Mistakes(Verified)]
    /\ task' = NoTask
    /\ UNCHANGED <<sessionVars, cacheVars, reviews>>

AnalyzerStep == BeginShallow \/ BeginDeep \/ Lookup \/ AskEngine \/ Receive \/ Fail \/ Cancelled
                \/ FinishShallow \/ FinishDeep
reviewVars == <<cacheVars, task, review, reviews>>
Client == ClientStep /\ UNCHANGED reviewVars
Commands == ChildObeys /\ UNCHANGED reviewVars
Searches == ChildFinishes /\ UNCHANGED reviewVars
Mishaps == (ChildPrints \/ ChildDies) /\ UNCHANGED reviewVars
Next == AnalyzerStep \/ Client \/ Commands \/ Searches \/ Mishaps

\* The client's thread runs; the child does what it is told, or a timeout strikes.
Fairness == WF_vars(AnalyzerStep) /\ WF_vars(Client) /\ WF_vars(Commands) /\ WF_vars(Searches)
Spec == Init /\ [][Next]_vars /\ Fairness
-----------------------------------------------------------------------------
(* Properties.                                                              *)

\* An answer in the cache is the one of its own position and depth, lines and bestmove
\* alike, whatever was interrupted, restarted or late before it (stockfish.cpp:362, where a
\* stopped search still owes its bestmove), and the queue of the cache holds each of its
\* keys once, within its limit (analyzer.cpp:675).
CacheIsExact ==
    /\ \A q \in DOMAIN cache : cache[q].of = q /\ cache[q].lines \subseteq {q}
    /\ ToSet(order) = DOMAIN cache /\ IsInjective(order) /\ Len(order) <= MaxEntries

\* In a finished review every listed mistake was seen in the answers of its own two positions
\* at full depth, the list falls in loss and has its limit, and no mistake found is left out
\* for a lesser one (analyzer.cpp:952, the sort before the resize).
Deep(p) == review.moves[p].of = << <<p - 1, "deep">>, <<p, "deep">> >>
MistakesAreWorst ==
    review.state = "final" =>
        /\ Len(review.mistakes) <= Top /\ IsInjective(review.mistakes)
        /\ \A i \in DOMAIN review.mistakes :
               LET p == review.mistakes[i]
               IN /\ Deep(p) /\ review.moves[p].bad
                  /\ \A q \in 1 .. Plies :
                         Deep(q) /\ review.moves[q].bad
                           /\ review.moves[q].loss > review.moves[p].loss =>
                             \E j \in 1 .. i - 1 : review.mistakes[j] = q

\* Every review ends, although its engine may die, hang or be replaced at any read: start,
\* analyze and the wait for a stopped search all have deadlines (stockfish.cpp:345).
ReviewsEnd == task.stage # "none" ~> task.stage = "none"

=============================================================================
