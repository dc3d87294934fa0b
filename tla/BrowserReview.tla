--------------------------- MODULE BrowserReview ---------------------------
(* A game from its PGN to a review whose engine ran in the browser.           *)
(*                                                                            *)
(* parse_pgn (src/src/chess/pgn.cpp) reads the moves of a PGN on a board and   *)
(* keeps each with the position before and after it.  Tabs of the web client  *)
(* (src/web/src/browser-review.ts) then begin a run, submit what their engine *)
(* says of each of these positions and finalize the run; the three routes of  *)
(* the API (src/src/service/http_server.cpp) validate, stage, and assemble     *)
(* the review.  Requests may be answered late, twice or never; tabs may share *)
(* a run; a native analysis may save its review at any time; the server may   *)
(* stop and start again.                                                      *)
EXTENDS ChessNotation, ObservationStaging, SequencesExt

CONSTANTS
  Tabs,
  Scenarios,     \* [fen, text, ending, durable, orderly, runOf]: the PGN, the store, the clients
  Lines(_),      \* what an engine may report for a position
  MaxRestarts
ASSUME MaxRestartsAssumption == MaxRestarts \in Nat
\* A game that from_fen refuses is not stored, so it is no scenario.
ASSUME ScenariosAssumption ==
  \A s \in Scenarios : IsFen(s.fen) /\ FromFen(s.fen) # NoBoard /\ DOMAIN s.runOf = Tabs

VARIABLES
  scenario,
  board,         \* the board of parse_pgn; NoBoard once the game is stored
  plies,         \* the plies of the game
  verdicts,      \* per position, whether each line an engine may report is valid
  analysis,      \* the review that is stored
  tabs,
  sent,          \* every request a tab ever sent: any of them may still be delivered
  finalizing,    \* the handler of a tab's finalize request, by its last step
  restarts
vars == <<scenario, board, plies, verdicts, analysis, tabs, sent, finalizing, restarts, durable, runs>>

NoReview == [run |-> "none"]
NativeReview == [run |-> "native"]
NoRequest == [kind |-> "none"]
NoHandler == [at |-> "none"]
NewTab == [stage |-> "begin", asked |-> NoRequest, acks |-> <<>>]
RunOf(t) == scenario.runOf[t]

Init ==
  /\ scenario \in Scenarios
  /\ board = FromFen(scenario.fen)
  /\ plies = <<>>
  /\ verdicts = <<>>
  /\ analysis = NoReview
  /\ tabs = [t \in Tabs |-> NewTab]
  /\ sent = {}
  /\ finalizing = [t \in Tabs |-> NoHandler]
  /\ restarts = 0
  /\ InitStaging(scenario.durable)

-----------------------------------------------------------------------------
(* parse_pgn.                                                                 *)

\* One move of the text, where the text is, for each ply, the moves it may give:
\* a legal one, written so that parse_san finds it.
ReadMove ==
  /\ board # NoBoard /\ Len(plies) < Len(scenario.text)
  /\ LET legal == LegalMoves(board) IN
     \E written \in legal : Uci(written) \in scenario.text[Len(plies) + 1] /\
     \E m \in ParseSan(board, NormalSan(board, written, legal), legal) :
       /\ board' = MakeMove(board, m)
       /\ plies' = Append(plies, [before |-> ToFen(board), move |-> m,
                                  san |-> ToSan(board, m, legal), after |-> ToFen(board')])
  /\ UNCHANGED <<scenario, verdicts, analysis, tabs, sent, finalizing, restarts, durable, runs>>

Stored == board = NoBoard

-----------------------------------------------------------------------------
(* Observations and their validation.                                         *)

Expected == 2 * Len(plies)
Position(n) == [ply |-> n \div 2 + 1, fen |-> IF n % 2 = 0 THEN plies[n \div 2 + 1].before
                                                        ELSE plies[n \div 2 + 1].after]
Terminal == <<>>      \* the best move "0000"

LegalReply(b, uci) ==
  FindLegalMove(b, uci[1], uci[2], IF uci[3] = NoType THEN "Q" ELSE uci[3])

\* The board after a line; NoBoard when a move of it is illegal.
PlayLine(b, moves) ==
  FoldLeft(LAMBDA x, uci : IF x = NoBoard \/ LegalReply(x, uci) = {} THEN NoBoard
                           ELSE MakeMove(x, CHOOSE m \in LegalReply(x, uci) : TRUE), b, moves)

ValidLine(b, line) ==
  /\ b # NoBoard
  /\ IF line.best = Terminal THEN line.moves = <<>> /\ LegalMoves(b) = {}
     ELSE line.moves # <<>> /\ line.moves[1] = line.best /\ PlayLine(b, line.moves) # NoBoard

\* Validation looks at the position and the line and at nothing else, so what it
\* says of every line an engine may report is worked out once, with the game.
Verdict(fen) == [line \in Lines(FromFen(fen)) |-> ValidLine(FromFen(fen), line)]

\* The result ends the text; a PGN without moves is refused, and so is one that goes on
\* with something else than a legal move ("broken"): nothing of it is stored.
EndText ==
  /\ board # NoBoard /\ plies # <<>> /\ scenario.ending # "broken"
  /\ Len(plies) = Len(scenario.text) \/ LegalMoves(board) = {}
  /\ board' = NoBoard
  /\ verdicts' = [n \in 1..Expected |-> Verdict(Position(n - 1).fen)]
  /\ UNCHANGED <<scenario, plies, analysis, tabs, sent, finalizing, restarts, durable, runs>>

\* The positions of the game an observation may be of: one, or none.
Places(o) == {n \in 1..Expected : Position(n - 1) = [ply |-> o.ply, fen |-> o.fen]}

ValidObservation(o) == \E n \in Places(o) : verdicts[n][o.line]

\* assemble_browser_review: every position of the game exactly once.
Assembles(observations) ==
  /\ Len(observations) = Expected
  /\ \A i \in DOMAIN observations :
       ValidObservation(observations[i]) /\ Cardinality(Places(observations[i])) = 1
  /\ \A i, j \in DOMAIN observations : Places(observations[i]) = Places(observations[j]) => i = j

Review(run, observations) ==
  [run |-> run,
   lines |-> [n \in 1..Expected |->
                observations[CHOOSE i \in DOMAIN observations : n \in Places(observations[i])].line]]

-----------------------------------------------------------------------------
(* A tab: begin, then before and after each ply, then finalize, each once the *)
(* one before was answered.  An orderly tab takes the positions in order.     *)

Send(t, request) ==
  /\ tabs' = [tabs EXCEPT ![t].asked = request]
  /\ sent' = sent \cup {request}
  /\ UNCHANGED <<scenario, board, plies, verdicts, analysis, finalizing, restarts, durable, runs>>

Idle(t, stage) == Stored /\ tabs[t].stage = stage /\ tabs[t].asked = NoRequest

AskBegin(t) == Idle(t, "begin") /\ Send(t, [kind |-> "begin", tab |-> t])

AskSubmit(t) ==
  /\ Idle(t, "observe")
  /\ LET n == Len(tabs[t].acks) IN
     \E p \in IF scenario.orderly THEN {n} ELSE 0..(Expected - 1) :
     \E line \in DOMAIN verdicts[p + 1] :
       Send(t, [kind |-> "submit", tab |-> t,
                observation |-> [sequence |-> n, ply |-> Position(p).ply, fen |-> Position(p).fen,
                                 line |-> line]])

AskFinalize(t) == Idle(t, "finalize") /\ Send(t, [kind |-> "finalize", tab |-> t])

\* The user cancels, the tab is closed, or a request fails on its way.
GiveUp(t) ==
  /\ Stored /\ tabs[t].stage \notin {"complete", "failed"}
  /\ tabs' = [tabs EXCEPT ![t].stage = "failed", ![t].asked = NoRequest]
  /\ UNCHANGED <<scenario, board, plies, verdicts, analysis, sent, finalizing, restarts, durable, runs>>

Progress(tab, r) ==
  IF r.kind = "begin" THEN [tab EXCEPT !.stage = "observe", !.asked = NoRequest]
  ELSE IF r.kind = "submit"
  THEN [stage |-> IF Len(tab.acks) + 1 = Expected THEN "finalize" ELSE "observe",
        asked |-> NoRequest, acks |-> Append(tab.acks, r.observation)]
  ELSE [tab EXCEPT !.stage = "complete", !.asked = NoRequest]

\* An answer reaches the tab if it still waits for it; an error ends its run.
Answer(r, ok) ==
  tabs' = IF tabs[r.tab].asked # r THEN tabs
          ELSE [tabs EXCEPT ![r.tab] = IF ok THEN Progress(@, r)
                                       ELSE [@ EXCEPT !.stage = "failed", !.asked = NoRequest]]

-----------------------------------------------------------------------------
(* The API.  A request in "sent" may be served again.                         *)

ServeBegin(r) ==
  /\ r.kind = "begin"
  /\ LET ok == scenario.ending = "completed" /\ ~BeginRefused(RunOf(r.tab), Expected) IN
     /\ runs' = IF ok THEN Registered(RunOf(r.tab), Expected) ELSE runs
     /\ Answer(r, ok)
  /\ UNCHANGED <<scenario, board, plies, verdicts, analysis, sent, finalizing, restarts, durable>>

ServeSubmit(r) ==
  /\ r.kind = "submit"
  /\ LET o == r.observation
         valid == Places(o) # {} /\ ValidObservation(o)
     IN  /\ runs' = IF valid THEN Submitted(RunOf(r.tab), o) ELSE runs
         /\ Answer(r, valid /\ Receipt(RunOf(r.tab), o) \in {"accepted", "duplicate"})
  /\ UNCHANGED <<scenario, board, plies, verdicts, analysis, sent, finalizing, restarts, durable>>

\* finalize reads the game, finalizes the run, and then looks at what it read.
ReadGame(r) ==
  /\ r.kind = "finalize" /\ finalizing[r.tab] = NoHandler
  /\ finalizing' = [finalizing EXCEPT ![r.tab] = [at |-> "read", seen |-> analysis]]
  /\ UNCHANGED <<scenario, board, plies, verdicts, analysis, tabs, sent, restarts, durable, runs>>

FinalizeRun(r) ==
  /\ r.kind = "finalize" /\ finalizing[r.tab].at = "read"
  /\ LET refused == FinalizeRefused(RunOf(r.tab)) IN
     /\ runs' = IF refused THEN runs ELSE Finalized(RunOf(r.tab))
     /\ finalizing' = [finalizing EXCEPT ![r.tab] =
          IF refused THEN NoHandler
          ELSE [at |-> "staged", seen |-> @.seen, bundle |-> runs[RunOf(r.tab)].observations]]
     /\ IF refused THEN Answer(r, FALSE) ELSE UNCHANGED tabs
  /\ UNCHANGED <<scenario, board, plies, verdicts, analysis, sent, restarts, durable>>

\* save_analysis may fail, too: the run stays finalized.
SaveReview(r) ==
  /\ r.kind = "finalize" /\ finalizing[r.tab].at = "staged"
  /\ \E written \in BOOLEAN :
       LET h == finalizing[r.tab]
           stored == h.seen # NoReview
           saved == ~stored /\ Assembles(h.bundle) /\ written
       IN  /\ analysis' = IF saved THEN Review(RunOf(r.tab), h.bundle) ELSE analysis
           /\ Answer(r, stored \/ saved)
  /\ finalizing' = [finalizing EXCEPT ![r.tab] = NoHandler]
  /\ UNCHANGED <<scenario, board, plies, verdicts, sent, restarts, durable, runs>>

\* A job of the native engine saves its own review of the game.
SaveNative ==
  /\ Stored /\ analysis # NativeReview
  /\ analysis' = NativeReview
  /\ UNCHANGED <<scenario, board, plies, verdicts, tabs, sent, finalizing, restarts, durable, runs>>

\* The server stops, between any two of its steps, and starts again.
Restart ==
  /\ Stored /\ restarts < MaxRestarts
  /\ restarts' = restarts + 1
  /\ finalizing' = [t \in Tabs |-> NoHandler]
  /\ runs' = Reopened
  /\ UNCHANGED <<scenario, board, plies, verdicts, analysis, tabs, sent, durable>>

Next ==
  \/ ReadMove
  \/ EndText
  \/ \E t \in Tabs : AskBegin(t)
  \/ \E t \in Tabs : AskSubmit(t)
  \/ \E t \in Tabs : AskFinalize(t)
  \/ \E t \in Tabs : GiveUp(t)
  \/ \E r \in sent : ServeBegin(r)
  \/ \E r \in sent : ServeSubmit(r)
  \/ \E r \in sent : ReadGame(r)
  \/ \E r \in sent : FinalizeRun(r)
  \/ \E r \in sent : SaveReview(r)
  \/ SaveNative
  \/ Restart

Spec == Init /\ [][Next]_vars

-----------------------------------------------------------------------------
(* Properties.                                                                *)

\* What every position is that a game reaches from the usual start, and what from_fen does
\* not ask for: nothing stands on the en passant square, and beside it the pawn that passed
\* over it; each king once; a right only with its king and rook at home; and the side that
\* just moved is not in check.
PassedOverIsEmpty(b) == ~Occupied(b, b.enPassant)
PassedByPawn(b) ==
  b.enPassant # NoSquare =>
    Holds(b, b.enPassant + (IF b.side = "white" THEN -8 ELSE 8), Opposite(b.side), "P")
KingsOnce(b) ==
  \A s, t \in DOMAIN b.squares : b.squares[s] = b.squares[t] /\ b.squares[s].type = "K" => s = t
RightsHeld(b) ==
  \A k \in Castlings : k.right \in b.rights =>
    Holds(b, k.king, k.color, "K") /\ Holds(b, k.rook, k.color, "R")
Lawful(b) ==
  /\ PassedOverIsEmpty(b) /\ PassedByPawn(b)
  /\ KingsOnce(b) /\ RightsHeld(b)
  /\ ~InCheck(b, Opposite(b.side))

\* Taking back a move restores the whole position, whatever the move was: legal_moves,
\* to_san and the analysis try moves on the board they were given and go on with it.
UndoRestores ==
  board # NoBoard =>
    \A m \in PseudoLegalMoves(board) :
      UnmakeMove(MakeMove(board, m), m, UndoOf(board, m)) = board

\* in_check looks outwards from the king; the moves of the other side look at the king
\* from where they stand.  The two agree on every position of a game.
ChecksAgree ==
  board # NoBoard =>
    \A c \in {"white", "black"} :
      InCheck(board, c) <=>
        \E m \in PseudoLegalMoves([board EXCEPT !.side = Opposite(c), !.enPassant = NoSquare]) :
          m.to = KingSquare(board, c)

\* A castling right is left only while its king and its rook are those that stood there
\* from the start: neither has moved, and nothing has taken the rook, in any ply read.
RightsAreEarned ==
  board # NoBoard =>
    \A k \in Castlings : k.right \in board.rights =>
      /\ Holds(board, k.king, k.color, "K") /\ Holds(board, k.rook, k.color, "R")
      /\ \A i \in DOMAIN plies : {plies[i].move.from, plies[i].move.to} \cap {k.king, k.rook} = {}

\* The SAN of a legal move names that move alone, so that a PGN this program writes is
\* read back as the same game (parse_san takes the first legal move that fits).
SanRoundTrip ==
  board # NoBoard =>
    LET legal == LegalMoves(board)
        san == [m \in legal |-> NormalSan(board, m, legal)]
    IN  \A m, x \in legal : san[m] = san[x] => m = x

\* The staged observations were never lost: rows, or a ledger whose server did not end.
NothingForgotten == durable \/ restarts = 0
OwnRuns == IsInjective(scenario.runOf)

\* What a tab was told is accepted stays in its run as it was sent, whatever other tabs,
\* repeated requests and restarts do; the ledger promises so until the server ends.
AcknowledgedStays ==
  NothingForgotten =>
    \A t \in Tabs : tabs[t].acks # <<>> =>
      RunOf(t) \in DOMAIN runs /\ IsPrefix(tabs[t].acks, runs[RunOf(t)].observations)

\* A review of a run says of every position what each tab that completed this run sent of
\* it, and it is legal there: never a mixture of tabs, never a part of a run.  Only a ledger
\* that forgot a run which two tabs share may mix what it is sent before and after.
ReviewIsWhole ==
  (NothingForgotten \/ OwnRuns) /\ analysis \notin {NoReview, NativeReview} =>
    /\ \A n \in 1..Expected : verdicts[n][analysis.lines[n]]
    /\ \A t \in Tabs : tabs[t].stage = "complete" /\ RunOf(t) = analysis.run =>
         \A i \in DOMAIN tabs[t].acks :
           LET o == tabs[t].acks[i]
           IN  \A n \in Places(o) : analysis.lines[n] = o.line
=============================================================================
