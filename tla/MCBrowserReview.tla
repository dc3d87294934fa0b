-------------------------- MODULE MCBrowserReview --------------------------
(***************************************************************************)
(* Four positions to play from that hold what move generation finds hard,  *)
(* and two short games that are reviewed by two tabs.                      *)
(***************************************************************************)
EXTENDS BrowserReview

Men(color, men) == {<<m[1], Piece(color, m[2])>> : m \in men}
Placement(white, black) ==
  LET men == Men("white", white) \cup Men("black", black)
  IN  [s \in {m[1] : m \in men} |-> (CHOOSE m \in men : m[1] = s)[2]]
Fen(white, black, side, rights) ==
  [squares |-> Placement(white, black), side |-> side, rights |-> rights, enPassant |-> NoSquare,
   halfmove |-> 0, fullmove |-> 1]

\* Castling on both sides; every rook may take the one it faces.
Castles == Fen({<<4, "K">>, <<0, "R">>, <<7, "R">>}, {<<60, "K">>, <<56, "R">>, <<63, "R">>},
               "white", {"K", "Q", "k", "q"})
\* After d7-d5 the pawn on e5 may take en passant, but for the rook on h5.
EnPassant == Fen({<<32, "K">>, <<36, "P">>, <<25, "P">>}, {<<62, "K">>, <<39, "R">>, <<51, "P">>, <<50, "P">>},
                 "black", {})
\* Either side promotes, also by taking a rook that could still castle.
Promotions == Fen({<<4, "K">>, <<0, "R">>, <<54, "P">>}, {<<60, "K">>, <<63, "R">>, <<9, "P">>},
                  "white", {"Q", "k"})
\* Three queens and three knights that share files, ranks and targets.
Crowd == Fen({<<41, "K">>, <<28, "Q">>, <<31, "Q">>, <<7, "Q">>, <<1, "N">>, <<17, "N">>, <<21, "N">>},
             {<<57, "K">>}, "white", {})
\* One move, then six.
Pawns == Fen({<<53, "K">>, <<38, "P">>}, {<<63, "K">>}, "black", {})
\* Mate in one by a promotion.
Mate == Fen({<<46, "K">>, <<53, "P">>}, {<<63, "K">>}, "white", {})

TwoTabs == {"t1", "t2"}
Own == [t \in TwoTabs |-> t]
Shared == [t \in TwoTabs |-> "t1"]
Scene(fen, text, ending, durable_, orderly, runOf) ==
  [fen |-> fen, text |-> text, ending |-> ending, durable |-> durable_,
   orderly |-> orderly, runOf |-> runOf]

\* A text that may give any move, or just one.
AnyMove == Squares \X Squares \X (PromotionTypes \cup {NoType})
One(from, to, promotion) == {<<from, to, promotion>>}
Scenes ==
  {Scene(f, <<AnyMove, AnyMove>>, "broken", TRUE, TRUE, Own) : f \in {Castles, EnPassant, Promotions}}
  \cup {Scene(Crowd, <<AnyMove>>, "broken", TRUE, TRUE, Own)}
  \cup {Scene(Pawns, <<One(63, 55, NoType), One(38, 46, NoType)>>, "completed", FALSE, TRUE, Shared),
        Scene(Mate, <<One(53, 61, "Q")>>, "completed", TRUE, FALSE, Shared),
        Scene(Mate, <<One(53, 61, "Q")>>, "completed", FALSE, TRUE, Own),
        Scene(Mate, <<One(53, 61, "N")>>, "unfinished", TRUE, TRUE, Own)}

\* To White a line with its reply, another one, and the claim that there is no move;
\* to Black one line.
EngineLines(b) ==
  LET legal == LegalMoves(b)
      first == CHOOSE m \in legal : TRUE
      replies == LegalMoves(MakeMove(b, first))
      reply == IF replies = {} THEN <<>> ELSE <<Uci(CHOOSE m \in replies : TRUE)>>
      other == CHOOSE m \in legal : m # first
      none == [best |-> Terminal, moves |-> <<>>]
      best == [best |-> Uci(first), moves |-> <<Uci(first)>> \o reply]
  IN  IF legal = {} THEN {none}
      ELSE IF b.side = "black" THEN {best}
      ELSE {none, best, [best |-> Uci(other), moves |-> <<Uci(other)>>]}

\* Every scene starts from a position the hypotheses of the theorems admit.
ASSUME ScenesAreLawful == \A s \in Scenes : Lawful(FromFen(s.fen))
=============================================================================
