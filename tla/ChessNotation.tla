--------------------------- MODULE ChessNotation ---------------------------
(* Positions and moves as text: FEN (src/src/chess/fen.cpp) and SAN           *)
(* (src/src/chess/san.cpp).  A FEN is the record of its six fields; a SAN     *)
(* move is a record of its parts, with what the text leaves out left out.     *)
EXTENDS ChessBoard

\* A value that is no position: what from_fen throws on.
NoBoard == [squares |-> <<>>]

ToFen(b) ==
  [squares |-> b.squares, side |-> b.side, rights |-> b.rights, enPassant |-> b.enPassant,
   halfmove |-> b.halfmove, fullmove |-> b.fullmove]

\* What the six fields of a FEN may hold, however little sense the position makes: any
\* pieces, any rights, any square for en passant.
Colors == {"white", "black"}
PieceTypes == {"P", "N", "B", "R", "Q", "K"}
Pieces == [color : Colors, type : PieceTypes]
Clocks == 0 .. 65535      \* parse_uint
IsFen(fen) ==
  /\ DOMAIN fen.squares \subseteq Squares /\ fen.squares \in [DOMAIN fen.squares -> Pieces]
  /\ fen.side \in Colors
  /\ fen.rights \subseteq {"K", "Q", "k", "q"}
  /\ fen.enPassant \in Squares \cup {NoSquare}
  /\ fen.halfmove \in Clocks /\ fen.fullmove \in Clocks

HasKing(squares, c) == \E s \in DOMAIN squares : squares[s] = Piece(c, "K")

FromFen(fen) ==
  LET b == [squares |-> fen.squares, side |-> fen.side, rights |-> fen.rights,
            enPassant |-> fen.enPassant, halfmove |-> fen.halfmove, fullmove |-> fen.fullmove,
            hash |-> <<>>, history |-> <<>>]
  IN  IF fen.fullmove = 0 \/ ~HasKing(fen.squares, "white") \/ ~HasKing(fen.squares, "black")
      THEN NoBoard
      ELSE [b EXCEPT !.hash = ComputeHash(b), !.history = <<ComputeHash(b)>>]

-----------------------------------------------------------------------------
(* SAN.                                                                       *)

\* The pieces of the same kind, elsewhere, that may move to the same square.
Rivals(b, m, legal) ==
  {x.from : x \in {y \in legal : /\ y.from # m.from /\ y.to = m.to
                                 /\ b.squares[y.from] = b.squares[m.from]}}

\* mutant: the file is given although a rival stands on the same file
Disambiguation_Swapped(m, rivals) ==
  IF rivals = {} THEN <<>>
  ELSE IF \A s \in rivals : RankOf(s) # RankOf(m.from) THEN <<"file", FileOf(m.from)>>
  ELSE IF \A s \in rivals : FileOf(s) # FileOf(m.from) THEN <<"rank", RankOf(m.from)>>
  ELSE <<"square", m.from>>
\* The file tells them apart when no rival shares it, else the rank, else both.
Disambiguation(m, rivals) ==
  IF rivals = {} THEN <<>>
  ELSE IF \A s \in rivals : FileOf(s) # FileOf(m.from) THEN <<"file", FileOf(m.from)>>
  ELSE IF \A s \in rivals : RankOf(s) # RankOf(m.from) THEN <<"rank", RankOf(m.from)>>
  ELSE <<"square", m.from>>

Origin(b, m, legal) ==
  IF b.squares[m.from].type # "P" THEN Disambiguation(m, Rivals(b, m, legal))
  ELSE IF "capture" \in m.flags THEN <<"file", FileOf(m.from)>> ELSE <<>>

\* A move as normalize leaves it: without the mark of check or mate.
NormalSan(b, m, legal) ==
  IF \E k \in Castlings : k.flag \in m.flags
  THEN <<m.flags>>
  ELSE <<b.squares[m.from].type, Origin(b, m, legal), "capture" \in m.flags, m.to, m.promotion>>

CheckMark(b, m) ==
  LET after == MakeMove(b, m)
  IN  IF ~InCheck(after, after.side) THEN "" ELSE IF LegalMoves(after) = {} THEN "#" ELSE "+"

ToSan(b, m, legal) == Append(NormalSan(b, m, legal), CheckMark(b, m))

\* The moves a text may stand for; parse_san takes the first, and throws when
\* there is none.
ParseSan(b, san, legal) == {m \in legal : NormalSan(b, m, legal) = san}
=============================================================================
