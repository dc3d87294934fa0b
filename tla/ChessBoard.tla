----------------------------- MODULE ChessBoard -----------------------------
(* The chess position of src/src/chess/board.cpp: attacks, move generation,  *)
(* make_move with the record that undoes it, unmake_move, the hash and the    *)
(* history of hashes.                                                         *)
(*                                                                            *)
(* A position is a record.  The array squares_ is a partial function from the *)
(* occupied squares to pieces; castling rights are a set of FEN letters;      *)
(* vectors of moves are sets; the Zobrist hash is taken to be injective, so   *)
(* it is the tuple of everything the code mixes into it.                      *)
EXTENDS Integers, Sequences, FiniteSetsExt, Functions

Squares == 0..63
NoSquare == 64
Opposite(c) == IF c = "white" THEN "black" ELSE "white"
Piece(c, t) == [color |-> c, type |-> t]
Move(from, to, promotion, flags) ==
  [from |-> from, to |-> to, promotion |-> promotion, flags |-> flags]
NoType == "none"
\* uci: a move by its squares and its promotion.
Uci(m) == <<m.from, m.to, m.promotion>>

FileOf(s) == s % 8
RankOf(s) == s \div 8
OnBoard(file, rank) == file \in 0..7 /\ rank \in 0..7
SquareAt(file, rank) == rank * 8 + file

Straight == {<<1, 0>>, <<-1, 0>>, <<0, 1>>, <<0, -1>>}
Diagonal == {<<1, 1>>, <<1, -1>>, <<-1, 1>>, <<-1, -1>>}
KnightOffsets == {<<1, 2>>, <<2, 1>>, <<2, -1>>, <<1, -2>>,
                  <<-1, -2>>, <<-2, -1>>, <<-2, 1>>, <<-1, 2>>}

\* The square k steps from s in direction d; NoSquare beyond the edge.
Along(s, d, k) ==
  LET file == FileOf(s) + k * d[1]
      rank == RankOf(s) + k * d[2]
  IN  IF OnBoard(file, rank) THEN SquareAt(file, rank) ELSE NoSquare

Occupied(b, s) == s \in DOMAIN b.squares
Holds(b, s, c, t) == Occupied(b, s) /\ b.squares[s] = Piece(c, t)
Enemy(b, s, c) == Occupied(b, s) /\ b.squares[s].color # c

\* How many steps from s in direction d to the first piece; 0 without one.
StepsToPiece(b, s, d) ==
  LET hits == {k \in 1..7 : Occupied(b, Along(s, d, k))}
  IN  IF hits = {} THEN 0 ELSE Min(hits)

-----------------------------------------------------------------------------
(* Attacks.                                                                   *)

KingSquare(b, c) ==
  LET kings == {s \in DOMAIN b.squares : b.squares[s] = Piece(c, "K")}
  IN  IF kings = {} THEN NoSquare ELSE Min(kings)

\* mutant: the source rank of the pawns of the wrong colour
PawnSource_Ahead(by) == IF by = "white" THEN 1 ELSE -1
PawnSource(by) == IF by = "white" THEN -1 ELSE 1

IsSquareAttacked(b, s, by) ==
  \/ \E df \in {-1, 1} : Holds(b, Along(s, <<df, PawnSource(by)>>, 1), by, "P")
  \/ \E d \in KnightOffsets : Holds(b, Along(s, d, 1), by, "N")
  \/ \E d \in Straight \cup Diagonal :
       LET k == StepsToPiece(b, s, d)
           hit == b.squares[Along(s, d, k)]
       IN  /\ k > 0
           /\ hit.color = by
           /\ \/ hit.type = "Q"
              \/ d \in Diagonal /\ hit.type = "B"
              \/ d \in Straight /\ hit.type = "R"
              \/ k = 1 /\ hit.type = "K"

InCheck(b, c) ==
  KingSquare(b, c) # NoSquare /\ IsSquareAttacked(b, KingSquare(b, c), Opposite(c))

-----------------------------------------------------------------------------
(* Pseudo-legal moves.                                                        *)

PromotionTypes == {"Q", "R", "B", "N"}

PawnMoves(b, from) ==
  LET c == b.squares[from].color
      step == IF c = "white" THEN 1 ELSE -1
      last == IF c = "white" THEN 7 ELSE 0
      one == Along(from, <<0, step>>, 1)
      two == Along(from, <<0, step>>, 2)
      Add(to, flags) == IF RankOf(to) = last
                        THEN {Move(from, to, t, flags \cup {"promotion"}) : t \in PromotionTypes}
                        ELSE {Move(from, to, NoType, flags)}
      pushes == IF Occupied(b, one) THEN {} ELSE Add(one, {})
      doubles == IF Occupied(b, one) \/ RankOf(from) # (IF c = "white" THEN 1 ELSE 6) \/ Occupied(b, two)
                 THEN {} ELSE {Move(from, two, NoType, {"double"})}
      Take(to) == IF Enemy(b, to, c) THEN Add(to, {"capture"})
                  ELSE IF to = b.enPassant THEN Add(to, {"capture", "enPassant"}) ELSE {}
      targets == {Along(from, <<df, step>>, 1) : df \in {-1, 1}} \ {NoSquare}
  IN  IF one = NoSquare THEN {} ELSE pushes \cup doubles \cup UNION {Take(to) : to \in targets}

\* add_move: a capture when the target holds a piece.
AddMove(b, from, to) == Move(from, to, NoType, IF Occupied(b, to) THEN {"capture"} ELSE {})

Enterable(b, to, c) == to # NoSquare /\ (Occupied(b, to) => Enemy(b, to, c))

StepMoves(b, from, offsets) ==
  {AddMove(b, from, to) :
     to \in {t \in {Along(from, d, 1) : d \in offsets} : Enterable(b, t, b.squares[from].color)}}

SlidingMoves(b, from, directions) ==
  LET Reach(d) == IF StepsToPiece(b, from, d) = 0 THEN 7 ELSE StepsToPiece(b, from, d)
      Targets(d) == {Along(from, d, k) : k \in 1..Reach(d)}
  IN  {AddMove(b, from, to) : to \in {t \in UNION {Targets(d) : d \in directions} :
                                        Enterable(b, t, b.squares[from].color)}}

\* The four castlings: who, the king's and the rook's squares, and the squares
\* that must be empty and must not be attacked.
Castlings ==
  {[right |-> "K", color |-> "white", flag |-> "kingCastle",  king |-> 4,  to |-> 6,
    rook |-> 7,  rookTo |-> 5,  empty |-> {5, 6},       safe |-> {5, 6}],
   [right |-> "Q", color |-> "white", flag |-> "queenCastle", king |-> 4,  to |-> 2,
    rook |-> 0,  rookTo |-> 3,  empty |-> {1, 2, 3},    safe |-> {2, 3}],
   [right |-> "k", color |-> "black", flag |-> "kingCastle",  king |-> 60, to |-> 62,
    rook |-> 63, rookTo |-> 61, empty |-> {61, 62},     safe |-> {61, 62}],
   [right |-> "q", color |-> "black", flag |-> "queenCastle", king |-> 60, to |-> 58,
    rook |-> 56, rookTo |-> 59, empty |-> {57, 58, 59}, safe |-> {58, 59}]}

CastlingMoves(b, from) ==
  LET c == b.squares[from].color
      Allowed(k) == /\ k.color = c /\ k.king = from /\ k.right \in b.rights
                    /\ ~InCheck(b, c)
                    /\ \A s \in k.empty : ~Occupied(b, s)
                    /\ Holds(b, k.rook, c, "R")
                    /\ \A s \in k.safe : ~IsSquareAttacked(b, s, Opposite(c))
  IN  {Move(from, k.to, NoType, {k.flag}) : k \in {x \in Castlings : Allowed(x)}}

PieceMoves(b, from) ==
  LET type == b.squares[from].type
  IN  IF type = "P" THEN PawnMoves(b, from)
      ELSE IF type = "N" THEN StepMoves(b, from, KnightOffsets)
      ELSE IF type = "B" THEN SlidingMoves(b, from, Diagonal)
      ELSE IF type = "R" THEN SlidingMoves(b, from, Straight)
      ELSE IF type = "Q" THEN SlidingMoves(b, from, Diagonal \cup Straight)
      ELSE StepMoves(b, from, Diagonal \cup Straight) \cup CastlingMoves(b, from)

PseudoLegalMoves(b) ==
  UNION {PieceMoves(b, from) : from \in {s \in DOMAIN b.squares : b.squares[s].color = b.side}}

-----------------------------------------------------------------------------
(* The hash: all that compute_hash mixes in.  The en passant file counts only *)
(* when a pawn of the side to move stands beside it.                          *)

CapturableFile(b) ==
  IF /\ b.enPassant # NoSquare
     /\ \E df \in {-1, 1} : Holds(b, Along(b.enPassant, <<df, IF b.side = "white" THEN -1 ELSE 1>>, 1),
                                  b.side, "P")
  THEN FileOf(b.enPassant) ELSE 8

ComputeHash(b) == <<b.squares, b.rights, CapturableFile(b), b.side>>

-----------------------------------------------------------------------------
(* Making and taking back a move.                                             *)

Lift(squares, s) == Restrict(squares, DOMAIN squares \ {s})
Put(squares, s, piece) == [x \in DOMAIN squares \cup {s} |-> IF x = s THEN piece ELSE squares[x]]
Shift(squares, from, to) == Put(Lift(squares, from), to, squares[from])

\* The castling that a move is, if it is one; its rook moves as well.
CastlingOf(m, c) == {k \in Castlings : k.color = c /\ k.flag \in m.flags}
Castled(squares, ks) ==
  IF ks = {} THEN squares ELSE LET k == CHOOSE k \in ks : TRUE IN Shift(squares, k.rook, k.rookTo)
Uncastled(squares, ks) ==
  IF ks = {} THEN squares ELSE LET k == CHOOSE k \in ks : TRUE IN Shift(squares, k.rookTo, k.rook)

\* Where the captured piece stands: not on the target square in en passant.
CapturedSquare(b, m) ==
  IF "enPassant" \in m.flags THEN m.to + (IF b.side = "white" THEN -8 ELSE 8) ELSE m.to

\* What make_move returns.  "captured" is empty or holds the captured piece.
UndoOf(b, m) ==
  LET s == CapturedSquare(b, m)
  IN  [captured |-> IF Occupied(b, s) THEN <<b.squares[s]>> ELSE <<>>, capturedSquare |-> s,
       enPassant |-> b.enPassant, rights |-> b.rights, halfmove |-> b.halfmove,
       fullmove |-> b.fullmove, hash |-> b.hash]

\* mutant: a rook that is captured on its corner leaves the right behind
LostRights_Own(b, m) ==
  {k.right : k \in {x \in Castlings : \/ x.color = b.side /\ b.squares[m.from].type = "K"
                                      \/ x.rook = m.from}}
\* The rights a move ends: those of a king that moves, and that of a corner it
\* leaves or enters.
LostRights(b, m) ==
  {k.right : k \in {x \in Castlings : \/ x.color = b.side /\ b.squares[m.from].type = "K"
                                      \/ x.rook \in {m.from, m.to}}}

Uint16(n) == n % 65536

SquaresAfter(b, m) ==
  LET moving == b.squares[m.from]
      placed == IF "promotion" \in m.flags THEN Piece(moving.color, m.promotion) ELSE moving
  IN  Castled(Put(Lift(Lift(b.squares, CapturedSquare(b, m)), m.from), m.to, placed),
              CastlingOf(m, moving.color))

\* For a piece of the side to move, which every caller has: make_move refuses another.
MakeMove(b, m) ==
  LET quiet == b.squares[m.from].type # "P" /\ ~Occupied(b, CapturedSquare(b, m))
      next == [b EXCEPT
        !.squares = SquaresAfter(b, m),
        !.rights = @ \ LostRights(b, m),
        !.enPassant = IF "double" \in m.flags THEN (m.from + m.to) \div 2 ELSE NoSquare,
        !.halfmove = IF quiet THEN Uint16(@ + 1) ELSE 0,
        !.fullmove = IF b.side = "black" THEN Uint16(@ + 1) ELSE @,
        !.side = Opposite(@)]
  IN  [next EXCEPT !.hash = ComputeHash(next), !.history = Append(@, ComputeHash(next))]

\* mutant: what en passant captured comes back on the target square
Recaptured_OnTarget(squares, m, u) ==
  IF u.captured = <<>> THEN squares ELSE Put(squares, m.to, u.captured[1])
Recaptured(squares, m, u) ==
  IF u.captured = <<>> THEN squares ELSE Put(squares, u.capturedSquare, u.captured[1])

SquaresBefore(b, m, u) ==
  LET moving == IF "promotion" \in m.flags THEN Piece(b.squares[m.to].color, "P") ELSE b.squares[m.to]
  IN  Uncastled(Recaptured(Lift(Put(b.squares, m.from, moving), m.to), m, u),
                CastlingOf(m, Opposite(b.side)))

UnmakeMove(b, m, u) ==
  [b EXCEPT
    !.history = IF Len(@) > 1 THEN SubSeq(@, 1, Len(@) - 1) ELSE @,
    !.side = Opposite(@), !.squares = SquaresBefore(b, m, u),
    !.enPassant = u.enPassant, !.rights = u.rights, !.halfmove = u.halfmove,
    !.fullmove = u.fullmove, !.hash = u.hash]

\* legal_moves tries every pseudo-legal move on the board and takes it back.
LegalMoves(b) == {m \in PseudoLegalMoves(b) : ~InCheck(MakeMove(b, m), b.side)}

\* find_legal_move; without a promotion letter the callers pass a queen.
FindLegalMove(b, from, to, promotion) ==
  {m \in LegalMoves(b) : /\ m.from = from /\ m.to = to
                         /\ "promotion" \in m.flags => m.promotion = promotion}
=============================================================================
